------------------------------- MODULE Dfu -------------------------------
(***************************************************************************)
(* Firmware update on one node: the DFU state machine of bm-wire           *)
(* (bcmp/dfu_core.rs) with both its roles (dfu_client.rs, dfu_host.rs),    *)
(* as bm-stack's NodeDfu (dfu.rs) drives it, over the update slot, the     *)
(* no-init RAM and the bootloader behind it.                               *)
(*                                                                         *)
(* One call of Dfu::step is a fixed sequence of control points, pc:        *)
(*   "ready" -pop-> "run" -handler-> "take" -exit-> "enter" -entry->       *)
(*   "done" -persist-> "ready".                                            *)
(* Each handler of the code is one action.  step holds &mut self, so no    *)
(* other call starts before pc is "ready" again; a crash may come anywhere.*)
(*                                                                         *)
(* Time is abstracted to the set of running timers: a running timer may    *)
(* come due at any poll.  CRC-16 is abstracted to the bytes it is of.      *)
(*                                                                         *)
(* A definition marked "slip" is a plausible mistake in the one below it;  *)
(* the model uses none of them.  Each shows that a property has teeth.     *)
(***************************************************************************)
EXTENDS Integers, Sequences, FiniteSets

CONSTANTS
  Byte,                \* what a byte of an image may be
  Zero,                \* the byte a short stream read is padded with
  Erased,              \* the byte an erased slot reads as
  Images,              \* the bootable images: [sha, bytes]
  RunningImage,        \* the image the node first runs
  InitSlot,            \* what the update slot first holds
  Confirms,            \* what dfu_confirm may first be
  Messages,            \* the bodies the bus may bring this node
  Requests,            \* the arguments initiate_update may be given
  Feeds,               \* the data host_queue_data may be given
  Faults,              \* which external operations may fail
  Drained,             \* TRUE: Node::run, which drains DFU after each input
  EVENT_QUEUE_LEN, OUTBOX_LEN, FINISHED_LEN,
  MAX_CHUNK_RETRIES, MAX_ACK_RETRIES,
  DFU_MAX_CHUNK_SIZE, IMG_PAGE_LEN,
  IMG_INFO_LEN,        \* ImgInfo::LEN, where a hosted image starts
  SlotSize,            \* DfuSlot::size
  CountWrap,           \* 2^16: the range of num_chunks and current_chunk
  MaxInputs            \* bound: calls from outside, and crashes

State == {"Init", "Idle", "Error", "ClientReceiving", "ClientValidating",
          "ClientRebootReq", "ClientRebootDone", "ClientActivating",
          "HostReqUpdate", "HostUpdate"}
IsClient(s) == s \in {"ClientReceiving", "ClientValidating", "ClientRebootReq",
                      "ClientRebootDone", "ClientActivating"}
IsHost(s) == s \in {"HostReqUpdate", "HostUpdate"}

\* The events a received body is queued as (EventType::for_frame_type), and
\* the ones that carry no body.
MessageKind == {"ReceivedUpdateRequest", "ChunkRequest", "ImageChunk",
                "UpdateEnd", "AckReceived", "Heartbeat", "Abort",
                "RebootRequest", "Reboot", "BootComplete"}

\* DfuErr, by value.  At FLASH_ACCESS and above an error is fatal.
NONE == 0
SAME_VER == 2
TOO_LARGE == 1
MISMATCH_LEN == 3
BAD_CRC == 4
TIMEOUT == 6
BM_FRAME == 7
ABORTED == 8
WRONG_VER == 9
IN_PROGRESS == 10
CHUNK_SIZE == 11
CONFIRMATION_ABORT == 13
FLASH_ACCESS == 14
DfuErr == 0..255
IsFatalAbove(e) == e > FLASH_ACCESS  \* slip
IsFatal(e) == e >= FLASH_ACCESS

Timer == {"Chunk", "Ack", "Update"}
TimerEvent(t) ==
  IF t = "Chunk" THEN "ChunkTimeout" ELSE IF t = "Ack" THEN "AckTimeout" ELSE "Abort"

\* ImgInfo: image_size, chunk_size, the bytes crc16 is of, git_sha, and
\* whether filter_key is IMG_INFO_FORCE_UPDATE.
ImgInfo == [size : Nat, chunk : Nat, crc : Seq(Byte), sha : Nat, force : BOOLEAN]
NoInfo == [size |-> 0, chunk |-> 0, crc |-> <<>>, sha |-> 0, force |-> FALSE]

\* A received DFU body.  ~whole: too short for the fields its type has, or,
\* for a chunk, a payload_length over DFU_MAX_CHUNK_SIZE.
Body == [kind : MessageKind, src : Nat, whole : BOOLEAN, info : ImgInfo,
         data : Seq(Byte), ok : BOOLEAN, err : DfuErr]

\* HostStart, and the flag initiate_update takes with it.
Request == [dst : Nat, info : ImgInfo, notify : BOOLEAN, internal : BOOLEAN]

\* Node id 0: no host or client yet.
NoNode == 0
\* EventData::None.
NoBody == [none |-> TRUE]

\* RebootInfo: whether magic is DFU_REBOOT_MAGIC, the host and the git_sha.
RebootInfo == [magic : BOOLEAN, host : Nat, sha : Nat]
NoReboot == [magic |-> FALSE, host |-> NoNode, sha |-> 0]

Image == [sha : Nat, bytes : Seq(Byte)]
Slot == [1..SlotSize -> Byte]

ASSUME DfuAssumption ==
  /\ Zero \in Byte /\ Erased \in Byte
  /\ Images \subseteq Image /\ RunningImage \in Images
  /\ InitSlot \in Slot
  /\ Confirms \subseteq BOOLEAN
  /\ Messages \subseteq Body
  /\ Requests \subseteq Request
  /\ Feeds \subseteq Seq(Byte)
  /\ Faults \subseteq {"open", "erase", "write", "read", "commit", "pend",
                       "confirm", "watchdog", "power"}
  /\ Drained \in BOOLEAN
  /\ EVENT_QUEUE_LEN \in Nat \ {0}
  /\ OUTBOX_LEN \in Nat /\ FINISHED_LEN \in Nat
  /\ MAX_CHUNK_RETRIES \in 1..255 /\ MAX_ACK_RETRIES \in 1..255
  /\ DFU_MAX_CHUNK_SIZE \in Nat /\ IMG_PAGE_LEN \in Nat \ {0}
  /\ DFU_MAX_CHUNK_SIZE <= IMG_PAGE_LEN
  /\ IMG_INFO_LEN \in Nat
  /\ SlotSize \in Nat /\ CountWrap \in Nat \ {0} /\ MaxInputs \in Nat
  /\ \A m \in Messages : m.whole => Len(m.data) <= DFU_MAX_CHUNK_SIZE

VARIABLES
  state, pending, queue, event, pc,   \* Core, and where step is
  timers,                             \* the running timers
  core,                               \* error, client_node_id, notify, internal
  reboot,                             \* Core::reboot_info
  cl, ho,                             \* Client, Host
  outbox, reset, finished,            \* NodeDfu
  noinit,                             \* no-init RAM, NodeDfu::stored
  slot,                               \* the bytes of the update slot
  boot,                               \* the image that runs; whether on trial
  confirm,                            \* dfu_confirm is 1, or absent
  inputs,                             \* bound on the environment
  owed                                \* history: reports promised, not made

coreVars == <<state, pending, queue, event, pc, timers, core, reboot>>
roleVars == <<cl, ho>>
nodeVars == <<outbox, reset, finished, noinit>>
flashVars == <<slot, boot, confirm>>
vars == <<coreVars, roleVars, nodeVars, flashVars, inputs, owed>>

NoState == "NoState"
NoReset == "NoReset"

Event(k, b) == [kind |-> k, body |-> b]
Bare(k) == Event(k, NoBody)
NOP == Bare("None")
Events == [kind : MessageKind, body : Body]
          \cup [kind : {"BeginHost"}, body : Request]
          \cup [kind : {"None", "InitSuccess", "AckTimeout", "ChunkTimeout", "Abort"},
               body : {NoBody}]

\* A body the machine sends.
Out(k, dst, ok, err, data) ==
  [kind |-> k, dst |-> dst, ok |-> ok, err |-> err, data |-> data]
Outs == [kind : MessageKind, dst : Nat, ok : BOOLEAN, err : DfuErr,
         data : Seq(Byte)]
Plain(k, dst) == Out(k, dst, FALSE, NONE, <<>>)
Ack(dst, ok, err) == Out("AckReceived", dst, ok, err, <<>>)
End(dst, ok, err) == Out("UpdateEnd", dst, ok, err, <<>>)
AbortMsg(dst, err) == Out("Abort", dst, FALSE, err, <<>>)

Report(ok, err, node) == [ok |-> ok, err |-> err, node |-> node]
Reports == [ok : BOOLEAN, err : DfuErr, node : Nat]

\* Whether the external operation f succeeds.
Outcome(f) == IF f \in Faults THEN BOOLEAN ELSE {TRUE}

Least(a, b) == IF a <= b THEN a ELSE b

------------------------------------------------------------------------------
(* The three bounded FIFOs.  A push that finds its queue full is lost. *)

Put(q, x, cap) == IF Len(q) < cap THEN Append(q, x) ELSE q
Post(q, e) == Put(q, e, EVENT_QUEUE_LEN)
\* set_pending_state_change: the change, and a NOP to run it with.
SetPendingSilently(s, q) == pending' = s /\ queue' = q  \* slip
SetPending(s, q) == pending' = s /\ queue' = Post(q, NOP)
Send(m) == outbox' = Put(outbox, m, OUTBOX_LEN)
Send2(m, n) == outbox' = Put(Put(outbox, m, OUTBOX_LEN), n, OUTBOX_LEN)
UpdateFinished(r) == finished' = Put(finished, r, FINISHED_LEN)

\* Core::delay: the timers that may come due in it, in the order they do.
Firings(T) == {<<>>} \cup {<<t>> : t \in T}
              \cup {<<t, u>> : t \in T, u \in T} \cup {<<t, u, v>> : t \in T, u \in T, v \in T}
InTurn(f) == \A i, j \in DOMAIN f : i # j => f[i] # f[j]
Fired(f) == {f[i] : i \in DOMAIN f}
PostDue(q, t) == Post(q, Bare(TimerEvent(t)))
PostFired(q, f) ==
  IF Len(f) = 0 THEN q
  ELSE IF Len(f) = 1 THEN PostDue(q, f[1])
  ELSE IF Len(f) = 2 THEN PostDue(PostDue(q, f[1]), f[2])
  ELSE PostDue(PostDue(PostDue(q, f[1]), f[2]), f[3])

------------------------------------------------------------------------------
(* The update slot. *)

ErasedTo(k) == [i \in 1..SlotSize |-> IF i <= k THEN Erased ELSE slot[i]]
EmptySlot == [i \in 1..SlotSize |-> Erased]
Written(s, off, data) ==
  [i \in 1..SlotSize |-> IF i > off /\ i <= off + Len(data) THEN data[i - off] ELSE s[i]]

\* Area::write: refused outside the slot; otherwise byte by byte, then read
\* back, so that a success has stored data and a failure some of it.
Writes(s, off, data) ==
  IF off + Len(data) > SlotSize
  THEN {[ok |-> FALSE, slot |-> s]}
  ELSE {[ok |-> TRUE, slot |-> Written(s, off, data)]}
       \cup (IF "write" \in Faults
             THEN {[ok |-> FALSE, slot |-> Written(s, off, SubSeq(data, 1, k))] :
                     k \in 0..Len(data)}
             ELSE {})

------------------------------------------------------------------------------
ClientNew == [size |-> 0, num |-> 0, crc |-> <<>>, got |-> <<>>, page |-> <<>>,
              off |-> 0, retries |-> 0, chunk |-> 0, host |-> NoNode]
HostNew == [info |-> NoInfo, client |-> NoNode, left |-> 0, retries |-> 0,
            notify |-> FALSE, cap |-> 0, stream |-> <<>>]
CoreNew == [error |-> NONE, client |-> NoNode, notify |-> FALSE, internal |-> FALSE]

\* Dfu::new and NodeDfu::new.
Init ==
  /\ state = "Init" /\ pending = NoState /\ event = NOP /\ pc = "ready"
  /\ queue = <<Bare("InitSuccess")>>
  /\ timers = {} /\ core = CoreNew /\ cl = ClientNew /\ ho = HostNew
  /\ outbox = <<>> /\ reset = NoReset /\ finished = <<>>
  /\ reboot = NoReboot /\ noinit = NoReboot
  /\ slot = InitSlot
  /\ boot = [running |-> RunningImage, trial |-> FALSE]
  /\ confirm \in Confirms
  /\ inputs = 0 /\ owed = 0

------------------------------------------------------------------------------
(* Calls into the node between two steps. *)

\* next_body has nothing left to do.
AtRest == pc = "ready" /\ queue = <<>> /\ outbox = <<>> /\ reset = NoReset
\* Node::run_app drains DFU and takes every report before it waits again; a
\* node driven by hand may be called between any two steps.
Callable == pc = "ready" /\ (Drained => AtRest /\ finished = <<>>)
Input == Callable /\ inputs < MaxInputs /\ inputs' = inputs + 1

\* bm_dfu_process_message's peer check, against the state at queue time.
FromPeer(src) == /\ IsClient(state) => src = cl.host
                 /\ IsHost(state) => src = ho.client

\* Dfu::on_message.  A refused body changes nothing.
OnMessage(m) ==
  /\ Input
  /\ FromPeer(m.src)
  /\ Len(queue) < EVENT_QUEUE_LEN
  /\ queue' = Append(queue, Event(m.kind, m))
  /\ UNCHANGED <<state, pending, event, pc, timers, core, reboot,
                 roleVars, nodeVars, flashVars, owed>>

\* Dfu::initiate_update, accepted.
InitiateUpdate(r) ==
  /\ Input
  /\ r.info.chunk <= DFU_MAX_CHUNK_SIZE
  /\ state = "Idle" /\ Len(queue) < EVENT_QUEUE_LEN
  /\ queue' = Append(queue, Event("BeginHost", r))
  /\ core' = [core EXCEPT !.internal = r.internal]
  /\ owed' = IF r.notify THEN owed + 1 ELSE owed
  /\ UNCHANGED <<state, pending, event, pc, timers, reboot, roleVars, nodeVars,
                 flashVars>>

\* Dfu::initiate_update, refused with a report.  Without notify, or for a
\* chunk_size over the maximum, a refusal changes nothing.
RefuseUpdate(r) ==
  /\ Input
  /\ r.info.chunk <= DFU_MAX_CHUNK_SIZE
  /\ state # "Idle" \/ Len(queue) = EVENT_QUEUE_LEN
  /\ r.notify
  /\ UpdateFinished(Report(FALSE, IN_PROGRESS, r.dst))
  /\ UNCHANGED <<coreVars, roleVars, outbox, reset, noinit, flashVars, owed>>

\* NodeDfu::host_queue_data: all of it, or nothing if it does not fit.
HostQueueData(data) ==
  /\ Input
  /\ ho.cap > 0
  /\ Len(ho.stream) + Len(data) <= ho.cap
  /\ ho' = [ho EXCEPT !.stream = @ \o data]
  /\ UNCHANGED <<coreVars, cl, nodeVars, flashVars, owed>>

\* NodeDfu::take_update_finished.
TakeUpdateFinished ==
  /\ pc = "ready" /\ (Drained => AtRest)
  /\ finished # <<>>
  /\ finished' = Tail(finished)
  /\ UNCHANGED <<coreVars, roleVars, outbox, reset, noinit, flashVars, inputs, owed>>

------------------------------------------------------------------------------
(* NodeDfu::next_body: frames first, then a reset, then a step. *)

Transmit ==
  /\ pc = "ready" /\ outbox # <<>>
  /\ outbox' = Tail(outbox)
  /\ UNCHANGED <<coreVars, roleVars, reset, finished, noinit, flashVars, inputs, owed>>

StepsAnyway == pc = "ready" /\ reset = NoReset  \* slip
Steppable == pc = "ready" /\ outbox = <<>> /\ reset = NoReset

\* Core::advance_to and fire_due.
TimerDue(t) ==
  /\ Steppable
  /\ t \in timers
  /\ timers' = timers \ {t}
  /\ queue' = PostDue(queue, t)
  /\ UNCHANGED <<state, pending, event, pc, core, reboot, roleVars, nodeVars,
                 flashVars, inputs, owed>>

Pop ==
  /\ Steppable
  /\ queue # <<>>
  /\ event' = Head(queue) /\ queue' = Tail(queue) /\ pc' = "run"
  /\ UNCHANGED <<state, pending, timers, core, reboot, roleVars, nodeVars,
                 flashVars, inputs, owed>>

------------------------------------------------------------------------------
(* Dfu::run_state: one action per handler.  Each leaves pc at "take". *)

Running(s, k) == pc = "run" /\ state = s /\ event.kind = k /\ pc' = "take"
StepVars == <<state, event, inputs, noinit, confirm, boot>>

\* bm_dfu_client_transition_to_error, bm_dfu_host_transition_to_error: the
\* part they share.  Each also stops its role's timers.
ToError(err) == core' = [core EXCEPT !.error = err] /\ SetPending("Error", queue)

\* s_init_run
AlwaysIdle == "Idle"  \* slip
AfterInit == IF reboot.magic THEN "ClientRebootDone" ELSE "Idle"
InitRun ==
  /\ Running("Init", "InitSuccess")
  /\ SetPending(AfterInit, queue)
  /\ UNCHANGED <<StepVars, timers, core, reboot, roleVars, outbox, reset,
                 finished, slot, owed>>

\* s_idle_run, BeginHost
IdleBeginHost ==
  /\ Running("Idle", "BeginHost")
  /\ core' = [core EXCEPT !.notify = event.body.notify, !.client = event.body.dst]
  /\ ho' = [ho EXCEPT !.notify = event.body.notify]
  /\ SetPending("HostReqUpdate", queue)
  /\ UNCHANGED <<StepVars, timers, reboot, cl, outbox, reset, finished, slot, owed>>

\* num_chunks, in 16 bits; a chunk_size of zero divides to zero.
NumChunks(info) ==
  LET whole == IF info.chunk = 0 THEN 0 ELSE info.size \div info.chunk
      rem == IF info.chunk = 0 THEN info.size ELSE info.size % info.chunk
  IN (IF rem # 0 THEN whole + 1 ELSE whole) % CountWrap

\* The start request being run in Idle, if it is long enough to read.
Offered == event.body.info
OfferRun == Running("Idle", "ReceivedUpdateRequest") /\ event.body.whole
SameVersion == Offered.sha = boot.running.sha /\ ~Offered.force
ChunkTooBig == Offered.chunk > DFU_MAX_CHUNK_SIZE
TakenOffer == [cl EXCEPT !.host = event.body.src, !.size = Offered.size,
                         !.num = NumChunks(Offered), !.crc = Offered.crc]

\* bm_dfu_client_process_update_request: the image already runs.
RefuseSameVersion ==
  /\ OfferRun /\ SameVersion
  /\ cl' = [cl EXCEPT !.host = event.body.src]
  /\ Send(Ack(event.body.src, FALSE, SAME_VER))
  /\ UNCHANGED <<StepVars, pending, queue, timers, core, reboot, ho, reset,
                 finished, slot, owed>>

\* ... its chunks are too large: abort, and fail.
RefuseChunkSize ==
  /\ OfferRun /\ ~SameVersion /\ ChunkTooBig
  /\ cl' = [cl EXCEPT !.host = event.body.src]
  /\ Send(AbortMsg(event.body.src, ABORTED))
  /\ timers' = timers \ {"Chunk"}
  /\ ToError(CHUNK_SIZE)
  /\ UNCHANGED <<StepVars, reboot, ho, reset, finished, slot, owed>>

\* ... the slot cannot be opened, or, after its size is checked, not erased:
\* NACK, and fail for good.
RefuseFlash ==
  /\ OfferRun /\ ~SameVersion /\ ~ChunkTooBig
  /\ \/ FALSE \in Outcome("open") /\ UNCHANGED slot
     \/ /\ FALSE \in Outcome("erase") /\ SlotSize > Offered.size
        /\ \E k \in 0..SlotSize : slot' = ErasedTo(k)
  /\ cl' = TakenOffer
  /\ Send(Ack(event.body.src, FALSE, FLASH_ACCESS))
  /\ timers' = timers \ {"Chunk"}
  /\ ToError(FLASH_ACCESS)
  /\ UNCHANGED <<StepVars, reboot, ho, reset, finished, owed>>

\* ... it does not fit: NACK, and stay.
RefuseTooLarge ==
  /\ OfferRun /\ ~SameVersion /\ ~ChunkTooBig
  /\ SlotSize <= Offered.size
  /\ cl' = TakenOffer
  /\ Send(Ack(event.body.src, FALSE, TOO_LARGE))
  /\ UNCHANGED <<StepVars, pending, queue, timers, core, reboot, ho, reset,
                 finished, slot, owed>>

\* ... accepted: erase, ACK, leave the reboot info, delay(10), receive.
AcceptOffer ==
  /\ OfferRun /\ ~SameVersion /\ ~ChunkTooBig
  /\ SlotSize > Offered.size
  /\ slot' = EmptySlot
  /\ cl' = TakenOffer
  /\ Send(Ack(event.body.src, TRUE, NONE))
  /\ reboot' = [magic |-> TRUE, host |-> event.body.src, sha |-> Offered.sha]
  /\ \E f \in {g \in Firings(timers) : InTurn(g)} :
       /\ timers' = timers \ Fired(f)
       /\ SetPending("ClientReceiving", PostFired(queue, f))
  /\ UNCHANGED <<StepVars, core, ho, reset, finished, owed>>

\* Client::restart_transfer
Restarted(c) == [c EXCEPT !.chunk = 0, !.retries = 0, !.page = <<>>, !.off = 0,
                          !.got = <<>>]
ChunkReq(dst) == Plain("ChunkRequest", dst)

\* bm_dfu_process_payload: the outcomes of gathering data into the page.
Payload(data) ==
  LET buf == cl.page \o data IN
  IF data = <<>> THEN {[ok |-> FALSE, page |-> cl.page, off |-> cl.off, slot |-> slot]}
  ELSE IF Len(buf) < IMG_PAGE_LEN
  THEN {[ok |-> TRUE, page |-> buf, off |-> cl.off, slot |-> slot]}
  ELSE {IF w.ok
        THEN [ok |-> TRUE, page |-> SubSeq(buf, IMG_PAGE_LEN + 1, Len(buf)),
              off |-> cl.off + IMG_PAGE_LEN, slot |-> w.slot]
        ELSE [ok |-> FALSE, page |-> <<>>, off |-> cl.off, slot |-> w.slot] :
          w \in Writes(slot, cl.off, SubSeq(buf, 1, IMG_PAGE_LEN))}

\* bm_dfu_process_end, after payload outcome p.
Ending(p) ==
  IF p.page = <<>> THEN {[ok |-> TRUE, off |-> p.off, slot |-> p.slot]}
  ELSE {[ok |-> w.ok, off |-> IF w.ok THEN p.off + Len(p.page) ELSE p.off,
         slot |-> w.slot] : w \in Writes(p.slot, p.off, p.page)}

ChunkRun == Running("ClientReceiving", "ImageChunk") /\ event.body.whole
NextChunk == (cl.chunk + 1) % CountWrap
WithChunk(p, off) == [cl EXCEPT !.got = @ \o event.body.data, !.page = p.page,
                                !.off = off, !.chunk = NextChunk, !.retries = 0]

\* s_client_receiving_run, a chunk with more to come.  After a failed write
\* the next chunk is still asked for and the timer armed.
ReceiveChunk ==
  /\ ChunkRun /\ NextChunk < cl.num
  /\ \E p \in Payload(event.body.data) :
       /\ slot' = p.slot
       /\ cl' = WithChunk(p, p.off)
       /\ \/ p.ok /\ UNCHANGED <<pending, queue, core>>
          \/ ~p.ok /\ ToError(BM_FRAME)
  /\ Send(ChunkReq(cl.host))
  /\ timers' = timers \cup {"Chunk"}
  /\ UNCHANGED <<StepVars, reboot, ho, reset, finished, owed>>

\* ... the last chunk.  The change to ClientValidating replaces a change to
\* Error that a failed write has just set.
ReceiveLastChunk ==
  /\ ChunkRun /\ NextChunk >= cl.num
  /\ \E p \in Payload(event.body.data) : \E e \in Ending(p) :
       /\ slot' = e.slot
       /\ cl' = WithChunk(p, e.off)
       /\ core' = IF p.ok /\ e.ok THEN core ELSE [core EXCEPT !.error = BM_FRAME]
       /\ SetPending(IF e.ok THEN "ClientValidating" ELSE "Error",
                     IF p.ok THEN queue ELSE Post(queue, NOP))
  /\ timers' = timers \ {"Chunk"}
  /\ UNCHANGED <<StepVars, reboot, ho, outbox, reset, finished, owed>>

\* chunk_retry_num.wrapping_add(1)
RetriedUncounted(n) == n  \* slip
Retried(n) == (n + 1) % 256
\* The chunk timer in a state that retries with message m: give up after
\* MAX_CHUNK_RETRIES, in the way giveUp says.
Retry(s, m, giveUp) ==
  /\ Running(s, "ChunkTimeout")
  /\ cl' = [cl EXCEPT !.retries = Retried(@)]
  /\ IF Retried(cl.retries) >= MAX_CHUNK_RETRIES
     THEN giveUp
     ELSE /\ Send(m) /\ timers' = timers \cup {"Chunk"}
          /\ UNCHANGED <<pending, queue, core, reboot, reset>>
  /\ UNCHANGED <<StepVars, ho, finished, slot, owed>>

TimedOut ==
  /\ Send(AbortMsg(cl.host, ABORTED))
  /\ timers' = timers \ {"Chunk"}
  /\ ToError(TIMEOUT)
  /\ UNCHANGED <<reboot, reset>>

\* s_client_receiving_run, ChunkTimeout
ReceivingTimeout == Retry("ClientReceiving", ChunkReq(cl.host), TimedOut)

\* s_client_receiving_run, a second start request: restart the transfer
\* against the image of the first, after delay(100).
ReceivingRestart ==
  /\ Running("ClientReceiving", "ReceivedUpdateRequest")
  /\ Send2(Ack(cl.host, TRUE, NONE), ChunkReq(cl.host))
  /\ cl' = Restarted(cl)
  /\ \E f \in {g \in Firings(timers \ {"Chunk"}) : InTurn(g)} :
       /\ timers' = (timers \ Fired(f)) \cup {"Chunk"}
       /\ queue' = PostFired(queue, f)
  /\ UNCHANGED <<StepVars, pending, core, reboot, ho, reset, finished, slot, owed>>

\* s_client_receiving_run, Heartbeat
ReceivingHeartbeat ==
  /\ Running("ClientReceiving", "Heartbeat")
  /\ timers' = timers \cup {"Chunk"}
  /\ UNCHANGED <<StepVars, pending, queue, core, reboot, roleVars, outbox, reset,
                 finished, slot, owed>>

\* s_client_reboot_req_run
RebootReqReboot ==
  /\ Running("ClientRebootReq", "Reboot")
  /\ timers' = timers \ {"Chunk"}
  /\ SetPending("ClientActivating", queue)
  /\ UNCHANGED <<StepVars, core, reboot, roleVars, outbox, reset, finished, slot, owed>>
RebootReqTimeout == Retry("ClientRebootReq", Plain("RebootRequest", cl.host), TimedOut)

\* bm_dfu_client_fail_update_and_reboot, with its delay(100).
FailUpdateStays ==  \* slip
  /\ reboot' = NoReboot
  /\ UNCHANGED <<reset, timers, queue>>
FailUpdate ==
  /\ reboot' = NoReboot
  /\ reset' = "Fail"
  /\ \E f \in {g \in Firings(timers) : InTurn(g)} :
       timers' = timers \ Fired(f) /\ queue' = PostFired(queue, f)

\* s_client_update_done_run.  set_confirmed reports no failure.
UpdateDoneEnd ==
  /\ Running("ClientRebootDone", "UpdateEnd")
  /\ timers' = timers \ {"Chunk"}
  /\ \E ok \in Outcome("confirm") : boot' = [boot EXCEPT !.trial = @ /\ ~ok]
  /\ Send(End(reboot.host, TRUE, NONE))
  /\ SetPending("Idle", queue)
  /\ UNCHANGED <<state, event, inputs, noinit, confirm, core, reboot,
                 roleVars, reset, finished, slot, owed>>
UpdateDoneTimeout ==
  Retry("ClientRebootDone", Plain("BootComplete", reboot.host),
        /\ Send(AbortMsg(cl.host, CONFIRMATION_ABORT))
        /\ FailUpdate
        /\ UNCHANGED <<pending, core>>)

------------------------------------------------------------------------------
(* Host::run. *)

\* bm_dfu_host_transition_to_error
HostError(err) == timers' = timers \ {"Update", "Ack"} /\ ToError(err)

StartMsg(dst) == Plain("ReceivedUpdateRequest", dst)

\* s_host_req_update_run, AckReceived: an ACK too short to read only stops
\* the timer.
HostReqAck ==
  /\ Running("HostReqUpdate", "AckReceived")
  /\ \/ /\ event.body.whole /\ event.body.ok
        /\ timers' = timers \ {"Ack"}
        /\ SetPending("HostUpdate", queue)
        /\ UNCHANGED core
     \/ /\ event.body.whole /\ ~event.body.ok
        /\ HostError(event.body.err)
     \/ /\ ~event.body.whole
        /\ timers' = timers \ {"Ack"}
        /\ UNCHANGED <<pending, queue, core>>
  /\ UNCHANGED <<StepVars, reboot, roleVars, outbox, reset, finished, slot, owed>>

\* s_host_req_update_run, AckTimeout
HostReqTimeout ==
  /\ Running("HostReqUpdate", "AckTimeout")
  /\ ho' = [ho EXCEPT !.retries = Retried(@)]
  /\ IF Retried(ho.retries) >= MAX_ACK_RETRIES
     THEN HostError(TIMEOUT) /\ UNCHANGED outbox
     ELSE /\ Send(StartMsg(ho.client)) /\ timers' = timers \cup {"Ack"}
          /\ UNCHANGED <<pending, queue, core>>
  /\ UNCHANGED <<StepVars, reboot, cl, reset, finished, slot, owed>>

\* Either host state, Abort: the update timer's bare event, or a body long
\* enough to read.
HostAbort ==
  /\ \E s \in {"HostReqUpdate", "HostUpdate"} : Running(s, "Abort")
  /\ \/ event.body = NoBody /\ HostError(ABORTED)
     \/ event.body # NoBody /\ event.body.whole /\ HostError(event.body.err)
  /\ UNCHANGED <<StepVars, reboot, roleVars, outbox, reset, finished, slot, owed>>

\* bm_dfu_host_send_chunk: how much, and where in the slot it would start.
ChunkLen == Least(Least(ho.left, ho.info.chunk), DFU_MAX_CHUNK_SIZE)
ChunkOffset == IMG_INFO_LEN + ho.info.size - ho.left
InSlot == ChunkOffset + ChunkLen <= SlotSize
ChunkMsg(data) == Out("ImageChunk", ho.client, FALSE, NONE, data)

\* ... from this node's own slot.
ServeInternal ==
  /\ Running("HostUpdate", "ChunkRequest") /\ core.internal
  /\ InSlot
  /\ Send(ChunkMsg(SubSeq(slot, ChunkOffset + 1, ChunkOffset + ChunkLen)))
  /\ ho' = [ho EXCEPT !.left = @ - ChunkLen]
  /\ UNCHANGED <<StepVars, pending, queue, timers, core, reboot, cl, reset,
                 finished, slot, owed>>

\* ... from the stream, padded to the whole length if it is short.
ServeStream ==
  /\ Running("HostUpdate", "ChunkRequest") /\ ~core.internal
  /\ ho.cap > 0 /\ ho.stream # <<>>
  /\ LET n == Least(Len(ho.stream), ChunkLen)
     IN /\ Send(ChunkMsg([i \in 1..ChunkLen |-> IF i <= n THEN ho.stream[i] ELSE Zero]))
        /\ ho' = [ho EXCEPT !.left = @ - n,
                            !.stream = SubSeq(@, n + 1, Len(@))]
  /\ UNCHANGED <<StepVars, pending, queue, timers, core, reboot, cl, reset,
                 finished, slot, owed>>

\* ... no chunk to be had.
ChunkUnread ==
  /\ Running("HostUpdate", "ChunkRequest")
  /\ \/ core.internal /\ (~InSlot \/ FALSE \in Outcome("read"))
     \/ ~core.internal /\ (ho.cap = 0 \/ ho.stream = <<>>)
  /\ HostError(FLASH_ACCESS)
  /\ UNCHANGED <<StepVars, reboot, roleVars, outbox, reset, finished, slot, owed>>

\* s_host_update_run, RebootRequest and BootComplete
HostUpdateReboot ==
  /\ Running("HostUpdate", "RebootRequest")
  /\ Send(Plain("Reboot", ho.client))
  /\ UNCHANGED <<StepVars, pending, queue, timers, core, reboot, roleVars, reset,
                 finished, slot, owed>>
HostUpdateBooted ==
  /\ Running("HostUpdate", "BootComplete")
  /\ Send(End(ho.client, TRUE, NONE))
  /\ UNCHANGED <<StepVars, pending, queue, timers, core, reboot, roleVars, reset,
                 finished, slot, owed>>

\* A finish callback, made if one was asked for.
Notify(asked, r) ==
  /\ finished' = IF asked THEN Put(finished, r, FINISHED_LEN) ELSE finished
  /\ owed' = IF asked /\ owed > 0 /\ Len(finished) < FINISHED_LEN THEN owed - 1 ELSE owed

\* s_host_update_run, UpdateEnd: one too short to read only stops the timer.
HostUpdateEnd ==
  /\ Running("HostUpdate", "UpdateEnd")
  /\ timers' = timers \ {"Update"}
  /\ IF event.body.whole
     THEN /\ Notify(ho.notify, Report(event.body.ok, event.body.err, ho.client))
          /\ SetPending("Idle", queue)
     ELSE UNCHANGED <<pending, queue, finished, owed>>
  /\ UNCHANGED <<StepVars, core, reboot, roleVars, outbox, reset, slot>>

\* Every other event in every state: nothing.
Handled(s, k) ==
  \/ s = "Init" /\ k = "InitSuccess"
  \/ s = "Idle" /\ k = "BeginHost"
  \/ s = "Idle" /\ k = "ReceivedUpdateRequest" /\ event.body.whole
  \/ s = "ClientReceiving" /\ k = "ImageChunk" /\ event.body.whole
  \/ s = "ClientReceiving" /\ k \in {"ChunkTimeout", "ReceivedUpdateRequest", "Heartbeat"}
  \/ s = "ClientRebootReq" /\ k \in {"Reboot", "ChunkTimeout"}
  \/ s = "ClientRebootDone" /\ k \in {"UpdateEnd", "ChunkTimeout"}
  \/ s = "HostReqUpdate" /\ k \in {"AckReceived", "AckTimeout"}
  \/ s = "HostUpdate" /\ k \in {"ChunkRequest", "RebootRequest", "BootComplete", "UpdateEnd"}
  \/ IsHost(s) /\ k = "Abort" /\ (event.body = NoBody \/ event.body.whole)
RunIgnored ==
  /\ pc = "run" /\ ~Handled(state, event.kind)
  /\ pc' = "take"
  /\ UNCHANGED <<StepVars, pending, queue, timers, core, reboot, roleVars, outbox,
                 reset, finished, slot, owed>>

------------------------------------------------------------------------------
(* lib_sm_run: take the pending change; exit, then enter. *)

\* No change, or one to the state already current.
KeepState ==
  /\ pc = "take" /\ pending \in {NoState, state}
  /\ pending' = NoState /\ pc' = "done"
  /\ UNCHANGED <<state, event, queue, timers, core, reboot, roleVars, nodeVars,
                 flashVars, inputs, owed>>

\* s_host_update_exit deletes the stream buffer; no other state's exit does
\* anything here.
ChangeState ==
  /\ pc = "take" /\ pending \notin {NoState, state}
  /\ state' = pending /\ pending' = NoState /\ pc' = "enter"
  /\ ho' = IF state = "HostUpdate" THEN [ho EXCEPT !.cap = 0, !.stream = <<>>] ELSE ho
  /\ UNCHANGED <<event, queue, timers, core, reboot, cl, nodeVars, flashVars,
                 inputs, owed>>

Entering(s) == pc = "enter" /\ state = s
Entered == pc' = "done"
EnterVars == <<state, event, inputs, noinit>>

\* s_idle_entry
EnterIdle ==
  /\ Entering("Idle") /\ Entered
  /\ reboot' = NoReboot
  /\ UNCHANGED <<EnterVars, pending, queue, timers, core, roleVars, outbox, reset,
                 finished, flashVars, owed>>

\* s_error_entry
EnterErrorUnreported ==  \* slip
  /\ Entering("Error") /\ Entered
  /\ IF IsFatal(core.error) THEN UNCHANGED <<pending, queue>> ELSE SetPending("Idle", queue)
  /\ UNCHANGED <<EnterVars, timers, core, reboot, roleVars, outbox, reset, finished,
                 flashVars, owed>>
EnterError ==
  /\ Entering("Error") /\ Entered
  /\ Notify(core.notify, Report(FALSE, core.error, core.client))
  /\ IF IsFatal(core.error) THEN UNCHANGED <<pending, queue>> ELSE SetPending("Idle", queue)
  /\ UNCHANGED <<EnterVars, timers, core, reboot, roleVars, outbox, reset, flashVars>>

\* s_client_receiving_entry
EnterReceiving ==
  /\ Entering("ClientReceiving") /\ Entered
  /\ cl' = Restarted(cl)
  /\ Send(ChunkReq(cl.host))
  /\ timers' = timers \cup {"Chunk"}
  /\ UNCHANGED <<EnterVars, pending, queue, core, reboot, ho, reset, finished,
                 flashVars, owed>>

\* s_client_validating_entry
AnyLength == TRUE  \* slip
LengthMatches == cl.size = cl.off
EnterValidating ==
  /\ Entering("ClientValidating") /\ Entered
  /\ LET fails(err) == /\ Send(End(cl.host, FALSE, err))
                       /\ timers' = timers \ {"Chunk"}
                       /\ ToError(err)
     IN \/ ~LengthMatches /\ fails(MISMATCH_LEN)
        \/ LengthMatches /\ cl.crc # cl.got /\ fails(BAD_CRC)
        \/ /\ LengthMatches /\ cl.crc = cl.got
           /\ SetPending("ClientRebootReq", queue)
           /\ UNCHANGED <<outbox, timers, core>>
  /\ UNCHANGED <<EnterVars, reboot, roleVars, reset, finished, flashVars, owed>>

\* s_client_reboot_req_entry
RebootReqUntimed == timers  \* slip
RebootReqTimers == timers \cup {"Chunk"}
EnterRebootReq ==
  /\ Entering("ClientRebootReq") /\ Entered
  /\ cl' = [cl EXCEPT !.retries = 0]
  /\ Send(Plain("RebootRequest", cl.host))
  /\ timers' = RebootReqTimers
  /\ UNCHANGED <<EnterVars, pending, queue, core, reboot, ho, reset, finished,
                 flashVars, owed>>

\* s_client_activating_entry: delay(10), then the reset.
EnterActivating ==
  /\ Entering("ClientActivating") /\ Entered
  /\ reset' = "Pending"
  /\ \E f \in {g \in Firings(timers) : InTurn(g)} :
       timers' = timers \ Fired(f) /\ queue' = PostFired(queue, f)
  /\ UNCHANGED <<EnterVars, pending, core, reboot, roleVars, outbox, finished,
                 flashVars, owed>>

\* s_client_update_done_entry: the image that runs is not the one offered.
RebootDoneEntry == Entering("ClientRebootDone")
                   /\ cl' = [cl EXCEPT !.host = reboot.host, !.retries = 0]
EnterWrongVersion ==
  /\ RebootDoneEntry /\ Entered
  /\ boot.running.sha # reboot.sha
  /\ Send(End(reboot.host, FALSE, WRONG_VER))
  /\ FailUpdate
  /\ UNCHANGED <<EnterVars, pending, core, ho, finished, flashVars, owed>>

\* ... it is: ask the host to confirm it.
EnterBootComplete ==
  /\ RebootDoneEntry /\ Entered
  /\ boot.running.sha = reboot.sha /\ confirm
  /\ Send(Plain("BootComplete", reboot.host))
  /\ timers' = timers \cup {"Chunk"}
  /\ UNCHANGED <<EnterVars, pending, queue, core, reboot, ho, reset, finished,
                 flashVars, owed>>

\* ... it is, and no host is to be asked: confirm, set dfu_confirm again, and
\* commit, which writes and then resets in place.  A commit that fails leaves
\* the machine in this state, and the stored dfu_confirm as it was or unreadable.
EnterUnasked ==
  /\ RebootDoneEntry
  /\ boot.running.sha = reboot.sha /\ ~confirm
  /\ reboot' = NoReboot
  /\ \E ok \in Outcome("confirm") : boot' = [boot EXCEPT !.trial = @ /\ ~ok]
  /\ \E ok \in Outcome("commit") :
       /\ confirm' \in IF ok THEN {TRUE} ELSE BOOLEAN
       /\ pc' = IF ok THEN "commit" ELSE "done"
  /\ UNCHANGED <<EnterVars, pending, queue, timers, core, ho, outbox, reset,
                 finished, slot, owed>>

\* s_host_req_update_entry.  The current event is the BeginHost that set the
\* change; deadlock checking shows the arms for any other event dead.
EnterHostReqUpdate ==
  /\ Entering("HostReqUpdate") /\ Entered
  /\ event.kind = "BeginHost"
  /\ LET info == event.body.info
         new == [ho EXCEPT !.info = info, !.left = info.size,
                           !.client = event.body.dst, !.retries = 0]
     IN ho' = IF core.internal THEN new
              ELSE [new EXCEPT !.stream = <<>>,
                      !.cap = IF info.chunk <= DFU_MAX_CHUNK_SIZE THEN info.chunk ELSE 0]
  /\ Send(StartMsg(event.body.dst))
  /\ timers' = timers \cup {"Ack"}
  /\ UNCHANGED <<EnterVars, pending, queue, core, reboot, cl, reset, finished,
                 flashVars, owed>>

\* s_host_update_entry
HostUpdateUntimed == timers  \* slip
HostUpdateTimers == timers \cup {"Update"}
EnterHostUpdate ==
  /\ Entering("HostUpdate") /\ Entered
  /\ timers' = HostUpdateTimers
  /\ UNCHANGED <<EnterVars, pending, queue, core, reboot, roleVars, outbox, reset,
                 finished, flashVars, owed>>

\* The end of run_event, and NodeDfu::persist.
EndStep ==
  /\ pc = "done"
  /\ event' = NOP /\ noinit' = reboot /\ pc' = "ready"
  /\ UNCHANGED <<state, pending, queue, timers, core, reboot, roleVars, outbox,
                 reset, finished, flashVars, inputs, owed>>

------------------------------------------------------------------------------
(* Resets, crashes and the bootloader. *)

\* What the slot holds after a swap: the image that ran before it.
Padded(bytes) == [i \in 1..SlotSize |-> IF i <= Len(bytes) THEN bytes[i] ELSE Erased]
\* The images a slot's contents would boot as.
Held(s) == {im \in Images : /\ im.bytes # <<>> /\ Len(im.bytes) <= SlotSize
                            /\ \A i \in 1..Len(im.bytes) : s[i] = im.bytes[i]}

\* MCUboot: swap in a valid image that is pending, on trial; swap the image
\* on trial back out when it was never confirmed; else run what ran.
Bootloader(pend) ==
  \/ /\ pend \/ boot.trial
     /\ \E im \in Held(slot) : boot' = [running |-> im, trial |-> pend]
     /\ slot' = Padded(boot.running.bytes)
  \/ /\ (~pend /\ ~boot.trial) \/ Held(slot) = {}
     /\ UNCHANGED <<boot, slot>>

\* A reset: the bootloader, then Dfu::new with what no-init RAM holds.
Reboot(pend, ram) ==
  /\ Bootloader(pend)
  /\ state' = "Init" /\ pending' = NoState /\ event' = NOP /\ pc' = "ready"
  /\ queue' = <<Bare("InitSuccess")>>
  /\ timers' = {} /\ core' = CoreNew /\ cl' = ClientNew /\ ho' = HostNew
  /\ outbox' = <<>> /\ reset' = NoReset /\ finished' = <<>>
  /\ reboot' = ram /\ noinit' = ram
  /\ owed' = 0

\* next_body, Reset::Pending and Reset::Fail: persist, then the slot's reset.
\* A set_pending that fails is not noticed.
TakeReset ==
  /\ pc = "ready" /\ outbox = <<>> /\ reset # NoReset
  /\ \E pend \in IF reset = "Pending" THEN Outcome("pend") ELSE {FALSE} :
       Reboot(pend, reboot)
  /\ UNCHANGED <<confirm, inputs>>

\* save_config's reset, inside the step: persist has not run.
CommitReset ==
  /\ pc = "commit"
  /\ Reboot(FALSE, noinit)
  /\ UNCHANGED <<confirm, inputs>>

\* A watchdog reset keeps no-init RAM; a power loss may lose it.
Crash ==
  /\ Faults \cap {"watchdog", "power"} # {}
  /\ inputs < MaxInputs /\ inputs' = inputs + 1
  /\ \E ram \in {noinit} \cup (IF "power" \in Faults THEN {NoReboot} ELSE {}) :
       Reboot(FALSE, ram)
  /\ UNCHANGED confirm

\* Nothing to do, and nobody to call: the node waits.
Wait ==
  /\ AtRest /\ timers = {} /\ finished = <<>>
  /\ UNCHANGED vars

------------------------------------------------------------------------------
RunState ==
  \/ InitRun \/ IdleBeginHost
  \/ RefuseSameVersion \/ RefuseChunkSize \/ RefuseFlash \/ RefuseTooLarge \/ AcceptOffer
  \/ ReceiveChunk \/ ReceiveLastChunk
  \/ ReceivingTimeout \/ ReceivingRestart \/ ReceivingHeartbeat
  \/ RebootReqReboot \/ RebootReqTimeout \/ UpdateDoneEnd \/ UpdateDoneTimeout
  \/ HostReqAck \/ HostReqTimeout \/ HostAbort
  \/ ServeInternal \/ ServeStream \/ ChunkUnread
  \/ HostUpdateReboot \/ HostUpdateBooted \/ HostUpdateEnd
  \/ RunIgnored

EnterState ==
  \/ EnterIdle \/ EnterError
  \/ EnterReceiving \/ EnterValidating \/ EnterRebootReq \/ EnterActivating
  \/ EnterWrongVersion \/ EnterBootComplete \/ EnterUnasked
  \/ EnterHostReqUpdate \/ EnterHostUpdate

\* What next_body does by itself, called until it returns nothing.
Step ==
  \/ Transmit \/ Pop
  \/ RunState \/ KeepState \/ ChangeState \/ EnterState \/ EndStep
  \/ TakeReset \/ CommitReset

Environment ==
  \/ \E m \in Messages : OnMessage(m)
  \/ \E r \in Requests : InitiateUpdate(r) \/ RefuseUpdate(r)
  \/ \E d \in Feeds : HostQueueData(d)
  \/ TakeUpdateFinished
  \/ Crash

Next == Step \/ (\E t \in Timer : TimerDue(t)) \/ Environment \/ Wait

Spec == Init /\ [][Next]_vars

\* Node::run_app calls next_body until it returns nothing, takes the reports
\* and waits no longer than the first deadline, so a step that can be taken
\* is, and a timer that runs comes due.
FairSpec == /\ Spec
            /\ WF_vars(Step)
            /\ WF_vars(TakeUpdateFinished)
            /\ \A t \in Timer : WF_vars(TimerDue(t))

------------------------------------------------------------------------------
(* Properties. *)

CoreType ==
  /\ state \in State /\ pending \in State \cup {NoState}
  /\ queue \in Seq(Events) /\ Len(queue) <= EVENT_QUEUE_LEN
  /\ event \in Events
  /\ pc \in {"ready", "run", "take", "enter", "done", "commit"}
  /\ timers \in SUBSET Timer
  /\ core \in [error : DfuErr, client : Nat, notify : BOOLEAN, internal : BOOLEAN]
  /\ reboot \in RebootInfo
ClientCtx == [size : Nat, num : 0..CountWrap - 1, crc : Seq(Byte), got : Seq(Byte),
              page : Seq(Byte), off : Nat, retries : 0..255,
              chunk : 0..CountWrap - 1, host : Nat]
HostCtx == [info : ImgInfo, client : Nat, left : Nat, retries : 0..255,
            notify : BOOLEAN, cap : Nat, stream : Seq(Byte)]
RoleType ==
  /\ cl \in ClientCtx
  /\ ho \in HostCtx /\ ho.left <= ho.info.size
NodeType ==
  /\ outbox \in Seq(Outs) /\ Len(outbox) <= OUTBOX_LEN
  /\ reset \in {NoReset, "Pending", "Fail"}
  /\ finished \in Seq(Reports) /\ Len(finished) <= FINISHED_LEN
  /\ noinit \in RebootInfo
FlashType ==
  /\ slot \in Slot
  /\ boot \in [running : Images, trial : BOOLEAN]
  /\ confirm \in BOOLEAN
\* Every variable has its type, and every bounded queue its bound.
TypeOK == CoreType /\ RoleType /\ NodeType /\ FlashType
          /\ inputs \in 0..MaxInputs /\ owed \in Nat

\* A state change that is still pending when a step ends has an event queued
\* that will run it, even where the queue was too full for its NOP
\* (Core::set_pending_state_change): the machine never sleeps on one.
PendingHasWakeup == pc = "ready" /\ pending # NoState => queue # <<>>

\* "The client sends at most two per step, the host one" (bm-stack dfu.rs):
\* no sequence of events fills the outbox past two bodies, so none of the
\* machine's sends is dropped.
OutboxFits == Len(outbox) <= 2

\* When the client asks to boot the update, the slot holds, byte for byte, the
\* image that was offered: whatever writes failed, chunks were repeated, lost
\* or cut short, and however often the transfer restarted over an unerased
\* slot (s_client_receiving_run, s_client_validating_entry).
ActivatesOfferedImage ==
  reset = "Pending" /\ cl.size = Len(cl.crc) =>
    /\ cl.size <= SlotSize
    /\ \A i \in 1..cl.size : slot[i] = cl.crc[i]

\* While an unconfirmed image runs, the slot holds an image the bootloader can
\* go back to: no offer is accepted, and so nothing erased, before the image
\* on trial is confirmed or given up (s_init_run, s_client_update_done_*).
TrialHasFallback == boot.trial => Held(slot) # {}

\* A machine that has run everything queued and waits for its peer has the
\* timer running that gives up on the peer.
WaitingIsTimed ==
  AtRest =>
    /\ state \notin {"Init", "ClientValidating", "ClientActivating"}
    /\ state \in {"ClientReceiving", "ClientRebootReq", "ClientRebootDone"} => "Chunk" \in timers
    /\ state = "HostReqUpdate" => "Ack" \in timers
    /\ state = "HostUpdate" => "Update" \in timers

\* Every accepted initiate_update that asked for it has had its finish
\* callback by the time the machine has settled in Idle or Error.
AcceptedIsReported == AtRest /\ state \in {"Idle", "Error"} => owed = 0

\* A fatal error is left only by a reset (s_error_entry).
FatalIsFinal ==
  [][state = "Error" /\ core.error >= FLASH_ACCESS => state' \in {"Error", "Init"}]_vars

\* No-init RAM is up to date at every reset the client asks for
\* (NoInitRam::store: "Called whenever it changes, and before every reset the
\* client asks for").
StoredBeforeReset ==
  pc = "commit" \/ (pc = "ready" /\ outbox = <<>> /\ reset # NoReset) => noinit = reboot

\* Whatever the peer and the bus do, every update ends: the machine is in
\* Idle or Error again and again.
EventuallySettles == []<>(state \in {"Idle", "Error"})

\* An image on trial is confirmed or swapped back out.
TrialResolved == boot.trial ~> ~boot.trial
=============================================================================
