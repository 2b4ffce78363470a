---------------------------- MODULE DfuProofs ----------------------------
(***************************************************************************)
(* Proofs about Dfu, for every value of its constants: first its types,    *)
(* then the safety of an update.                                           *)
(***************************************************************************)
EXTENDS Dfu, TLAPS

\* A push onto a bounded FIFO keeps its type and its bound, grows it by at
\* most one, and never leaves it empty.
LEMMA PutFacts ==
  ASSUME NEW S, NEW q \in Seq(S), NEW x \in S, NEW cap \in Nat, Len(q) <= cap
  PROVE  /\ Put(q, x, cap) \in Seq(S)
         /\ Len(Put(q, x, cap)) <= cap
         /\ Len(Put(q, x, cap)) <= Len(q) + 1
         /\ cap # 0 => Put(q, x, cap) # <<>>
<1>1. CASE Len(q) < cap
  <2>1. Append(q, x) \in Seq(S) /\ Len(Append(q, x)) = Len(q) + 1
    OBVIOUS
  <2> QED BY <1>1, <2>1 DEF Put
<1>2. CASE ~(Len(q) < cap)
  BY <1>2 DEF Put
<1> QED BY <1>1, <1>2

\* The events the machine posts for itself are events.
LEMMA BareFacts ==
  /\ NOP \in Events
  /\ Bare("InitSuccess") \in Events
  /\ \A t \in Timer : Bare(TimerEvent(t)) \in Events
BY DEF NOP, Bare, Event, Events, Timer, TimerEvent

\* Posting keeps the queue a bounded queue of events.
LEMMA PostFacts ==
  ASSUME NEW q \in Seq(Events), Len(q) <= EVENT_QUEUE_LEN, NEW e \in Events
  PROVE  /\ Post(q, e) \in Seq(Events)
         /\ Len(Post(q, e)) <= EVENT_QUEUE_LEN
         /\ Post(q, e) # <<>>
BY PutFacts, DfuAssumption DEF Post

\* So does posting a timer's event.
LEMMA PostDueFacts ==
  ASSUME NEW q \in Seq(Events), Len(q) <= EVENT_QUEUE_LEN, NEW t \in Timer
  PROVE  /\ PostDue(q, t) \in Seq(Events)
         /\ Len(PostDue(q, t)) <= EVENT_QUEUE_LEN
         /\ PostDue(q, t) # <<>>
BY BareFacts, PostFacts DEF PostDue

\* So does posting the events of the timers that come due in a delay.
LEMMA PostFiredFacts ==
  ASSUME NEW q \in Seq(Events), Len(q) <= EVENT_QUEUE_LEN,
         NEW T \in SUBSET Timer, NEW f \in Firings(T)
  PROVE  /\ PostFired(q, f) \in Seq(Events)
         /\ Len(PostFired(q, f)) <= EVENT_QUEUE_LEN
<1>1. CASE f = <<>>
  BY <1>1 DEF PostFired
<1>2. CASE \E t \in T : f = <<t>>
  BY <1>2, PostDueFacts DEF PostFired
<1>3. CASE \E t \in T, u \in T : f = <<t, u>>
  BY <1>3, PostDueFacts DEF PostFired
<1>4. CASE \E t \in T, u \in T, v \in T : f = <<t, u, v>>
  BY SMTT(30), <1>4, PostDueFacts DEF PostFired
<1> QED BY <1>1, <1>2, <1>3, <1>4 DEF Firings

\* Dfu::new starts the machine in a well-typed state.
LEMMA InitTyped == Init => TypeOK
BY DfuAssumption, BareFacts
   DEF Init, TypeOK, CoreType, RoleType, NodeType, FlashType, ClientCtx, HostCtx,
       State, Timer, CoreNew, ClientNew, HostNew, NoInfo, NoNode, NoReboot,
       RebootInfo, ImgInfo, DfuErr, NONE, NoReset

\* The calls into the node between two steps keep every type.
LEMMA CallsTyped ==
  ASSUME TypeOK, Environment \/ Transmit \/ Pop \/ (\E t \in Timer : TimerDue(t)), ~Crash
  PROVE  TypeOK'
<1> USE DfuAssumption DEF TypeOK, Input, coreVars, roleVars, nodeVars, flashVars
<1>1. ASSUME NEW m \in Messages, OnMessage(m) PROVE TypeOK'
  <2>1. Event(m.kind, m) \in Events
    BY DEF Event, Events, Body
  <2>2. CoreType'
    BY <1>1, <2>1 DEF OnMessage, CoreType
  <2> QED BY <1>1, <2>2 DEF OnMessage, RoleType, NodeType, FlashType
<1>2. ASSUME NEW r \in Requests, InitiateUpdate(r) PROVE TypeOK'
  <2>1. Event("BeginHost", r) \in Events /\ r.internal \in BOOLEAN /\ r.notify \in BOOLEAN
    BY DEF Event, Events, Request
  <2>2. /\ queue' \in Seq(Events) /\ Len(queue') <= EVENT_QUEUE_LEN
        /\ core' \in [error : DfuErr, client : Nat, notify : BOOLEAN, internal : BOOLEAN]
    <3>1. queue' = Append(queue, Event("BeginHost", r)) /\ Len(queue) < EVENT_QUEUE_LEN
      BY <1>2 DEF InitiateUpdate
    <3>2. core' = [core EXCEPT !.internal = r.internal]
      BY <1>2 DEF InitiateUpdate
    <3>3. core' \in [error : DfuErr, client : Nat, notify : BOOLEAN, internal : BOOLEAN]
      BY <2>1, <3>2 DEF CoreType
    <3> QED BY <2>1, <3>1, <3>3 DEF CoreType
  <2>3. CoreType'
    BY <1>2, <2>2 DEF InitiateUpdate, CoreType
  <2> QED BY SMTT(30), <1>2, <2>1, <2>3 DEF InitiateUpdate, RoleType, NodeType, FlashType
<1>3. ASSUME NEW r \in Requests, RefuseUpdate(r) PROVE TypeOK'
  <2>1. Report(FALSE, IN_PROGRESS, r.dst) \in Reports
    BY DEF Report, Reports, Request, DfuErr, IN_PROGRESS
  <2>2. NodeType'
    BY <1>3, <2>1, PutFacts DEF RefuseUpdate, UpdateFinished, NodeType
  <2> QED BY <1>3, <2>2 DEF RefuseUpdate, CoreType, RoleType, FlashType
<1>4. ASSUME NEW d \in Feeds, HostQueueData(d) PROVE TypeOK'
  <2>1. ho' = [ho EXCEPT !.stream = ho.stream \o d] /\ cl' = cl
    BY <1>4 DEF HostQueueData
  <2>2. ho.stream \o d \in Seq(Byte)
    BY DEF RoleType, HostCtx
  <2>3. RoleType'
    BY <2>1, <2>2 DEF RoleType, HostCtx
  <2> QED BY SMTT(30), <1>4, <2>3 DEF HostQueueData, CoreType, NodeType, FlashType
<1>5. CASE TakeUpdateFinished
  <2>1. NodeType'
    BY <1>5 DEF TakeUpdateFinished, NodeType
  <2> QED BY <1>5, <2>1 DEF TakeUpdateFinished, CoreType, RoleType, FlashType
<1>6. CASE Transmit
  <2>1. NodeType'
    BY <1>6 DEF Transmit, NodeType
  <2> QED BY <1>6, <2>1 DEF Transmit, CoreType, RoleType, FlashType
<1>7. CASE Pop
  <2>1. CoreType'
    BY <1>7 DEF Pop, CoreType
  <2> QED BY <1>7, <2>1 DEF Pop, RoleType, NodeType, FlashType
<1>8. ASSUME NEW t \in Timer, TimerDue(t) PROVE TypeOK'
  <2>1. CoreType'
    BY <1>8, PostDueFacts DEF TimerDue, CoreType
  <2> QED BY <1>8, <2>1 DEF TimerDue, RoleType, NodeType, FlashType
<1> QED BY <1>1, <1>2, <1>3, <1>4, <1>5, <1>6, <1>7, <1>8 DEF Environment

------------------------------------------------------------------------------
\* What the pieces the handlers share keep.

CoreRec == [error : DfuErr, client : Nat, notify : BOOLEAN, internal : BOOLEAN]
QueueOK(q) == q \in Seq(Events) /\ Len(q) <= EVENT_QUEUE_LEN
OutboxOK(o) == o \in Seq(Outs) /\ Len(o) <= OUTBOX_LEN

\* An event's body is what its kind says it is.
LEMMA BodyFacts ==
  ASSUME NEW e \in Events
  PROVE  /\ e.kind = "BeginHost" => e.body \in Request
         /\ e.kind \in MessageKind \ {"Abort"} => e.body \in Body
         /\ e.kind = "Abort" /\ e.body # NoBody => e.body \in Body
BY DEF Events, MessageKind

\* The fields of a received body have their types.
LEMMA BodyFields ==
  ASSUME NEW b \in Body
  PROVE  /\ b.src \in Nat /\ b.info \in ImgInfo /\ b.data \in Seq(Byte)
         /\ b.ok \in BOOLEAN /\ b.err \in DfuErr /\ b.whole \in BOOLEAN
BY DEF Body

\* Every named error is an error code.
LEMMA ErrFacts ==
  {NONE, SAME_VER, TOO_LARGE, MISMATCH_LEN, BAD_CRC, TIMEOUT, BM_FRAME, ABORTED, WRONG_VER,
   IN_PROGRESS, CHUNK_SIZE, CONFIRMATION_ABORT, FLASH_ACCESS} \subseteq DfuErr
BY DEF NONE, SAME_VER, TOO_LARGE, MISMATCH_LEN, BAD_CRC, TIMEOUT, BM_FRAME, ABORTED,
       WRONG_VER, IN_PROGRESS, CHUNK_SIZE, CONFIRMATION_ABORT, FLASH_ACCESS, DfuErr

\* The bodies the machine sends are bodies.
LEMMA OutFacts ==
  ASSUME NEW dst \in Nat, NEW err \in DfuErr, NEW ok \in BOOLEAN
  PROVE  /\ \A k \in MessageKind : Plain(k, dst) \in Outs
         /\ ChunkReq(dst) \in Outs /\ StartMsg(dst) \in Outs
         /\ Ack(dst, ok, err) \in Outs /\ End(dst, ok, err) \in Outs
         /\ AbortMsg(dst, err) \in Outs
         /\ \A data \in Seq(Byte) : Out("ImageChunk", dst, ok, err, data) \in Outs
<1>1. <<>> \in Seq(Byte)
  OBVIOUS
<1> QED BY <1>1, ErrFacts
        DEF Out, Outs, Plain, ChunkReq, StartMsg, Ack, End, AbortMsg, MessageKind

\* A send keeps the outbox, and makes it longer by at most one.
LEMMA SendFacts ==
  ASSUME OutboxOK(outbox), NEW m \in Outs, Send(m)
  PROVE  OutboxOK(outbox') /\ Len(outbox') <= Len(outbox) + 1
BY PutFacts, DfuAssumption DEF Send, OutboxOK

\* A change that is set is a state, and has an event queued behind it.
LEMMA SetPendingFacts ==
  ASSUME NEW q, QueueOK(q), NEW s \in State, SetPending(s, q)
  PROVE  /\ pending' = s /\ pending' \in State \cup {NoState}
         /\ QueueOK(queue') /\ queue' # <<>>
BY PostFacts, BareFacts DEF SetPending, QueueOK

\* Moving to Error leaves a typed core and a typed queue that is not empty.
LEMMA ToErrorFacts ==
  ASSUME QueueOK(queue), core \in CoreRec, NEW err \in DfuErr, ToError(err)
  PROVE  /\ core' \in CoreRec /\ pending' = "Error" /\ pending' \in State \cup {NoState}
         /\ QueueOK(queue') /\ queue' # <<>>
<1>1. SetPending("Error", queue) /\ core' = [core EXCEPT !.error = err]
  BY DEF ToError
<1>2. "Error" \in State
  BY DEF State
<1>3. core' \in CoreRec
  BY SMTT(30), <1>1 DEF CoreRec
<1> QED BY <1>1, <1>2, <1>3, SetPendingFacts

\* The updates the handlers make to the client's context.
LEMMA ClientFacts ==
  ASSUME NEW c \in ClientCtx
  PROVE  /\ \A h \in Nat : [c EXCEPT !.host = h] \in ClientCtx
         /\ \A n \in 0..255 : [c EXCEPT !.retries = n] \in ClientCtx
         /\ \A h \in Nat : [c EXCEPT !.host = h, !.retries = 0] \in ClientCtx
         /\ Restarted(c) \in ClientCtx
<1>1. <<>> \in Seq(Byte) /\ 0 \in 0..CountWrap - 1 /\ 0 \in 0..255 /\ 0 \in Nat
  BY DfuAssumption
<1>2. ASSUME NEW d \in ClientCtx
      PROVE  /\ \A h \in Nat : [d EXCEPT !.host = h] \in ClientCtx
             /\ \A n \in 0..255 : [d EXCEPT !.retries = n] \in ClientCtx
  <2>1. ASSUME NEW h \in Nat PROVE [d EXCEPT !.host = h] \in ClientCtx
    BY DEF ClientCtx
  <2>2. ASSUME NEW n \in 0..255 PROVE [d EXCEPT !.retries = n] \in ClientCtx
    BY DEF ClientCtx
  <2> QED BY <2>1, <2>2
<1>3. ASSUME NEW h \in Nat PROVE [c EXCEPT !.host = h, !.retries = 0] \in ClientCtx
  BY ZenonT(30), <1>1, <1>2
<1>4. Restarted(c) \in ClientCtx
  <2>1. ASSUME NEW d \in ClientCtx
        PROVE  [d EXCEPT !.chunk = 0] \in ClientCtx
    BY <1>1 DEF ClientCtx
  <2>2. ASSUME NEW d \in ClientCtx
        PROVE  [d EXCEPT !.page = <<>>] \in ClientCtx
    BY <1>1 DEF ClientCtx
  <2>3. ASSUME NEW d \in ClientCtx
        PROVE  [d EXCEPT !.off = 0] \in ClientCtx
    BY <1>1 DEF ClientCtx
  <2>4. ASSUME NEW d \in ClientCtx
        PROVE  [d EXCEPT !.got = <<>>] \in ClientCtx
    BY <1>1 DEF ClientCtx
  <2> DEFINE c1 == [c EXCEPT !.chunk = 0]
             c2 == [c1 EXCEPT !.retries = 0]
             c3 == [c2 EXCEPT !.page = <<>>]
             c4 == [c3 EXCEPT !.off = 0]
  <2>5. c1 \in ClientCtx BY SMTT(30), <2>1
  <2>6. c2 \in ClientCtx BY ZenonT(30), <1>1, <1>2, <2>5
  <2>7. c3 \in ClientCtx BY <2>2, <2>6
  <2>8. c4 \in ClientCtx BY <2>3, <2>7
  <2> QED BY <2>4, <2>8 DEF Restarted
<1> QED BY ZenonT(30), <1>2, <1>3, <1>4

\* A retry count stays in its eight bits.
LEMMA RetriedFacts ==
  ASSUME NEW n \in 0..255
  PROVE  Retried(n) \in 0..255
BY DEF Retried

\* A chunk count stays in its sixteen bits, for a chunk_size of zero too.
LEMMA NumChunksFacts ==
  ASSUME NEW info \in ImgInfo
  PROVE  NumChunks(info) \in 0..CountWrap - 1
<1> DEFINE whole == IF info.chunk = 0 THEN 0 ELSE info.size \div info.chunk
<1> DEFINE rem == IF info.chunk = 0 THEN info.size ELSE info.size % info.chunk
<1> DEFINE n == IF rem # 0 THEN whole + 1 ELSE whole
<1>1. info.size \in Nat /\ info.chunk \in Nat
  BY DEF ImgInfo
<1>2. whole \in Nat
  BY <1>1
<1>3. n \in Nat
  BY <1>2
<1> HIDE DEF n
<1>4. n % CountWrap \in 0..CountWrap - 1
  BY SMTT(30), <1>3, DfuAssumption
<1> QED BY <1>4 DEF NumChunks, n

\* Taking an offer keeps the client context typed (process_update_request).
LEMMA TakenOfferFacts ==
  ASSUME cl \in ClientCtx, event.body \in Body
  PROVE  TakenOffer \in ClientCtx
BY BodyFields, NumChunksFacts DEF TakenOffer, Offered, ClientCtx, ImgInfo

\* A write leaves a slot a slot.
LEMMA WriteFacts ==
  ASSUME NEW s \in Slot, NEW off \in Nat, NEW data \in Seq(Byte),
         NEW w \in Writes(s, off, data)
  PROVE  w.slot \in Slot /\ w.ok \in BOOLEAN
<1>1. ASSUME NEW d \in Seq(Byte) PROVE Written(s, off, d) \in Slot
  <2>1. ASSUME NEW i \in 1..SlotSize
        PROVE  (IF i > off /\ i <= off + Len(d) THEN d[i - off] ELSE s[i]) \in Byte
    BY DfuAssumption DEF Slot
  <2> QED BY <2>1 DEF Written, Slot
<1>2. \A k \in 0..Len(data) : SubSeq(data, 1, k) \in Seq(Byte)
  OBVIOUS
<1>3. CASE off + Len(data) > SlotSize
  <2>1. w = [ok |-> FALSE, slot |-> s]
    BY <1>3 DEF Writes
  <2> QED BY <2>1
<1>4. CASE ~(off + Len(data) > SlotSize) /\ w = [ok |-> TRUE, slot |-> Written(s, off, data)]
  <2>1. w.slot = Written(s, off, data) /\ w.ok = TRUE
    BY <1>4
  <2> QED BY <1>1, <2>1
<1>5. CASE /\ ~(off + Len(data) > SlotSize)
           /\ w # [ok |-> TRUE, slot |-> Written(s, off, data)]
  <2>1. PICK k \in 0..Len(data) :
          w = [ok |-> FALSE, slot |-> Written(s, off, SubSeq(data, 1, k))]
    BY <1>5 DEF Writes
  <2>2. w.slot = Written(s, off, SubSeq(data, 1, k)) /\ w.ok = FALSE
    BY <2>1
  <2> QED BY <1>1, <1>2, <2>2
<1> QED BY <1>3, <1>4, <1>5

\* Gathering a chunk into the page keeps the types, and so does ending.
LEMMA PayloadFacts ==
  ASSUME cl \in ClientCtx, slot \in Slot, NEW data \in Seq(Byte), NEW p \in Payload(data)
  PROVE  p.ok \in BOOLEAN /\ p.page \in Seq(Byte) /\ p.off \in Nat /\ p.slot \in Slot
<1> DEFINE buf == cl.page \o data
<1>1. cl.page \in Seq(Byte) /\ cl.off \in Nat
  BY DEF ClientCtx
<1>2. buf \in Seq(Byte) /\ <<>> \in Seq(Byte)
  BY <1>1
<1>3. CASE data = <<>>
  <2>1. p = [ok |-> FALSE, page |-> cl.page, off |-> cl.off, slot |-> slot]
    BY <1>3 DEF Payload
  <2> QED BY <1>1, <2>1
<1>4. CASE data # <<>> /\ Len(buf) < IMG_PAGE_LEN
  <2>1. p = [ok |-> TRUE, page |-> buf, off |-> cl.off, slot |-> slot]
    BY <1>4 DEF Payload
  <2> HIDE DEF buf
  <2> QED BY <1>1, <1>2, <2>1
<1>5. CASE data # <<>> /\ ~(Len(buf) < IMG_PAGE_LEN)
  <2> DEFINE full == SubSeq(buf, 1, IMG_PAGE_LEN)
             rest == SubSeq(buf, IMG_PAGE_LEN + 1, Len(buf))
  <2> HIDE DEF buf
  <2>1. full \in Seq(Byte) /\ rest \in Seq(Byte)
    BY <1>2, <1>5, DfuAssumption
  <2> HIDE DEF full, rest
  <2>2. PICK w \in Writes(slot, cl.off, full) :
          p = IF w.ok THEN [ok |-> TRUE, page |-> rest, off |-> cl.off + IMG_PAGE_LEN,
                            slot |-> w.slot]
              ELSE [ok |-> FALSE, page |-> <<>>, off |-> cl.off, slot |-> w.slot]
    BY <1>5 DEF Payload, full, rest, buf
  <2>3. w.slot \in Slot
    BY <1>1, <2>1, WriteFacts
  <2> QED BY <1>1, <1>2, <2>1, <2>2, <2>3, DfuAssumption
<1> QED BY <1>3, <1>4, <1>5

\* Writing out the last page keeps the slot and the offset typed (process_end).
LEMMA EndingFacts ==
  ASSUME NEW p, p.page \in Seq(Byte), p.off \in Nat, p.slot \in Slot, NEW e \in Ending(p)
  PROVE  e.ok \in BOOLEAN /\ e.off \in Nat /\ e.slot \in Slot
<1>1. CASE p.page = <<>>
  <2>1. e = [ok |-> TRUE, off |-> p.off, slot |-> p.slot]
    BY <1>1 DEF Ending
  <2> QED BY <2>1
<1>2. CASE p.page # <<>>
  <2>1. PICK w \in Writes(p.slot, p.off, p.page) :
          e = [ok |-> w.ok, off |-> IF w.ok THEN p.off + Len(p.page) ELSE p.off,
               slot |-> w.slot]
    BY <1>2 DEF Ending
  <2>2. w.ok \in BOOLEAN /\ w.slot \in Slot
    BY SMTT(30), WriteFacts
  <2> QED BY <2>1, <2>2
<1> QED BY <1>1, <1>2

\* Counting a chunk in keeps the client context typed (receiving_run).
LEMMA WithChunkFacts ==
  ASSUME cl \in ClientCtx, event.body \in Body, NEW p, p.page \in Seq(Byte), NEW off \in Nat
  PROVE  WithChunk(p, off) \in ClientCtx
<1>1. cl.got \o event.body.data \in Seq(Byte)
  BY BodyFields DEF ClientCtx
<1>2. NextChunk \in 0..CountWrap - 1
  BY SMTT(30), DfuAssumption DEF NextChunk, ClientCtx
<1>3. ASSUME NEW d \in ClientCtx, NEW b \in Seq(Byte)
      PROVE  [d EXCEPT !.got = b] \in ClientCtx /\ [d EXCEPT !.page = b] \in ClientCtx
  BY DEF ClientCtx
<1>4. ASSUME NEW d \in ClientCtx, NEW n \in Nat PROVE [d EXCEPT !.off = n] \in ClientCtx
  BY DEF ClientCtx
<1>5. ASSUME NEW d \in ClientCtx, NEW n \in 0..CountWrap - 1
      PROVE  [d EXCEPT !.chunk = n] \in ClientCtx
  BY DEF ClientCtx
<1> DEFINE c1 == [cl EXCEPT !.got = cl.got \o event.body.data]
           c2 == [c1 EXCEPT !.page = p.page]
           c3 == [c2 EXCEPT !.off = off]
           c4 == [c3 EXCEPT !.chunk = NextChunk]
<1>6. c1 \in ClientCtx
  BY <1>1, <1>3
<1>7. c2 \in ClientCtx
  BY <1>3, <1>6
<1>8. c3 \in ClientCtx
  BY <1>4, <1>7
<1>9. c4 \in ClientCtx
  BY <1>2, <1>5, <1>8
<1>10. WithChunk(p, off) = [c4 EXCEPT !.retries = 0]
  BY DEF WithChunk
<1> HIDE DEF c4
<1>11. 0 \in 0..255
  OBVIOUS
<1> QED BY ZenonT(30), <1>9, <1>10, <1>11, ClientFacts

------------------------------------------------------------------------------
\* The handlers of Dfu::run_state.

\* The parts of TypeOK that a handler of run_state can change, primed.
RunKeeps ==
  /\ pending' \in State \cup {NoState} /\ QueueOK(queue')
  /\ timers' \in SUBSET Timer /\ core' \in CoreRec /\ reboot' \in RebootInfo
  /\ RoleType'
  /\ OutboxOK(outbox') /\ reset' \in {NoReset, "Pending", "Fail"}
  /\ finished' \in Seq(Reports) /\ Len(finished') <= FINISHED_LEN
  /\ slot' \in Slot /\ owed' \in Nat

\* A handler that keeps what it may change typed keeps TypeOK.
LEMMA RunKeepsTyped ==
  ASSUME TypeOK, RunKeeps, pc' = "take", UNCHANGED StepVars
  PROVE  TypeOK'
<1>1. CoreType'
  BY DEF TypeOK, CoreType, RunKeeps, StepVars, QueueOK, CoreRec
<1>2. NodeType'
  BY DEF TypeOK, NodeType, RunKeeps, StepVars, OutboxOK
<1>3. FlashType'
  BY DEF TypeOK, FlashType, RunKeeps, StepVars
<1> QED BY <1>1, <1>2, <1>3 DEF TypeOK, RunKeeps, StepVars

\* TypeOK, in the form the steps below use it.
LEMMA Unpack ==
  ASSUME TypeOK
  PROVE  /\ state \in State /\ pending \in State \cup {NoState}
         /\ QueueOK(queue) /\ event \in Events
         /\ timers \in SUBSET Timer /\ core \in CoreRec /\ reboot \in RebootInfo
         /\ cl \in ClientCtx /\ ho \in HostCtx /\ ho.left <= ho.info.size /\ RoleType
         /\ OutboxOK(outbox) /\ reset \in {NoReset, "Pending", "Fail"}
         /\ finished \in Seq(Reports) /\ Len(finished) <= FINISHED_LEN
         /\ noinit \in RebootInfo /\ slot \in Slot /\ owed \in Nat
         /\ boot \in [running : Images, trial : BOOLEAN] /\ confirm \in BOOLEAN
BY DEF TypeOK, CoreType, RoleType, NodeType, FlashType, QueueOK, OutboxOK, CoreRec

\* The three timers are timers.
LEMMA TimerNames == {"Chunk", "Ack", "Update"} \subseteq Timer
BY DEF Timer

\* s_init_run and s_idle_run.
LEMMA IdleTyped ==
  ASSUME TypeOK, InitRun \/ IdleBeginHost \/ RefuseSameVersion \/ RefuseChunkSize
                 \/ RefuseFlash \/ RefuseTooLarge \/ AcceptOffer
  PROVE  TypeOK'
<1> USE Unpack
<1>s. {"Idle", "ClientRebootDone", "HostReqUpdate", "ClientReceiving", "Error"} \subseteq State
  BY DEF State
<1>1. CASE InitRun
  <2>1. AfterInit \in State
    BY <1>s DEF AfterInit
  <2>2. RunKeeps
    BY <1>1, <2>1, SetPendingFacts DEF InitRun, RunKeeps, roleVars, RoleType
  <2> QED BY <1>1, <2>2, RunKeepsTyped DEF InitRun, Running
<1>2. CASE IdleBeginHost
  <2>1. event.body.notify \in BOOLEAN /\ event.body.dst \in Nat
    BY <1>2, BodyFacts DEF IdleBeginHost, Running, Request
  <2>2. core' \in CoreRec
    BY <1>2, <2>1 DEF IdleBeginHost, CoreRec
  <2>3. ho' \in HostCtx /\ ho'.left = ho.left /\ ho'.info = ho.info
    BY <1>2, <2>1 DEF IdleBeginHost, HostCtx
  <2>4. RoleType'
    BY <1>2, <2>3 DEF IdleBeginHost, RoleType
  <2>5. RunKeeps
    BY <1>2, <1>s, <2>2, <2>4, SetPendingFacts DEF IdleBeginHost, RunKeeps
  <2> QED BY <1>2, <2>5, RunKeepsTyped DEF IdleBeginHost, Running
<1>3. SUFFICES ASSUME OfferRun PROVE TypeOK'
  BY <1>1, <1>2 DEF RefuseSameVersion, RefuseChunkSize, RefuseFlash, RefuseTooLarge, AcceptOffer
<1>4. event.body \in Body /\ event.body.src \in Nat
  BY SMTT(30), <1>3, BodyFacts, BodyFields DEF OfferRun, Running, MessageKind
<1>5. TakenOffer \in ClientCtx /\ [cl EXCEPT !.host = event.body.src] \in ClientCtx
  BY ZenonT(30), <1>4, TakenOfferFacts, ClientFacts
<1>6. ASSUME cl' \in ClientCtx, ho' = ho PROVE RoleType'
  BY <1>6 DEF RoleType
<1>7. ASSUME NEW ok \in BOOLEAN, NEW err \in DfuErr
      PROVE  Ack(event.body.src, ok, err) \in Outs /\ AbortMsg(event.body.src, err) \in Outs
  BY <1>4, OutFacts
<1>8. CASE RefuseSameVersion
  <2>1. OutboxOK(outbox')
    BY <1>8, <1>7, ErrFacts, SendFacts DEF RefuseSameVersion
  <2>2. RoleType'
    BY <1>8, <1>5, <1>6 DEF RefuseSameVersion
  <2>3. RunKeeps
    BY <1>8, <2>1, <2>2 DEF RefuseSameVersion, RunKeeps
  <2> QED BY <1>8, <1>3, <2>3, RunKeepsTyped DEF RefuseSameVersion, OfferRun, Running
<1>9. CASE RefuseChunkSize
  <2>1. OutboxOK(outbox')
    BY <1>9, <1>7, ErrFacts, SendFacts DEF RefuseChunkSize
  <2>2. RoleType'
    BY <1>9, <1>5, <1>6 DEF RefuseChunkSize
  <2>3. core' \in CoreRec /\ pending' \in State \cup {NoState} /\ QueueOK(queue')
    BY <1>9, ErrFacts, ToErrorFacts DEF RefuseChunkSize
  <2>4. RunKeeps
    BY <1>9, <2>1, <2>2, <2>3 DEF RefuseChunkSize, RunKeeps
  <2> QED BY <1>9, <1>3, <2>4, RunKeepsTyped DEF RefuseChunkSize, OfferRun, Running
<1>10. CASE RefuseFlash
  <2>1. OutboxOK(outbox')
    BY <1>10, <1>7, ErrFacts, SendFacts DEF RefuseFlash
  <2>2. RoleType'
    BY <1>10, <1>5, <1>6 DEF RefuseFlash
  <2>3. core' \in CoreRec /\ pending' \in State \cup {NoState} /\ QueueOK(queue')
    BY <1>10, ErrFacts, ToErrorFacts DEF RefuseFlash
  <2>4. slot' \in Slot
    <3>1. \A k \in 0..SlotSize : ErasedTo(k) \in Slot
      BY DfuAssumption DEF ErasedTo, Slot
    <3> QED BY <1>10, <3>1 DEF RefuseFlash
  <2>5. RunKeeps
    BY <1>10, <2>1, <2>2, <2>3, <2>4 DEF RefuseFlash, RunKeeps
  <2> QED BY <1>10, <1>3, <2>5, RunKeepsTyped DEF RefuseFlash, OfferRun, Running
<1>11. CASE RefuseTooLarge
  <2>1. OutboxOK(outbox')
    BY <1>11, <1>7, ErrFacts, SendFacts DEF RefuseTooLarge
  <2>2. RoleType'
    BY <1>11, <1>5, <1>6 DEF RefuseTooLarge
  <2>3. RunKeeps
    BY <1>11, <2>1, <2>2 DEF RefuseTooLarge, RunKeeps
  <2> QED BY <1>11, <1>3, <2>3, RunKeepsTyped DEF RefuseTooLarge, OfferRun, Running
<1>12. CASE AcceptOffer
  <2>1. OutboxOK(outbox')
    BY <1>12, <1>7, ErrFacts, SendFacts DEF AcceptOffer
  <2>2. RoleType'
    BY <1>12, <1>5, <1>6 DEF AcceptOffer
  <2>3. slot' \in Slot
    BY <1>12, DfuAssumption DEF AcceptOffer, EmptySlot, Slot
  <2>4. reboot' \in RebootInfo
    BY <1>12, <1>4, BodyFields DEF AcceptOffer, RebootInfo, Offered, ImgInfo
  <2>5. PICK f \in Firings(timers) : /\ timers' = timers \ Fired(f)
                                     /\ SetPending("ClientReceiving", PostFired(queue, f))
    BY <1>12 DEF AcceptOffer
  <2>6. QueueOK(PostFired(queue, f))
    BY PostFiredFacts DEF QueueOK
  <2>7. pending' \in State \cup {NoState} /\ QueueOK(queue')
    BY <1>s, <2>5, <2>6, SetPendingFacts
  <2>8. RunKeeps
    BY <1>12, <2>1, <2>2, <2>3, <2>4, <2>5, <2>7 DEF AcceptOffer, RunKeeps
  <2> QED BY <1>12, <1>3, <2>8, RunKeepsTyped DEF AcceptOffer, OfferRun, Running
<1> QED BY <1>1, <1>2, <1>8, <1>9, <1>10, <1>11, <1>12

\* Where a delay leaves the timers and the queue.
LEMMA DelayFacts ==
  ASSUME QueueOK(queue), timers \in SUBSET Timer, NEW T \in SUBSET timers,
         NEW f \in Firings(T)
  PROVE  QueueOK(PostFired(queue, f)) /\ timers \ Fired(f) \in SUBSET Timer
BY PostFiredFacts DEF QueueOK

\* fail_update_and_reboot keeps what it changes typed.
LEMMA FailUpdateFacts ==
  ASSUME TypeOK, FailUpdate
  PROVE  /\ reboot' \in RebootInfo /\ reset' \in {NoReset, "Pending", "Fail"}
         /\ timers' \in SUBSET Timer /\ QueueOK(queue')
<1>1. PICK f \in Firings(timers) :
        timers' = timers \ Fired(f) /\ queue' = PostFired(queue, f)
  BY DEF FailUpdate
<1>2. reboot' \in RebootInfo
  BY DEF FailUpdate, NoReboot, RebootInfo, NoNode
<1> QED BY <1>1, <1>2, Unpack, DelayFacts DEF FailUpdate

\* What TimedOut leaves.
LEMMA TimedOutFacts ==
  ASSUME TypeOK, TimedOut
  PROVE  /\ OutboxOK(outbox') /\ timers' \in SUBSET Timer /\ core' \in CoreRec
         /\ pending' \in State \cup {NoState} /\ QueueOK(queue')
         /\ reboot' = reboot /\ reset' = reset
<1> USE Unpack
<1>1. cl.host \in Nat
  BY DEF ClientCtx
<1>2. OutboxOK(outbox')
  BY <1>1, OutFacts, ErrFacts, SendFacts DEF TimedOut
<1>3. core' \in CoreRec /\ pending' \in State \cup {NoState} /\ QueueOK(queue')
  BY ErrFacts, ToErrorFacts DEF TimedOut
<1> QED BY <1>2, <1>3 DEF TimedOut

\* Client::run, the rest.
LEMMA ClientTyped ==
  ASSUME TypeOK, ReceiveChunk \/ ReceiveLastChunk \/ ReceivingTimeout \/ ReceivingRestart
                 \/ ReceivingHeartbeat \/ RebootReqReboot \/ RebootReqTimeout
                 \/ UpdateDoneEnd \/ UpdateDoneTimeout
  PROVE  TypeOK'
<1> USE Unpack, TimerNames
<1>s. {"Idle", "Error", "ClientValidating", "ClientActivating"} \subseteq State
  BY DEF State
<1>h. cl.host \in Nat /\ reboot.host \in Nat /\ cl.retries \in 0..255
  BY DEF ClientCtx, RebootInfo
<1>o. /\ ChunkReq(cl.host) \in Outs /\ Ack(cl.host, TRUE, NONE) \in Outs
      /\ Plain("RebootRequest", cl.host) \in Outs /\ Plain("BootComplete", reboot.host) \in Outs
      /\ End(reboot.host, TRUE, NONE) \in Outs
      /\ AbortMsg(cl.host, CONFIRMATION_ABORT) \in Outs
  BY ZenonT(30), <1>h, OutFacts, ErrFacts DEF MessageKind
<1>r. ASSUME cl' \in ClientCtx, ho' = ho PROVE RoleType'
  BY <1>r DEF RoleType
<1>c. [cl EXCEPT !.retries = Retried(cl.retries)] \in ClientCtx /\ Restarted(cl) \in ClientCtx
  BY ZenonT(30), <1>h, RetriedFacts, ClientFacts
<1>1. CASE ReceiveChunk
  <2>1. event.body \in Body /\ event.body.data \in Seq(Byte)
    BY <1>1, BodyFacts, BodyFields DEF ReceiveChunk, ChunkRun, Running, MessageKind
  <2>2. PICK p \in Payload(event.body.data) :
          /\ slot' = p.slot /\ cl' = WithChunk(p, p.off)
          /\ \/ p.ok /\ UNCHANGED <<pending, queue, core>>
             \/ ~p.ok /\ ToError(BM_FRAME)
    BY <1>1 DEF ReceiveChunk
  <2>3. slot' \in Slot /\ cl' \in ClientCtx
    BY <2>1, <2>2, PayloadFacts, WithChunkFacts
  <2>4. core' \in CoreRec /\ pending' \in State \cup {NoState} /\ QueueOK(queue')
    BY <2>2, ErrFacts, ToErrorFacts
  <2>5. OutboxOK(outbox')
    BY <1>1, <1>o, SendFacts DEF ReceiveChunk
  <2>6. RoleType'
    BY <1>1, <1>r, <2>3 DEF ReceiveChunk
  <2>7. RunKeeps
    BY <1>1, <2>3, <2>4, <2>5, <2>6 DEF ReceiveChunk, RunKeeps
  <2> QED BY <1>1, <2>7, RunKeepsTyped DEF ReceiveChunk, ChunkRun, Running
<1>2. CASE ReceiveLastChunk
  <2>1. event.body \in Body /\ event.body.data \in Seq(Byte)
    BY <1>2, BodyFacts, BodyFields DEF ReceiveLastChunk, ChunkRun, Running, MessageKind
  <2>2. PICK p \in Payload(event.body.data) : \E e \in Ending(p) :
          /\ slot' = e.slot /\ cl' = WithChunk(p, e.off)
          /\ core' = IF p.ok /\ e.ok THEN core ELSE [core EXCEPT !.error = BM_FRAME]
          /\ SetPending(IF e.ok THEN "ClientValidating" ELSE "Error",
                        IF p.ok THEN queue ELSE Post(queue, NOP))
    BY <1>2 DEF ReceiveLastChunk
  <2>3. PICK e \in Ending(p) :
          /\ slot' = e.slot /\ cl' = WithChunk(p, e.off)
          /\ core' = IF p.ok /\ e.ok THEN core ELSE [core EXCEPT !.error = BM_FRAME]
          /\ SetPending(IF e.ok THEN "ClientValidating" ELSE "Error",
                        IF p.ok THEN queue ELSE Post(queue, NOP))
    BY <2>2
  <2>4. p.page \in Seq(Byte) /\ p.off \in Nat /\ p.slot \in Slot
    BY <2>1, PayloadFacts
  <2>5. slot' \in Slot /\ cl' \in ClientCtx
    BY <2>1, <2>3, <2>4, EndingFacts, WithChunkFacts
  <2>6. core' \in CoreRec
    BY <2>3, ErrFacts DEF CoreRec
  <2>7. QueueOK(IF p.ok THEN queue ELSE Post(queue, NOP))
    BY PostFacts, BareFacts DEF QueueOK
  <2>8. pending' \in State \cup {NoState} /\ QueueOK(queue')
    BY <1>s, <2>3, <2>7, SetPendingFacts
  <2>9. RoleType'
    BY <1>2, <1>r, <2>5 DEF ReceiveLastChunk
  <2>10. RunKeeps
    BY <1>2, <2>5, <2>6, <2>8, <2>9 DEF ReceiveLastChunk, RunKeeps
  <2> QED BY <1>2, <2>10, RunKeepsTyped DEF ReceiveLastChunk, ChunkRun, Running
<1>3. ASSUME NEW s, NEW m \in Outs, Retry(s, m, TimedOut) PROVE TypeOK'
  <2>1. RoleType'
    BY <1>3, <1>c, <1>r DEF Retry
  <2>2. \/ TimedOut
        \/ /\ Send(m) /\ timers' = timers \cup {"Chunk"}
           /\ UNCHANGED <<pending, queue, core, reboot, reset>>
    BY <1>3 DEF Retry
  <2>3. /\ OutboxOK(outbox') /\ timers' \in SUBSET Timer /\ core' \in CoreRec
        /\ pending' \in State \cup {NoState} /\ QueueOK(queue')
        /\ reboot' = reboot /\ reset' = reset
    BY <2>2, TimedOutFacts, SendFacts
  <2>4. RunKeeps
    BY <1>3, <2>1, <2>3 DEF Retry, RunKeeps
  <2> QED BY <1>3, <2>4, RunKeepsTyped DEF Retry, Running
<1>4. CASE ReceivingRestart
  <2>1. OutboxOK(outbox')
    <3>1. Put(outbox, Ack(cl.host, TRUE, NONE), OUTBOX_LEN) \in Seq(Outs)
          /\ Len(Put(outbox, Ack(cl.host, TRUE, NONE), OUTBOX_LEN)) <= OUTBOX_LEN
      BY <1>o, PutFacts, DfuAssumption DEF OutboxOK
    <3> QED BY <1>4, <1>o, <3>1, PutFacts, DfuAssumption DEF ReceivingRestart, Send2, OutboxOK
  <2>2. RoleType'
    BY <1>4, <1>c, <1>r DEF ReceivingRestart
  <2>3. PICK f \in Firings(timers \ {"Chunk"}) :
          timers' = (timers \ Fired(f)) \cup {"Chunk"} /\ queue' = PostFired(queue, f)
    BY <1>4 DEF ReceivingRestart
  <2>4. RunKeeps
    BY <1>4, <2>1, <2>2, <2>3, DelayFacts DEF ReceivingRestart, RunKeeps
  <2> QED BY <1>4, <2>4, RunKeepsTyped DEF ReceivingRestart, Running
<1>5. CASE ReceivingHeartbeat
  <2>1. RunKeeps
    BY <1>5 DEF ReceivingHeartbeat, RunKeeps, roleVars, RoleType
  <2> QED BY <1>5, <2>1, RunKeepsTyped DEF ReceivingHeartbeat, Running
<1>6. CASE RebootReqReboot
  <2>1. RunKeeps
    BY <1>6, <1>s, SetPendingFacts DEF RebootReqReboot, RunKeeps, roleVars, RoleType
  <2> QED BY <1>6, <2>1, RunKeepsTyped DEF RebootReqReboot, Running
<1>7. CASE UpdateDoneEnd
  <2>1. pending' \in State \cup {NoState} /\ QueueOK(queue')
    BY <1>7, <1>s, SetPendingFacts DEF UpdateDoneEnd
  <2>2. OutboxOK(outbox')
    BY <1>7, <1>o, SendFacts DEF UpdateDoneEnd
  <2>3. boot' \in [running : Images, trial : BOOLEAN]
    BY <1>7 DEF UpdateDoneEnd, Outcome
  <2>4. CoreType'
    BY <1>7, <2>1 DEF UpdateDoneEnd, Running, CoreType, QueueOK, CoreRec
  <2>5. NodeType' /\ FlashType' /\ RoleType'
    BY <1>7, <2>2, <2>3 DEF UpdateDoneEnd, NodeType, FlashType, RoleType, OutboxOK, roleVars
  <2> QED BY <1>7, <2>4, <2>5 DEF UpdateDoneEnd, TypeOK
<1>8. CASE UpdateDoneTimeout
  <2>1. RoleType'
    BY <1>8, <1>c, <1>r DEF UpdateDoneTimeout, Retry
  <2>2. \/ /\ Send(AbortMsg(cl.host, CONFIRMATION_ABORT)) /\ FailUpdate
           /\ UNCHANGED <<pending, core>>
        \/ /\ Send(Plain("BootComplete", reboot.host)) /\ timers' = timers \cup {"Chunk"}
           /\ UNCHANGED <<pending, queue, core, reboot, reset>>
    BY <1>8 DEF UpdateDoneTimeout, Retry
  <2>3. OutboxOK(outbox')
    BY <1>o, <2>2, SendFacts
  <2>4. /\ reboot' \in RebootInfo /\ reset' \in {NoReset, "Pending", "Fail"}
        /\ timers' \in SUBSET Timer /\ QueueOK(queue')
    BY <2>2, FailUpdateFacts
  <2>5. RunKeeps
    BY <1>8, <2>1, <2>2, <2>3, <2>4 DEF UpdateDoneTimeout, Retry, RunKeeps
  <2> QED BY <1>8, <2>5, RunKeepsTyped DEF UpdateDoneTimeout, Retry, Running
<1> QED BY <1>1, <1>2, <1>3, <1>4, <1>5, <1>6, <1>7, <1>8, <1>o
        DEF ReceivingTimeout, RebootReqTimeout

\* What bm_dfu_host_transition_to_error leaves.
LEMMA HostErrorFacts ==
  ASSUME TypeOK, NEW err \in DfuErr, HostError(err)
  PROVE  /\ timers' \in SUBSET Timer /\ core' \in CoreRec
         /\ pending' \in State \cup {NoState} /\ QueueOK(queue')
BY Unpack, ToErrorFacts DEF HostError

\* A finish callback keeps the reports typed and within FINISHED_LEN.
LEMMA NotifyFacts ==
  ASSUME TypeOK, NEW asked, NEW r \in Reports, Notify(asked, r)
  PROVE  finished' \in Seq(Reports) /\ Len(finished') <= FINISHED_LEN /\ owed' \in Nat
<1>1. finished' \in Seq(Reports) /\ Len(finished') <= FINISHED_LEN
  BY Unpack, PutFacts, DfuAssumption DEF Notify
<1>2. owed' \in Nat
  BY SMTT(30), Unpack DEF Notify
<1> QED BY <1>1, <1>2

\* The updates the handlers make to the host's context.
LEMMA HostFacts ==
  ASSUME NEW h \in HostCtx
  PROVE  /\ \A n \in 0..255 : [h EXCEPT !.retries = n] \in HostCtx
         /\ \A n \in Nat : [h EXCEPT !.left = n] \in HostCtx
         /\ \A n \in Nat, b \in Seq(Byte) : [h EXCEPT !.left = n, !.stream = b] \in HostCtx
         /\ [h EXCEPT !.cap = 0, !.stream = <<>>] \in HostCtx
<1>1. ASSUME NEW n \in 0..255 PROVE [h EXCEPT !.retries = n] \in HostCtx
  BY DEF HostCtx
<1>2. ASSUME NEW g \in HostCtx, NEW n \in Nat
      PROVE  [g EXCEPT !.left = n] \in HostCtx /\ [g EXCEPT !.cap = n] \in HostCtx
  BY DEF HostCtx
<1>3. ASSUME NEW g \in HostCtx, NEW b \in Seq(Byte) PROVE [g EXCEPT !.stream = b] \in HostCtx
  BY DEF HostCtx
<1>4. ASSUME NEW n \in Nat, NEW b \in Seq(Byte)
      PROVE  [h EXCEPT !.left = n, !.stream = b] \in HostCtx
  BY <1>2, <1>3
<1>5. [h EXCEPT !.cap = 0, !.stream = <<>>] \in HostCtx
  <2>1. 0 \in Nat /\ <<>> \in Seq(Byte)
    OBVIOUS
  <2> QED BY <1>2, <1>3, <2>1
<1> QED BY ZenonT(30), <1>1, <1>2, <1>4, <1>5

\* bm_dfu_host_send_chunk: a chunk is no longer than what is left.
LEMMA ChunkFacts ==
  ASSUME ho \in HostCtx, ho.left <= ho.info.size
  PROVE  /\ ChunkLen \in Nat /\ ChunkLen <= ho.left /\ ChunkOffset \in Nat
         /\ ho.left \in Nat /\ ho.info.size \in Nat /\ ho.client \in Nat
         /\ ho.stream \in Seq(Byte)
<1>1. /\ ho.left \in Nat /\ ho.info \in ImgInfo /\ ho.client \in Nat
      /\ ho.stream \in Seq(Byte)
  BY DEF HostCtx
<1>2. ho.info.size \in Nat /\ ho.info.chunk \in Nat
  BY <1>1 DEF ImgInfo
<1> QED BY <1>1, <1>2, DfuAssumption DEF ChunkLen, ChunkOffset, Least

\* Host::run.
LEMMA HostTyped ==
  ASSUME TypeOK, HostReqAck \/ HostReqTimeout \/ HostAbort \/ ServeInternal \/ ServeStream
                 \/ ChunkUnread \/ HostUpdateReboot \/ HostUpdateBooted \/ HostUpdateEnd
                 \/ RunIgnored
  PROVE  TypeOK'
<1> USE Unpack, TimerNames
<1>s. {"Idle", "HostUpdate"} \subseteq State
  BY DEF State
<1>c. /\ ChunkLen \in Nat /\ ChunkLen <= ho.left /\ ChunkOffset \in Nat
      /\ ho.left \in Nat /\ ho.info.size \in Nat /\ ho.client \in Nat
      /\ ho.stream \in Seq(Byte)
  BY ChunkFacts
<1>o. /\ StartMsg(ho.client) \in Outs /\ Plain("Reboot", ho.client) \in Outs
      /\ End(ho.client, TRUE, NONE) \in Outs
      /\ \A d \in Seq(Byte) : ChunkMsg(d) \in Outs
  BY <1>c, OutFacts, ErrFacts DEF MessageKind, ChunkMsg
<1>1. CASE HostReqAck
  <2>1. event.body \in Body /\ event.body.err \in DfuErr
    BY <1>1, BodyFacts, BodyFields DEF HostReqAck, Running, MessageKind
  <2>2. /\ timers' \in SUBSET Timer /\ core' \in CoreRec
        /\ pending' \in State \cup {NoState} /\ QueueOK(queue')
    BY <1>1, <1>s, <2>1, HostErrorFacts, SetPendingFacts DEF HostReqAck
  <2>3. RunKeeps
    BY <1>1, <2>2 DEF HostReqAck, RunKeeps, roleVars, RoleType
  <2> QED BY <1>1, <2>3, RunKeepsTyped DEF HostReqAck, Running
<1>2. CASE HostReqTimeout
  <2>1. ho' \in HostCtx /\ ho'.left = ho.left /\ ho'.info = ho.info
    <3>1. ho.retries \in 0..255
      BY DEF HostCtx
    <3>2. ho' = [ho EXCEPT !.retries = Retried(ho.retries)]
      BY SMTT(30), <1>2 DEF HostReqTimeout
    <3>3. ho' \in HostCtx
      BY ZenonT(30), <3>1, <3>2, RetriedFacts, HostFacts
    <3>4. ho'.left = ho.left /\ ho'.info = ho.info
      BY <3>2 DEF HostCtx
    <3> QED BY <3>3, <3>4
  <2>2. RoleType'
    BY <1>2, <2>1 DEF HostReqTimeout, RoleType
  <2>3. \/ HostError(TIMEOUT) /\ UNCHANGED outbox
        \/ /\ Send(StartMsg(ho.client)) /\ timers' = timers \cup {"Ack"}
           /\ UNCHANGED <<pending, queue, core>>
    BY <1>2 DEF HostReqTimeout
  <2>4. /\ timers' \in SUBSET Timer /\ core' \in CoreRec /\ OutboxOK(outbox')
        /\ pending' \in State \cup {NoState} /\ QueueOK(queue')
    BY <1>o, <2>3, HostErrorFacts, ErrFacts, SendFacts
  <2>5. RunKeeps
    BY <1>2, <2>2, <2>4 DEF HostReqTimeout, RunKeeps
  <2> QED BY <1>2, <2>5, RunKeepsTyped DEF HostReqTimeout, Running
<1>3. CASE HostAbort
  <2>1. event.body # NoBody => event.body.err \in DfuErr
    BY <1>3, BodyFacts, BodyFields DEF HostAbort, Running
  <2>2. /\ timers' \in SUBSET Timer /\ core' \in CoreRec
        /\ pending' \in State \cup {NoState} /\ QueueOK(queue')
    BY <1>3, <2>1, HostErrorFacts, ErrFacts DEF HostAbort
  <2>3. RunKeeps
    BY <1>3, <2>2 DEF HostAbort, RunKeeps, roleVars, RoleType
  <2> QED BY <1>3, <2>3, RunKeepsTyped DEF HostAbort, Running
<1>4. ASSUME NEW n \in Nat, n <= ho.left, ho' \in HostCtx, ho'.left = ho.left - n,
             ho'.info = ho.info, cl' = cl
      PROVE  RoleType'
  BY <1>4, <1>c DEF RoleType
<1>5. CASE ServeInternal
  <2>1. ho' = [ho EXCEPT !.left = ho.left - ChunkLen] /\ cl' = cl
    BY <1>5 DEF ServeInternal
  <2>2. ho.left - ChunkLen \in Nat
    BY <1>c
  <2>3. ho' \in HostCtx /\ ho'.left = ho.left - ChunkLen /\ ho'.info = ho.info
    <3> DEFINE m == ho.left - ChunkLen
    <3>1. m \in Nat /\ ho' = [ho EXCEPT !.left = m]
      BY <2>1, <2>2
    <3> HIDE DEF m
    <3>2. ho' \in HostCtx
      BY <3>1, HostFacts, Zenon
    <3>3. ho'.left = m /\ ho'.info = ho.info
      BY <3>1 DEF HostCtx
    <3> QED BY <3>2, <3>3 DEF m
  <2>4. RoleType'
    BY <1>4, <1>c, <2>1, <2>3
  <2>5. SubSeq(slot, ChunkOffset + 1, ChunkOffset + ChunkLen) \in Seq(Byte)
    <3>1. slot \in Seq(Byte) /\ Len(slot) = SlotSize
      BY DfuAssumption DEF Slot
    <3>2. ChunkOffset + ChunkLen <= SlotSize
      BY <1>5 DEF ServeInternal, InSlot
    <3> QED BY <1>c, <3>1, <3>2, DfuAssumption
  <2>6. OutboxOK(outbox')
    BY <1>5, <1>o, <2>5, SendFacts DEF ServeInternal
  <2>7. RunKeeps
    BY <1>5, <2>4, <2>6 DEF ServeInternal, RunKeeps
  <2> QED BY <1>5, <2>7, RunKeepsTyped DEF ServeInternal, Running
<1>6. CASE ServeStream
  <2> DEFINE n == Least(Len(ho.stream), ChunkLen)
             d == [i \in 1..ChunkLen |-> IF i <= n THEN ho.stream[i] ELSE Zero]
  <2>1. n \in Nat /\ n <= ChunkLen /\ n <= Len(ho.stream) /\ n <= ho.left
        /\ ho.left - n \in Nat
    BY <1>c DEF Least
  <2>2. d \in Seq(Byte)
    <3>1. ASSUME NEW i \in 1..ChunkLen
          PROVE  (IF i <= n THEN ho.stream[i] ELSE Zero) \in Byte
      <4> HIDE DEF n
      <4>1. CASE i <= n
        <5>1. i \in 1..Len(ho.stream)
          BY <1>c, <2>1, <4>1
        <5> QED BY <1>c, <4>1, <5>1
      <4> QED BY <4>1, DfuAssumption
    <3>2. d \in [1..ChunkLen -> Byte]
      BY <3>1
    <3> HIDE DEF d
    <3> QED BY <1>c, <3>2
  <2>3. SubSeq(ho.stream, n + 1, Len(ho.stream)) \in Seq(Byte)
    BY SMTT(30), <1>c, <2>1
  <2>4. /\ ho' = [ho EXCEPT !.left = ho.left - n,
                            !.stream = SubSeq(ho.stream, n + 1, Len(ho.stream))]
        /\ Send(ChunkMsg(d)) /\ cl' = cl
    BY <1>6 DEF ServeStream
  <2> HIDE DEF n, d
  <2>5. ho' \in HostCtx
    BY ZenonT(30), <2>1, <2>3, <2>4, HostFacts
  <2>6. ho'.left = ho.left - n /\ ho'.info = ho.info
    BY <2>4 DEF HostCtx
  <2>7. RoleType'
    BY <1>4, <2>1, <2>4, <2>5, <2>6
  <2>8. OutboxOK(outbox')
    BY <1>o, <2>2, <2>4, SendFacts
  <2>9. RunKeeps
    BY <1>6, <2>7, <2>8 DEF ServeStream, RunKeeps
  <2> QED BY <1>6, <2>9, RunKeepsTyped DEF ServeStream, Running
<1>7. CASE ChunkUnread
  <2>1. /\ timers' \in SUBSET Timer /\ core' \in CoreRec
        /\ pending' \in State \cup {NoState} /\ QueueOK(queue')
    BY <1>7, HostErrorFacts, ErrFacts DEF ChunkUnread
  <2>2. RunKeeps
    BY <1>7, <2>1 DEF ChunkUnread, RunKeeps, roleVars, RoleType
  <2> QED BY <1>7, <2>2, RunKeepsTyped DEF ChunkUnread, Running
<1>8. CASE HostUpdateReboot
  <2>1. RunKeeps
    BY <1>8, <1>o, SendFacts DEF HostUpdateReboot, RunKeeps, roleVars, RoleType
  <2> QED BY <1>8, <2>1, RunKeepsTyped DEF HostUpdateReboot, Running
<1>9. CASE HostUpdateBooted
  <2>1. RunKeeps
    BY <1>9, <1>o, SendFacts DEF HostUpdateBooted, RunKeeps, roleVars, RoleType
  <2> QED BY <1>9, <2>1, RunKeepsTyped DEF HostUpdateBooted, Running
<1>10. CASE HostUpdateEnd
  <2>1. event.body \in Body /\ event.body.err \in DfuErr /\ event.body.ok \in BOOLEAN
    BY <1>10, BodyFacts, BodyFields DEF HostUpdateEnd, Running, MessageKind
  <2>2. Report(event.body.ok, event.body.err, ho.client) \in Reports
    BY <1>c, <2>1 DEF Report, Reports
  <2>3. finished' \in Seq(Reports) /\ Len(finished') <= FINISHED_LEN /\ owed' \in Nat
    BY <1>10, <2>2, NotifyFacts DEF HostUpdateEnd
  <2>4. pending' \in State \cup {NoState} /\ QueueOK(queue')
    BY <1>10, <1>s, SetPendingFacts DEF HostUpdateEnd
  <2>5. RunKeeps
    BY <1>10, <2>3, <2>4 DEF HostUpdateEnd, RunKeeps, roleVars, RoleType
  <2> QED BY <1>10, <2>5, RunKeepsTyped DEF HostUpdateEnd, Running
<1>11. CASE RunIgnored
  <2>1. RunKeeps
    BY <1>11 DEF RunIgnored, RunKeeps, roleVars, RoleType
  <2> QED BY <1>11, <2>1, RunKeepsTyped DEF RunIgnored
<1> QED BY <1>1, <1>2, <1>3, <1>5, <1>6, <1>7, <1>8, <1>9, <1>10, <1>11

------------------------------------------------------------------------------
\* lib_sm_run's change of state, the entries, and the resets.

\* The parts of TypeOK that an entry can change, primed.
EnterKeeps ==
  /\ pending' \in State \cup {NoState} /\ QueueOK(queue')
  /\ timers' \in SUBSET Timer /\ core' \in CoreRec /\ reboot' \in RebootInfo
  /\ RoleType'
  /\ OutboxOK(outbox') /\ reset' \in {NoReset, "Pending", "Fail"}
  /\ finished' \in Seq(Reports) /\ Len(finished') <= FINISHED_LEN
  /\ FlashType' /\ owed' \in Nat

\* An entry that keeps what it may change typed keeps TypeOK.
LEMMA EnterKeepsTyped ==
  ASSUME TypeOK, EnterKeeps, pc' \in {"done", "commit"}, UNCHANGED EnterVars
  PROVE  TypeOK'
<1>1. CoreType'
  BY DEF TypeOK, CoreType, EnterKeeps, EnterVars, QueueOK, CoreRec
<1>2. NodeType'
  BY DEF TypeOK, NodeType, EnterKeeps, EnterVars, OutboxOK
<1> QED BY <1>1, <1>2 DEF TypeOK, EnterKeeps, EnterVars

\* Every entry handler keeps TypeOK (Dfu::enter_state).
LEMMA EnterTyped ==
  ASSUME TypeOK, EnterState
  PROVE  TypeOK'
<1> USE Unpack, TimerNames
<1>s. {"Idle", "Error", "ClientRebootReq"} \subseteq State
  BY DEF State
<1>h. cl.host \in Nat /\ reboot.host \in Nat /\ core.client \in Nat /\ core.error \in DfuErr
  BY DEF ClientCtx, RebootInfo, CoreRec
<1>o. /\ ChunkReq(cl.host) \in Outs /\ Plain("RebootRequest", cl.host) \in Outs
      /\ Plain("BootComplete", reboot.host) \in Outs
      /\ \A err \in DfuErr : End(cl.host, FALSE, err) \in Outs /\ End(reboot.host, FALSE, err) \in Outs
  BY <1>h, OutFacts, ErrFacts DEF MessageKind
<1>r. ASSUME cl' \in ClientCtx, ho' = ho PROVE RoleType'
  BY <1>r DEF RoleType
<1>f. ASSUME UNCHANGED flashVars PROVE FlashType'
  BY <1>f DEF FlashType, flashVars
<1>u. ASSUME UNCHANGED roleVars PROVE RoleType'
  BY <1>u DEF RoleType, roleVars
<1>1. CASE EnterIdle
  <2>1. reboot' \in RebootInfo
    BY <1>1 DEF EnterIdle, NoReboot, NoNode, RebootInfo
  <2>2. EnterKeeps
    BY <1>1, <1>f, <1>u, <2>1 DEF EnterIdle, EnterKeeps
  <2> QED BY <1>1, <2>2, EnterKeepsTyped DEF EnterIdle, Entered
<1>2. CASE EnterError
  <2>1. Report(FALSE, core.error, core.client) \in Reports
    BY <1>h DEF Report, Reports
  <2>2. finished' \in Seq(Reports) /\ Len(finished') <= FINISHED_LEN /\ owed' \in Nat
    BY <1>2, <2>1, NotifyFacts DEF EnterError
  <2>3. pending' \in State \cup {NoState} /\ QueueOK(queue')
    BY <1>2, <1>s, SetPendingFacts DEF EnterError
  <2>4. EnterKeeps
    BY <1>2, <1>f, <1>u, <2>2, <2>3 DEF EnterError, EnterKeeps
  <2> QED BY <1>2, <2>4, EnterKeepsTyped DEF EnterError, Entered
<1>3. CASE EnterReceiving
  <2>1. cl' \in ClientCtx
    BY ZenonT(30), <1>3, ClientFacts DEF EnterReceiving
  <2>2. OutboxOK(outbox')
    BY <1>3, <1>o, SendFacts DEF EnterReceiving
  <2>3. EnterKeeps
    BY <1>3, <1>f, <1>r, <2>1, <2>2 DEF EnterReceiving, EnterKeeps
  <2> QED BY <1>3, <2>3, EnterKeepsTyped DEF EnterReceiving, Entered
<1>4. CASE EnterValidating
  <2>1. \/ \E err \in {MISMATCH_LEN, BAD_CRC} :
              /\ Send(End(cl.host, FALSE, err)) /\ timers' = timers \ {"Chunk"}
              /\ ToError(err)
        \/ SetPending("ClientRebootReq", queue) /\ UNCHANGED <<outbox, timers, core>>
    BY <1>4 DEF EnterValidating
  <2>2. /\ pending' \in State \cup {NoState} /\ QueueOK(queue') /\ core' \in CoreRec
        /\ timers' \in SUBSET Timer /\ OutboxOK(outbox')
    <3>1. ASSUME NEW err \in {MISMATCH_LEN, BAD_CRC}, Send(End(cl.host, FALSE, err)),
                 timers' = timers \ {"Chunk"}, ToError(err)
          PROVE  /\ pending' \in State \cup {NoState} /\ QueueOK(queue') /\ core' \in CoreRec
                 /\ timers' \in SUBSET Timer /\ OutboxOK(outbox')
      <4>1. err \in DfuErr
        BY ErrFacts
      <4>2. OutboxOK(outbox')
        BY ZenonT(30), <1>o, <3>1, <4>1, SendFacts
      <4> QED BY <3>1, <4>1, <4>2, ToErrorFacts
    <3> QED BY <1>s, <2>1, <3>1, SetPendingFacts
  <2>3. EnterKeeps
    BY <1>4, <1>f, <1>u, <2>2 DEF EnterValidating, EnterKeeps
  <2> QED BY <1>4, <2>3, EnterKeepsTyped DEF EnterValidating, Entered
<1>5. CASE EnterRebootReq
  <2>1. cl' \in ClientCtx
    <3>1. 0 \in 0..255
      OBVIOUS
    <3> QED BY ZenonT(30), <1>5, <3>1, ClientFacts DEF EnterRebootReq
  <2>2. OutboxOK(outbox')
    BY <1>5, <1>o, SendFacts DEF EnterRebootReq
  <2>3. EnterKeeps
    BY <1>5, <1>f, <1>r, <2>1, <2>2 DEF EnterRebootReq, RebootReqTimers, EnterKeeps
  <2> QED BY <1>5, <2>3, EnterKeepsTyped DEF EnterRebootReq, Entered
<1>6. CASE EnterActivating
  <2>1. PICK f \in Firings(timers) :
          timers' = timers \ Fired(f) /\ queue' = PostFired(queue, f)
    BY <1>6 DEF EnterActivating
  <2>2. EnterKeeps
    BY <1>6, <1>f, <1>u, <2>1, DelayFacts DEF EnterActivating, EnterKeeps
  <2> QED BY <1>6, <2>2, EnterKeepsTyped DEF EnterActivating, Entered
<1>7. ASSUME RebootDoneEntry, ho' = ho PROVE RoleType'
  <2>1. cl' \in ClientCtx
    BY ZenonT(30), <1>7, <1>h, ClientFacts DEF RebootDoneEntry
  <2> QED BY SMTT(30), <1>7, <1>r, <2>1
<1>8. CASE EnterWrongVersion
  <2>1. OutboxOK(outbox')
    BY <1>8, <1>o, ErrFacts, SendFacts DEF EnterWrongVersion
  <2>2. /\ reboot' \in RebootInfo /\ reset' \in {NoReset, "Pending", "Fail"}
        /\ timers' \in SUBSET Timer /\ QueueOK(queue')
    BY <1>8, FailUpdateFacts DEF EnterWrongVersion
  <2>3. EnterKeeps
    BY <1>8, <1>7, <1>f, <2>1, <2>2 DEF EnterWrongVersion, EnterKeeps
  <2> QED BY <1>8, <2>3, EnterKeepsTyped DEF EnterWrongVersion, Entered
<1>9. CASE EnterBootComplete
  <2>1. OutboxOK(outbox')
    BY <1>9, <1>o, SendFacts DEF EnterBootComplete
  <2>2. EnterKeeps
    BY <1>9, <1>7, <1>f, <2>1 DEF EnterBootComplete, EnterKeeps
  <2> QED BY <1>9, <2>2, EnterKeepsTyped DEF EnterBootComplete, Entered
<1>10. CASE EnterUnasked
  <2>1. reboot' \in RebootInfo
    BY <1>10 DEF EnterUnasked, NoReboot, NoNode, RebootInfo
  <2>2. boot' \in [running : Images, trial : BOOLEAN] /\ confirm' \in BOOLEAN
        /\ pc' \in {"done", "commit"}
    BY <1>10 DEF EnterUnasked, Outcome
  <2>3. FlashType'
    BY <1>10, <2>2 DEF EnterUnasked, FlashType
  <2>4. EnterKeeps
    BY <1>10, <1>7, <2>1, <2>3 DEF EnterUnasked, EnterKeeps
  <2> QED BY <1>10, <2>2, <2>4, EnterKeepsTyped DEF EnterUnasked
<1>11. CASE EnterHostReqUpdate
  <2> DEFINE info == event.body.info
             dst == event.body.dst
             new == [ho EXCEPT !.info = info, !.left = info.size, !.client = dst, !.retries = 0]
             cap == IF info.chunk <= DFU_MAX_CHUNK_SIZE THEN info.chunk ELSE 0
  <2>1. info \in ImgInfo /\ dst \in Nat
    BY <1>11, BodyFacts DEF EnterHostReqUpdate, Request
  <2>2. info.size \in Nat /\ cap \in Nat
    BY <2>1 DEF ImgInfo
  <2> HIDE DEF info, dst, cap
  <2>3. new \in HostCtx /\ new.left = info.size /\ new.info = info
    <3> DEFINE h1 == [ho EXCEPT !.info = info]
               h2 == [h1 EXCEPT !.left = info.size]
               h3 == [h2 EXCEPT !.client = dst]
    <3>1. h1 \in HostCtx /\ h1.info = info
      BY <2>1 DEF HostCtx
    <3>2. h2 \in HostCtx /\ h2.info = h1.info /\ h2.left = info.size
      <4> HIDE DEF h1
      <4> QED BY <2>2, <3>1 DEF HostCtx
    <3>3. h3 \in HostCtx /\ h3.info = h2.info /\ h3.left = h2.left
      <4> HIDE DEF h2
      <4> QED BY ZenonT(30), <2>1, <3>2 DEF HostCtx
    <3>4. new = [h3 EXCEPT !.retries = 0]
      OBVIOUS
    <3> HIDE DEF h3, new
    <3>5. new \in HostCtx /\ new.info = h3.info /\ new.left = h3.left
      <4>1. 0 \in 0..255
        OBVIOUS
      <4>2. new \in HostCtx
        BY ZenonT(30), <3>3, <3>4, <4>1, HostFacts
      <4>3. new.info = h3.info /\ new.left = h3.left
        BY <3>3, <3>4 DEF HostCtx
      <4> QED BY <4>2, <4>3
    <3> HIDE DEF h1, h2
    <3> QED BY <3>1, <3>2, <3>3, <3>5
  <2>4. [new EXCEPT !.stream = <<>>, !.cap = cap] \in HostCtx
    <3> HIDE DEF new
    <3>1. ASSUME NEW g \in HostCtx, NEW b \in Seq(Byte) PROVE [g EXCEPT !.stream = b] \in HostCtx
      BY DEF HostCtx
    <3>2. ASSUME NEW g \in HostCtx, NEW n \in Nat PROVE [g EXCEPT !.cap = n] \in HostCtx
      BY DEF HostCtx
    <3>3. <<>> \in Seq(Byte)
      OBVIOUS
    <3> QED BY <2>2, <2>3, <3>1, <3>2, <3>3
  <2>5. ho' = IF core.internal THEN new ELSE [new EXCEPT !.stream = <<>>, !.cap = cap]
    BY <1>11 DEF EnterHostReqUpdate, info, dst, cap
  <2>6. ho' \in HostCtx /\ ho'.left = info.size /\ ho'.info = info
    <3> HIDE DEF new
    <3>1. [new EXCEPT !.stream = <<>>, !.cap = cap].left = new.left
          /\ [new EXCEPT !.stream = <<>>, !.cap = cap].info = new.info
      BY <2>3 DEF HostCtx
    <3> QED BY <2>3, <2>4, <2>5, <3>1
  <2>7. RoleType'
    BY <1>11, <2>2, <2>6 DEF EnterHostReqUpdate, RoleType
  <2>8. OutboxOK(outbox')
    BY <1>11, <2>1, OutFacts, ErrFacts, SendFacts DEF EnterHostReqUpdate, dst
  <2>9. EnterKeeps
    BY <1>11, <1>f, <2>7, <2>8 DEF EnterHostReqUpdate, EnterKeeps
  <2> QED BY <1>11, <2>9, EnterKeepsTyped DEF EnterHostReqUpdate, Entered
<1>12. CASE EnterHostUpdate
  <2>1. EnterKeeps
    BY <1>12, <1>f, <1>u DEF EnterHostUpdate, HostUpdateTimers, EnterKeeps
  <2> QED BY <1>12, <2>1, EnterKeepsTyped DEF EnterHostUpdate, Entered
<1> QED BY <1>1, <1>2, <1>3, <1>4, <1>5, <1>6, <1>8, <1>9, <1>10, <1>11, <1>12 DEF EnterState

\* Taking a state change, and the end of a step, keep TypeOK (lib_sm_run).
LEMMA ChangeTyped ==
  ASSUME TypeOK, KeepState \/ ChangeState \/ EndStep
  PROVE  TypeOK'
<1> USE Unpack
<1>1. CASE KeepState
  BY <1>1 DEF KeepState, TypeOK, CoreType, RoleType, NodeType, FlashType, roleVars, nodeVars,
              flashVars, QueueOK
<1>2. CASE ChangeState
  <2>1. ho' \in HostCtx /\ ho'.left = ho.left /\ ho'.info = ho.info
    <3>1. CASE state = "HostUpdate"
      <4>1. ho' = [ho EXCEPT !.cap = 0, !.stream = <<>>]
        BY <1>2, <3>1 DEF ChangeState
      <4> QED BY ZenonT(30), <4>1, HostFacts DEF HostCtx
    <3> QED BY SMTT(30), <1>2, <3>1 DEF ChangeState
  <2>2. RoleType'
    BY <1>2, <2>1 DEF ChangeState, RoleType
  <2>3. CoreType'
    BY <1>2 DEF ChangeState, CoreType, TypeOK
  <2> QED BY <1>2, <2>2, <2>3 DEF ChangeState, TypeOK, NodeType, FlashType, nodeVars, flashVars
<1>3. CASE EndStep
  <2>1. CoreType'
    BY <1>3, BareFacts DEF EndStep, CoreType, TypeOK
  <2> QED BY <1>3, <2>1 DEF EndStep, TypeOK, RoleType, NodeType, FlashType, roleVars, flashVars
<1> QED BY <1>1, <1>2, <1>3

\* A reset keeps TypeOK, whatever no-init RAM it finds.
LEMMA RebootTyped ==
  ASSUME TypeOK, NEW pend \in BOOLEAN, NEW ram \in RebootInfo, Reboot(pend, ram),
         confirm' = confirm, inputs' \in 0..MaxInputs
  PROVE  TypeOK'
<1> USE Unpack
<1>1. boot' \in [running : Images, trial : BOOLEAN] /\ slot' \in Slot
  <2>1. \A im \in Images : Padded(im.bytes) \in Slot
    <3>1. \A im \in Images : im.bytes \in Seq(Byte)
      BY DfuAssumption DEF Image
    <3>2. ASSUME NEW b \in Seq(Byte) PROVE Padded(b) \in Slot
      BY DfuAssumption DEF Padded, Slot
    <3> QED BY <3>1, <3>2
  <2> QED BY <2>1 DEF Reboot, Bootloader, Held
<1>2. CoreType'
  BY BareFacts, DfuAssumption
     DEF Reboot, CoreType, State, NoState, CoreNew, DfuErr, NONE, NoNode
<1>3. RoleType'
  BY DfuAssumption DEF Reboot, RoleType, ClientCtx, HostCtx, ClientNew, HostNew, NoInfo,
                       ImgInfo, NoNode
<1>4. NodeType'
  BY DfuAssumption DEF Reboot, NodeType
<1>5. FlashType'
  BY <1>1 DEF FlashType
<1> QED BY <1>2, <1>3, <1>4, <1>5 DEF TypeOK, Reboot

\* Each of the three resets keeps TypeOK.
LEMMA ResetsTyped ==
  ASSUME TypeOK, TakeReset \/ CommitReset \/ Crash
  PROVE  TypeOK'
<1> USE Unpack
<1>i. inputs \in 0..MaxInputs
  BY DEF TypeOK
<1>n. NoReboot \in RebootInfo
  BY DEF NoReboot, NoNode, RebootInfo
<1>1. CASE TakeReset
  <2>1. PICK pend \in BOOLEAN : Reboot(pend, reboot)
    BY <1>1 DEF TakeReset, Outcome
  <2> QED BY <1>1, <1>i, <2>1, RebootTyped DEF TakeReset
<1>2. CASE CommitReset
  BY <1>2, <1>i, RebootTyped DEF CommitReset
<1>3. CASE Crash
  <2>1. PICK ram \in RebootInfo : Reboot(FALSE, ram)
    BY <1>3, <1>n DEF Crash
  <2>2. inputs' \in 0..MaxInputs
    BY <1>3, <1>i, DfuAssumption DEF Crash
  <2> QED BY <1>3, <2>1, <2>2, RebootTyped DEF Crash
<1> QED BY <1>1, <1>2, <1>3

\* The machine and the node around it keep every type and every queue's
\* bound, whatever the bus, the application, the flash and the power do.
THEOREM TypeCorrect == Spec => []TypeOK
<1>1. Init => TypeOK
  BY InitTyped
<1>2. TypeOK /\ [Next]_vars => TypeOK'
  <2> SUFFICES ASSUME TypeOK, [Next]_vars PROVE TypeOK'
    OBVIOUS
  <2>1. CASE RunState
    BY <2>1, IdleTyped, ClientTyped, HostTyped DEF RunState
  <2>2. CASE Environment \/ Transmit \/ Pop \/ (\E t \in Timer : TimerDue(t))
    BY <2>2, CallsTyped, ResetsTyped
  <2>3. CASE UNCHANGED vars
    BY <2>3 DEF vars, coreVars, roleVars, nodeVars, flashVars, TypeOK, CoreType, RoleType,
                NodeType, FlashType
  <2> QED BY <2>1, <2>2, <2>3, EnterTyped, ChangeTyped, ResetsTyped DEF Next, Step, Wait
<1> QED BY <1>1, <1>2, PTL DEF Spec

------------------------------------------------------------------------------
(***************************************************************************)
(* The safety of a firmware update, for every value of the constants: no   *)
(* state change is slept on, no frame is dropped from the outbox, the      *)
(* image a client asks to boot is the one it was offered, every accepted   *)
(* update is reported, a trial has an image to fall back to, and a machine *)
(* that waits has a timer that gives up.                                   *)
(*                                                                         *)
(* None of them is inductive.  PendingInv says which changes may be        *)
(* pending where in a step; OutboxInv, how many frames are queued there;   *)
(* ImageInv, how the bytes received relate to those in the slot; OwedInv,  *)
(* where the update is whose report is owed; TrialInv, in which states an  *)
(* image can be on trial; WaitInv, where the event of the timer a state    *)
(* waits with is, and that the queue has room for it.                      *)
(***************************************************************************)

\* The changes of state the handlers and the entries ask for.
Moves(s, t) ==
  \/ s = "Init" /\ t \in {"Idle", "ClientRebootDone"}
  \/ s = "Idle" /\ t \in {"HostReqUpdate", "ClientReceiving", "Error"}
  \/ s = "Error" /\ t = "Idle"
  \/ s = "ClientReceiving" /\ t \in {"ClientValidating", "Error"}
  \/ s = "ClientValidating" /\ t \in {"ClientRebootReq", "Error"}
  \/ s = "ClientRebootReq" /\ t \in {"ClientActivating", "Error"}
  \/ s = "ClientRebootDone" /\ t = "Idle"
  \/ s = "HostReqUpdate" /\ t \in {"HostUpdate", "Error"}
  \/ s = "HostUpdate" /\ t \in {"Idle", "Error"}

\* A change outlives a step only where an entry set it, and then with an
\* event queued behind it.
PendingInv ==
  /\ pending # NoState => Moves(state, pending)
  /\ pc \in {"enter", "commit"} => pending = NoState
  /\ pc \in {"ready", "run", "done"} /\ pending # NoState
       => state \in {"Error", "ClientValidating"}
  /\ pc \in {"ready", "done"} /\ pending # NoState => queue # <<>>

\* A step starts with the outbox empty; a handler that sends twice changes no
\* state, and an entry sends once.
OutboxInv ==
  /\ pc = "run" => outbox = <<>>
  /\ (pc = "take" /\ pending # NoState) \/ pc = "enter" => Len(outbox) <= 1
  /\ Len(outbox) <= 2

------------------------------------------------------------------------------
\* No handler leaves a change that nothing will run (Dfu::run_state).
LEMMA RunPending ==
  ASSUME TypeOK, PendingInv, RunState
  PROVE  PendingInv'
<1>1. pc = "run" /\ pc' = "take" /\ state' = state
  BY DEF RunState, InitRun, IdleBeginHost, RefuseSameVersion, RefuseChunkSize, RefuseFlash,
         RefuseTooLarge, AcceptOffer, ReceiveChunk, ReceiveLastChunk, ReceivingTimeout,
         ReceivingRestart, ReceivingHeartbeat, RebootReqReboot, RebootReqTimeout, UpdateDoneEnd,
         UpdateDoneTimeout, HostReqAck, HostReqTimeout, HostAbort, ServeInternal, ServeStream,
         ChunkUnread, HostUpdateReboot, HostUpdateBooted, HostUpdateEnd, RunIgnored,
         OfferRun, ChunkRun, Retry, Running, StepVars
<1>2. pending' # NoState => Moves(state, pending')
  <2>1. CASE InitRun \/ IdleBeginHost
    BY <2>1 DEF InitRun, IdleBeginHost, SetPending, AfterInit, Moves, Running
  <2>2. CASE RefuseSameVersion \/ RefuseChunkSize \/ RefuseFlash \/ RefuseTooLarge \/ AcceptOffer
    BY <2>2 DEF PendingInv, RefuseSameVersion, RefuseChunkSize, RefuseFlash, RefuseTooLarge,
                AcceptOffer, OfferRun, ToError, SetPending, Moves, Running
  <2>3. CASE ReceiveChunk \/ ReceiveLastChunk
    BY <2>3 DEF PendingInv, ReceiveChunk, ReceiveLastChunk, ChunkRun, ToError, SetPending,
                Moves, Running
  <2>4. CASE ReceivingTimeout \/ RebootReqTimeout \/ UpdateDoneTimeout
    BY <2>4 DEF PendingInv, ReceivingTimeout, RebootReqTimeout, UpdateDoneTimeout, Retry,
                TimedOut, ToError, SetPending, Moves, Running
  <2>5. CASE ReceivingRestart \/ ReceivingHeartbeat \/ RebootReqReboot \/ UpdateDoneEnd
    BY <2>5 DEF PendingInv, ReceivingRestart, ReceivingHeartbeat, RebootReqReboot,
                UpdateDoneEnd, SetPending, Moves, Running
  <2>6. CASE HostReqAck \/ HostReqTimeout \/ HostAbort \/ ChunkUnread
    BY <2>6 DEF PendingInv, HostReqAck, HostReqTimeout, HostAbort, ChunkUnread, HostError,
                ToError, SetPending, Moves, Running
  <2>7. CASE \/ ServeInternal \/ ServeStream \/ HostUpdateReboot \/ HostUpdateBooted
             \/ HostUpdateEnd \/ RunIgnored
    BY <2>7 DEF PendingInv, ServeInternal, ServeStream, HostUpdateReboot, HostUpdateBooted,
                HostUpdateEnd, RunIgnored, SetPending, Moves, Running
  <2> QED BY <2>1, <2>2, <2>3, <2>4, <2>5, <2>6, <2>7 DEF RunState
<1> QED BY <1>1, <1>2 DEF PendingInv

\* No entry leaves a change that nothing will run (Dfu::enter_state).
LEMMA EnterPending ==
  ASSUME TypeOK, PendingInv, EnterState
  PROVE  PendingInv'
<1> USE Unpack
<1>1. pc = "enter" /\ pending = NoState /\ state' = state /\ pc' \in {"done", "commit"}
  BY DEF PendingInv, EnterState, EnterIdle, EnterError, EnterReceiving, EnterValidating,
         EnterRebootReq, EnterActivating, EnterWrongVersion, EnterBootComplete, EnterUnasked,
         EnterHostReqUpdate, EnterHostUpdate, RebootDoneEntry, Entering, Entered, EnterVars
<1>s. {"Idle", "ClientRebootReq"} \subseteq State
  BY DEF State
<1>2. CASE EnterError
  <2>1. \/ pending' = pending
        \/ pending' = "Idle" /\ queue' # <<>>
    BY <1>2, <1>s, SetPendingFacts DEF EnterError
  <2>2. state = "Error" /\ pc' = "done"
    BY <1>2 DEF EnterError, Entering, Entered
  <2> QED BY <1>1, <2>1, <2>2 DEF PendingInv, Moves
<1>3. CASE EnterValidating
  <2>1. \/ ToError(MISMATCH_LEN) \/ ToError(BAD_CRC) \/ SetPending("ClientRebootReq", queue)
    BY <1>3 DEF EnterValidating
  <2>2. pending' \in {"Error", "ClientRebootReq"} /\ queue' # <<>>
    BY <1>s, <2>1, ErrFacts, ToErrorFacts, SetPendingFacts
  <2>3. state = "ClientValidating" /\ pc' = "done"
    BY <1>3 DEF EnterValidating, Entering, Entered
  <2> QED BY <1>1, <2>2, <2>3 DEF PendingInv, Moves
<1>4. CASE \/ EnterIdle \/ EnterReceiving \/ EnterRebootReq \/ EnterActivating
           \/ EnterWrongVersion \/ EnterBootComplete \/ EnterUnasked
           \/ EnterHostReqUpdate \/ EnterHostUpdate
  <2>1. pending' = pending
    BY <1>4 DEF EnterIdle, EnterReceiving, EnterRebootReq, EnterActivating, EnterWrongVersion,
                EnterBootComplete, EnterUnasked, EnterHostReqUpdate, EnterHostUpdate
  <2> QED BY <1>1, <2>1 DEF PendingInv
<1> QED BY <1>2, <1>3, <1>4 DEF EnterState

\* A reset leaves no change pending and nothing to send.
LEMMA RebootPending ==
  ASSUME NEW pend, NEW ram, Reboot(pend, ram)
  PROVE  PendingInv' /\ OutboxInv'
BY DEF Reboot, PendingInv, OutboxInv, NoState

\* The steps that run no handler keep PendingInv.
LEMMA RestPending ==
  ASSUME TypeOK, PendingInv, [Next]_vars, ~RunState, ~EnterState
  PROVE  PendingInv'
<1> USE Unpack
<1>1. ASSUME NEW q, NEW e, q \in Seq(Events) PROVE Append(q, e) # <<>>
  BY <1>1
<1>2. ASSUME NEW m \in Messages, OnMessage(m) PROVE PendingInv'
  <2>1. queue' # <<>>
    BY <1>1, <1>2 DEF OnMessage, QueueOK
  <2> QED BY <1>2, <2>1 DEF OnMessage, PendingInv
<1>3. ASSUME NEW r \in Requests, InitiateUpdate(r) \/ RefuseUpdate(r) PROVE PendingInv'
  <2>1. InitiateUpdate(r) => queue' # <<>>
    BY <1>1 DEF InitiateUpdate, QueueOK
  <2> QED BY <1>3, <2>1 DEF InitiateUpdate, RefuseUpdate, coreVars, PendingInv
<1>4. ASSUME NEW d \in Feeds, HostQueueData(d) PROVE PendingInv'
  BY <1>4 DEF HostQueueData, coreVars, PendingInv
<1>5. CASE TakeUpdateFinished \/ Transmit
  BY <1>5 DEF TakeUpdateFinished, Transmit, coreVars, PendingInv
<1>6. ASSUME NEW t \in Timer, TimerDue(t) PROVE PendingInv'
  <2>1. queue' # <<>>
    BY <1>6, PostDueFacts DEF TimerDue, QueueOK
  <2> QED BY <1>6, <2>1 DEF TimerDue, PendingInv
<1>7. CASE Pop
  BY <1>7 DEF Pop, Steppable, PendingInv
<1>8. CASE KeepState
  BY <1>8 DEF KeepState, PendingInv, NoState
<1>9. CASE ChangeState
  BY <1>9 DEF ChangeState, PendingInv, NoState
<1>10. CASE EndStep
  BY <1>10 DEF EndStep, PendingInv
<1>11. CASE TakeReset \/ CommitReset \/ Crash
  BY <1>11, RebootPending DEF TakeReset, CommitReset, Crash
<1>12. CASE UNCHANGED vars
  BY <1>12 DEF vars, coreVars, PendingInv
<1> QED BY <1>2, <1>3, <1>4, <1>5, <1>6, <1>7, <1>8, <1>9, <1>10, <1>11, <1>12
        DEF Next, Step, Environment, Wait

\* A state change that is still pending when a step of Dfu::step ends always
\* has an event queued to run it with, however full the queue was when
\* set_pending_state_change pushed its NOP.
THEOREM PendingWakes == Spec => [](PendingInv /\ PendingHasWakeup)
<1>1. Init => PendingInv
  BY DEF Init, PendingInv, NoState
<1>2. TypeOK /\ PendingInv /\ [Next]_vars => PendingInv'
  BY RunPending, EnterPending, RestPending
<1>3. PendingInv => PendingHasWakeup
  BY DEF PendingInv, PendingHasWakeup
<1> QED BY <1>1, <1>2, <1>3, TypeCorrect, PTL DEF Spec

------------------------------------------------------------------------------
\* A push makes a queue longer by one at most, whatever it holds.
LEMMA PutLength ==
  ASSUME OutboxOK(outbox), NEW m
  PROVE  /\ Len(Put(outbox, m, OUTBOX_LEN)) \in Nat
         /\ Len(Put(outbox, m, OUTBOX_LEN)) <= Len(outbox) + 1
BY DEF Put, OutboxOK

\* A handler sends two bodies only where no entry follows it.
LEMMA RunOutbox ==
  ASSUME TypeOK, PendingInv, OutboxInv, RunState
  PROVE  OutboxInv'
<1> USE Unpack
<1>1. pc = "run" /\ pc' = "take" /\ outbox = <<>> /\ Len(outbox) = 0
  BY DEF OutboxInv, RunState, InitRun, IdleBeginHost, RefuseSameVersion, RefuseChunkSize, RefuseFlash,
         RefuseTooLarge, AcceptOffer, ReceiveChunk, ReceiveLastChunk, ReceivingTimeout,
         ReceivingRestart, ReceivingHeartbeat, RebootReqReboot, RebootReqTimeout, UpdateDoneEnd,
         UpdateDoneTimeout, HostReqAck, HostReqTimeout, HostAbort, ServeInternal, ServeStream,
         ChunkUnread, HostUpdateReboot, HostUpdateBooted, HostUpdateEnd, RunIgnored,
         OfferRun, ChunkRun, Retry, Running
<1>2. ASSUME outbox' = outbox \/ \E m : Send(m) PROVE OutboxInv'
  <2>1. Len(outbox') <= 1 /\ Len(outbox') \in Nat
    BY <1>1, <1>2, PutLength DEF Send
  <2> QED BY <1>1, <2>1 DEF OutboxInv
<1>3. CASE ReceivingRestart
  <2>1. pending' = NoState
    BY <1>3, <1>1 DEF ReceivingRestart, Running, PendingInv
  <2> DEFINE once == Put(outbox, Ack(cl.host, TRUE, NONE), OUTBOX_LEN)
  <2>2. Ack(cl.host, TRUE, NONE) \in Outs /\ ChunkReq(cl.host) \in Outs
    <3>1. cl.host \in Nat
      BY DEF ClientCtx
    <3> QED BY <3>1, OutFacts, ErrFacts
  <2>3. once \in Seq(Outs) /\ Len(once) <= OUTBOX_LEN /\ Len(once) <= 1
    <3>1. outbox \in Seq(Outs) /\ Len(outbox) <= OUTBOX_LEN /\ OUTBOX_LEN \in Nat
      BY DfuAssumption DEF OutboxOK
    <3>2. once \in Seq(Outs) /\ Len(once) <= OUTBOX_LEN /\ Len(once) <= Len(outbox) + 1
      BY <2>2, <3>1, PutFacts
    <3> HIDE DEF once
    <3> QED BY <1>1, <3>2
  <2>4. outbox' = Put(once, ChunkReq(cl.host), OUTBOX_LEN)
    BY <1>3 DEF ReceivingRestart, Send2
  <2> HIDE DEF once
  <2>5. outbox' \in Seq(Outs) /\ Len(outbox') <= Len(once) + 1
    BY <2>2, <2>3, <2>4, PutFacts, DfuAssumption
  <2>6. Len(outbox') <= 2
    BY <2>3, <2>5
  <2> QED BY <1>1, <2>1, <2>6 DEF OutboxInv
<1>4. CASE InitRun \/ IdleBeginHost \/ ReceiveLastChunk \/ ReceivingHeartbeat \/ RebootReqReboot
           \/ HostReqAck \/ HostAbort \/ ChunkUnread \/ HostUpdateEnd \/ RunIgnored
  BY <1>2, <1>4 DEF InitRun, IdleBeginHost, ReceiveLastChunk, ReceivingHeartbeat,
         RebootReqReboot, HostReqAck, HostAbort, ChunkUnread, HostUpdateEnd, RunIgnored
<1>5. CASE RefuseSameVersion \/ RefuseChunkSize \/ RefuseFlash \/ RefuseTooLarge \/ AcceptOffer
  BY <1>2, <1>5 DEF RefuseSameVersion, RefuseChunkSize, RefuseFlash, RefuseTooLarge, AcceptOffer
<1>6. CASE ReceiveChunk \/ ReceivingTimeout \/ RebootReqTimeout \/ UpdateDoneEnd \/ UpdateDoneTimeout
  BY <1>2, <1>6 DEF ReceiveChunk, ReceivingTimeout, RebootReqTimeout, UpdateDoneEnd,
                    UpdateDoneTimeout, Retry, TimedOut
<1>7. CASE HostReqTimeout \/ ServeInternal \/ ServeStream \/ HostUpdateReboot \/ HostUpdateBooted
  BY <1>2, <1>7 DEF HostReqTimeout, ServeInternal, ServeStream, HostUpdateReboot, HostUpdateBooted
<1> QED BY <1>3, <1>4, <1>5, <1>6, <1>7 DEF RunState

\* An entry adds at most one body to at most one.
LEMMA EnterOutbox ==
  ASSUME TypeOK, OutboxInv, EnterState
  PROVE  OutboxInv'
<1> USE Unpack
<1>1. pc = "enter" /\ pc' \in {"done", "commit"} /\ Len(outbox) <= 1
  BY DEF OutboxInv, EnterState, EnterIdle, EnterError, EnterReceiving, EnterValidating,
         EnterRebootReq, EnterActivating, EnterWrongVersion, EnterBootComplete, EnterUnasked,
         EnterHostReqUpdate, EnterHostUpdate, RebootDoneEntry, Entering, Entered, EnterVars
<1>2. ASSUME outbox' = outbox \/ \E m : Send(m) PROVE OutboxInv'
  <2>1. Len(outbox') <= 2
    BY <1>1, <1>2, PutLength DEF Send, Put, OutboxOK
  <2> QED BY <1>1, <2>1 DEF OutboxInv
<1>3. CASE EnterIdle \/ EnterError \/ EnterActivating \/ EnterUnasked \/ EnterHostUpdate
  BY <1>2, <1>3 DEF EnterIdle, EnterError, EnterActivating, EnterUnasked, EnterHostUpdate
<1>4. CASE EnterReceiving \/ EnterValidating \/ EnterRebootReq \/ EnterWrongVersion
           \/ EnterBootComplete \/ EnterHostReqUpdate
  BY <1>2, <1>4 DEF EnterReceiving, EnterValidating, EnterRebootReq, EnterWrongVersion,
                    EnterBootComplete, EnterHostReqUpdate
<1> QED BY <1>3, <1>4 DEF EnterState

\* The steps that run no handler send nothing.
LEMMA RestOutbox ==
  ASSUME TypeOK, OutboxInv, [Next]_vars, ~RunState, ~EnterState
  PROVE  OutboxInv'
<1> USE Unpack
<1>1. ASSUME NEW m \in Messages, OnMessage(m) PROVE OutboxInv'
  BY <1>1 DEF OnMessage, Input, Callable, nodeVars, OutboxInv
<1>2. ASSUME NEW r \in Requests, InitiateUpdate(r) \/ RefuseUpdate(r) PROVE OutboxInv'
  BY <1>2 DEF InitiateUpdate, RefuseUpdate, Input, Callable, coreVars, nodeVars, OutboxInv
<1>3. ASSUME NEW d \in Feeds, HostQueueData(d) PROVE OutboxInv'
  BY <1>3 DEF HostQueueData, coreVars, nodeVars, OutboxInv
<1>4. CASE TakeUpdateFinished
  BY <1>4 DEF TakeUpdateFinished, coreVars, OutboxInv
<1>5. CASE Transmit
  <2>1. Len(outbox') <= Len(outbox)
    BY <1>5 DEF Transmit, OutboxOK
  <2> QED BY <1>5, <2>1 DEF Transmit, coreVars, OutboxInv, OutboxOK
<1>6. ASSUME NEW t \in Timer, TimerDue(t) PROVE OutboxInv'
  BY <1>6 DEF TimerDue, Steppable, nodeVars, OutboxInv
<1>7. CASE Pop
  BY <1>7 DEF Pop, Steppable, nodeVars, OutboxInv
<1>8. CASE KeepState \/ ChangeState
  BY <1>8 DEF KeepState, ChangeState, nodeVars, OutboxInv
<1>9. CASE EndStep
  BY <1>9 DEF EndStep, OutboxInv
<1>10. CASE TakeReset \/ CommitReset \/ Crash
  BY <1>10, RebootPending DEF TakeReset, CommitReset, Crash
<1>11. CASE UNCHANGED vars
  BY <1>11 DEF vars, coreVars, nodeVars, OutboxInv
<1> QED BY <1>1, <1>2, <1>3, <1>4, <1>5, <1>6, <1>7, <1>8, <1>9, <1>10, <1>11
        DEF Next, Step, Environment, Wait

\* No step of the machine queues more than two frames, so an outbox of two or
\* more drops none (bm-stack's OUTBOX_LEN).
THEOREM OutboxNeverOverflows == Spec => []OutboxFits
<1>1. Init => OutboxInv
  BY DEF Init, OutboxInv
<1>2. TypeOK /\ PendingInv /\ OutboxInv /\ [Next]_vars => OutboxInv'
  BY RunOutbox, EnterOutbox, RestOutbox
<1>3. OutboxInv => OutboxFits
  BY DEF OutboxInv, OutboxFits
<1> QED BY <1>1, <1>2, <1>3, TypeCorrect, PendingWakes, PTL DEF Spec

------------------------------------------------------------------------------
\* The bytes received so far, got, against those stored: off bytes in the
\* slot and the rest in the page.  A failed write loses bytes, and nothing
\* received later makes up for them.
Tracks(off, page, got, s) ==
  /\ off + Len(page) <= Len(got)
  /\ off + Len(page) = Len(got) =>
       /\ off <= SlotSize
       /\ \A i \in 1..off : s[i] = got[i]
       /\ \A i \in 1..Len(page) : page[i] = got[off + i]

\* The same once the page is written out.
Stored(off, got, s) ==
  /\ off <= Len(got)
  /\ off = Len(got) => off <= SlotSize /\ \A i \in 1..off : s[i] = got[i]

\* The slot holds what the client's checks in ClientValidating are of.
Complete == Stored(cl.off, cl.got, slot) /\ cl.off = cl.size /\ cl.got = cl.crc

ImageInv ==
  /\ state = "ClientReceiving" /\ pc # "enter" /\ pending = NoState
       => Tracks(cl.off, cl.page, cl.got, slot)
  /\ state = "ClientReceiving" /\ pending = "ClientValidating" => Stored(cl.off, cl.got, slot)
  /\ state = "ClientValidating" /\ pc = "enter" => Stored(cl.off, cl.got, slot)
  /\ state = "ClientValidating" /\ pending = "ClientRebootReq" => Complete
  /\ state \in {"ClientRebootReq", "ClientActivating"} => Complete
  /\ reset = "Pending" => state = "ClientActivating"

\* A write that succeeds is inside the slot and has stored all of its data.
LEMMA WriteStores ==
  ASSUME NEW s, NEW off, NEW data, NEW w \in Writes(s, off, data), w.ok
  PROVE  ~(off + Len(data) > SlotSize) /\ w.slot = Written(s, off, data)
<1>1. CASE off + Len(data) > SlotSize
  <2>1. w = [ok |-> FALSE, slot |-> s]
    BY <1>1 DEF Writes
  <2> QED BY <2>1
<1>2. CASE ~(off + Len(data) > SlotSize) /\ w = [ok |-> TRUE, slot |-> Written(s, off, data)]
  <2>1. w.slot = Written(s, off, data)
    BY <1>2
  <2> QED BY <1>2, <2>1
<1>3. CASE /\ ~(off + Len(data) > SlotSize)
           /\ w # [ok |-> TRUE, slot |-> Written(s, off, data)]
  <2>1. PICK k \in 0..Len(data) :
          w = [ok |-> FALSE, slot |-> Written(s, off, SubSeq(data, 1, k))]
    BY <1>3 DEF Writes
  <2>2. w.ok = FALSE
    BY <2>1
  <2> QED BY <2>2
<1> QED BY <1>1, <1>2, <1>3

\* bm_dfu_process_payload: the page and the slot go on tracking what came.
LEMMA PayloadTracks ==
  ASSUME cl \in ClientCtx, slot \in Slot, Tracks(cl.off, cl.page, cl.got, slot),
         NEW data \in Seq(Byte), NEW p \in Payload(data)
  PROVE  Tracks(p.off, p.page, cl.got \o data, p.slot)
<1> DEFINE buf == cl.page \o data
           all == cl.got \o data
<1>1. cl.page \in Seq(Byte) /\ cl.off \in Nat /\ cl.got \in Seq(Byte)
  BY DEF ClientCtx
<1>2. /\ buf \in Seq(Byte) /\ Len(buf) = Len(cl.page) + Len(data)
      /\ all \in Seq(Byte) /\ Len(all) = Len(cl.got) + Len(data)
  BY <1>1
<1>n. /\ Len(cl.page) \in Nat /\ Len(cl.got) \in Nat /\ Len(data) \in Nat /\ cl.off \in Nat
      /\ Len(buf) = Len(cl.page) + Len(data) /\ Len(all) = Len(cl.got) + Len(data)
  BY <1>1, <1>2
<1>3. cl.off + Len(buf) <= Len(all)
  BY <1>1, <1>2 DEF Tracks
<1>4. ASSUME cl.off + Len(buf) = Len(all)
      PROVE  /\ cl.off <= SlotSize
             /\ \A i \in 1..cl.off : slot[i] = all[i]
             /\ \A i \in 1..Len(buf) : buf[i] = all[cl.off + i]
  <2>1. cl.off + Len(cl.page) = Len(cl.got)
    <3> HIDE DEF buf, all
    <3> QED BY SMTT(30), <1>n, <1>4
  <2>2. /\ cl.off <= SlotSize /\ \A i \in 1..cl.off : slot[i] = cl.got[i]
        /\ \A i \in 1..Len(cl.page) : cl.page[i] = cl.got[cl.off + i]
    BY <2>1 DEF Tracks
  <2>3. ASSUME NEW i \in 1..cl.off PROVE slot[i] = all[i]
    <3>1. i \in 1..Len(cl.got)
      BY <1>1, <2>1
    <3>2. all[i] = cl.got[i]
      BY <1>1, <3>1
    <3> QED BY <2>2, <3>2
  <2>4. ASSUME NEW i \in 1..Len(buf) PROVE buf[i] = all[cl.off + i]
    <3>1. CASE i <= Len(cl.page)
      <4>1. i \in 1..Len(cl.page) /\ cl.off + i \in 1..Len(cl.got)
        BY <1>1, <2>1, <3>1
      <4>2. buf[i] = cl.page[i] /\ all[cl.off + i] = cl.got[cl.off + i]
        BY <1>1, <4>1
      <4> QED BY <2>2, <4>1, <4>2
    <3>2. CASE ~(i <= Len(cl.page))
      <4>1. /\ i - Len(cl.page) \in 1..Len(data)
            /\ (cl.off + i) - Len(cl.got) = i - Len(cl.page)
            /\ cl.off + i > Len(cl.got) /\ cl.off + i <= Len(all) /\ cl.off + i \in Nat
        <5> HIDE DEF buf, all
        <5>1. i \in Nat /\ i <= Len(buf) /\ i > Len(cl.page) /\ Len(buf) \in Nat
          BY <1>n, <3>2
        <5>2. i - Len(cl.page) \in 1..Len(data)
          BY <1>n, <5>1
        <5>3. (cl.off + i) - Len(cl.got) = i - Len(cl.page)
          <6>1. \A o, k, l, m \in Nat : o + l = m => (o + k) - m = k - l
            OBVIOUS
          <6> QED BY <1>n, <2>1, <5>1, <6>1
        <5>4. cl.off + i > Len(cl.got) /\ cl.off + i \in Nat
          <6>1. cl.off + i > cl.off + Len(cl.page) /\ cl.off + i \in Nat
            BY <1>n, <5>1
          <6> QED BY <2>1, <6>1
        <5>5. cl.off + i <= Len(all)
          BY <1>n, <1>4, <5>1
        <5> QED BY <5>2, <5>3, <5>4, <5>5
      <4>2. buf[i] = data[i - Len(cl.page)]
        BY <1>1, <1>2, <3>2
      <4>3. all[cl.off + i] = data[(cl.off + i) - Len(cl.got)]
        BY SMTT(30), <1>1, <1>2, <4>1
      <4> QED BY <4>1, <4>2, <4>3
    <3> QED BY <3>1, <3>2
  <2> QED BY <2>2, <2>3, <2>4
<1>5. CASE data = <<>>
  <2>1. p = [ok |-> FALSE, page |-> cl.page, off |-> cl.off, slot |-> slot]
    BY <1>5 DEF Payload
  <2>2. all = cl.got
    BY <1>1, <1>5
  <2> QED BY <2>1, <2>2
<1>6. CASE data # <<>> /\ Len(buf) < IMG_PAGE_LEN
  <2>1. p = [ok |-> TRUE, page |-> buf, off |-> cl.off, slot |-> slot]
    BY <1>6 DEF Payload
  <2>2. p.page = buf /\ p.off = cl.off /\ p.slot = slot
    BY <2>1
  <2> HIDE DEF buf, all
  <2>3. Tracks(p.off, p.page, all, p.slot)
    BY <1>3, <1>4, <2>2 DEF Tracks
  <2> QED BY <2>3 DEF all
<1>7. CASE data # <<>> /\ ~(Len(buf) < IMG_PAGE_LEN)
  <2> DEFINE full == SubSeq(buf, 1, IMG_PAGE_LEN)
             rest == SubSeq(buf, IMG_PAGE_LEN + 1, Len(buf))
  <2>1. PICK w \in Writes(slot, cl.off, full) :
          p = IF w.ok THEN [ok |-> TRUE, page |-> rest, off |-> cl.off + IMG_PAGE_LEN,
                            slot |-> w.slot]
              ELSE [ok |-> FALSE, page |-> <<>>, off |-> cl.off, slot |-> w.slot]
    BY <1>7 DEF Payload
  <2> HIDE DEF buf, all
  <2>2. IMG_PAGE_LEN \in Nat /\ IMG_PAGE_LEN > 0 /\ SlotSize \in Nat
    BY DfuAssumption
  <2>3. /\ full \in Seq(Byte) /\ Len(full) = IMG_PAGE_LEN
        /\ \A i \in 1..IMG_PAGE_LEN : full[i] = buf[i]
    BY <1>2, <1>7, <2>2
  <2>4. /\ rest \in Seq(Byte) /\ Len(rest) = Len(buf) - IMG_PAGE_LEN
        /\ \A i \in 1..Len(rest) : rest[i] = buf[IMG_PAGE_LEN + i]
    BY <1>2, <1>7, <2>2
  <2> HIDE DEF full, rest
  <2>5. CASE ~w.ok
    <3>1. p.page = <<>> /\ p.off = cl.off /\ Len(p.page) = 0
      BY <2>1, <2>5
    <3>2. Tracks(p.off, p.page, all, p.slot)
      BY SMTT(30), <1>1, <1>2, <1>3, <1>7, <2>2, <3>1 DEF Tracks
    <3> QED BY <3>2 DEF all
  <2>6. CASE w.ok
    <3>1. p.page = rest /\ p.off = cl.off + IMG_PAGE_LEN /\ p.slot = w.slot
      BY <2>1, <2>6
    <3>2. cl.off + IMG_PAGE_LEN <= SlotSize /\ w.slot = Written(slot, cl.off, full)
      BY <1>1, <2>2, <2>3, <2>6, WriteStores
    <3>3. p.off + Len(p.page) = cl.off + Len(buf)
      BY <1>1, <1>2, <2>2, <2>4, <3>1
    <3>4. ASSUME cl.off + Len(buf) = Len(all), NEW i \in 1..p.off PROVE p.slot[i] = all[i]
      <4>1. i \in 1..SlotSize
        BY <1>1, <2>2, <3>1, <3>2
      <4>2. p.slot[i] = IF i > cl.off /\ i <= cl.off + Len(full) THEN full[i - cl.off] ELSE slot[i]
        BY <3>1, <3>2, <4>1 DEF Written
      <4>3. CASE i > cl.off
        <5>1. i - cl.off \in 1..IMG_PAGE_LEN /\ i <= cl.off + Len(full)
              /\ i - cl.off \in 1..Len(buf) /\ cl.off + (i - cl.off) = i
          BY SMTT(30), <1>1, <1>2, <1>7, <2>2, <2>3, <3>1, <4>3
        <5>2. buf[i - cl.off] = all[i]
          BY <1>4, <3>4, <5>1
        <5> QED BY <2>3, <4>2, <4>3, <5>1, <5>2
      <4>4. CASE ~(i > cl.off)
        <5>1. i \in 1..cl.off
          BY <1>1, <4>4
        <5> QED BY <1>4, <3>4, <4>2, <4>4, <5>1
      <4> QED BY <4>3, <4>4
    <3>5. ASSUME cl.off + Len(buf) = Len(all), NEW i \in 1..Len(p.page)
          PROVE  p.page[i] = all[p.off + i]
      <4>1. IMG_PAGE_LEN + i \in 1..Len(buf) /\ cl.off + (IMG_PAGE_LEN + i) = p.off + i
        BY <1>1, <1>2, <1>7, <2>2, <2>4, <3>1
      <4>2. buf[IMG_PAGE_LEN + i] = all[p.off + i]
        BY <1>4, <3>5, <4>1
      <4> QED BY <2>4, <3>1, <4>2
    <3>6. Tracks(p.off, p.page, all, p.slot)
      BY <1>3, <3>1, <3>2, <3>3, <3>4, <3>5 DEF Tracks
    <3> QED BY <3>6 DEF all
  <2> QED BY <2>5, <2>6
<1> QED BY <1>5, <1>6, <1>7

\* bm_dfu_process_end: an end that succeeds leaves nothing in the page.
LEMMA EndingStores ==
  ASSUME NEW p, NEW got \in Seq(Byte), p.page \in Seq(Byte), p.off \in Nat, p.slot \in Slot,
         Tracks(p.off, p.page, got, p.slot), NEW e \in Ending(p), e.ok
  PROVE  Stored(e.off, got, e.slot)
<1>1. CASE p.page = <<>>
  <2>1. e = [ok |-> TRUE, off |-> p.off, slot |-> p.slot]
    BY <1>1 DEF Ending
  <2>2. Len(p.page) = 0 /\ e.off = p.off /\ e.slot = p.slot
    BY <1>1, <2>1
  <2> QED BY <2>2 DEF Tracks, Stored
<1>2. CASE p.page # <<>>
  <2>1. PICK w \in Writes(p.slot, p.off, p.page) :
          e = [ok |-> w.ok, off |-> IF w.ok THEN p.off + Len(p.page) ELSE p.off,
               slot |-> w.slot]
    BY <1>2 DEF Ending
  <2>2. w.ok /\ e.off = p.off + Len(p.page) /\ e.slot = w.slot
    BY <2>1
  <2>3. ~(e.off > SlotSize) /\ e.slot = Written(p.slot, p.off, p.page)
    BY <2>2, WriteStores
  <2>4. e.off <= Len(got) /\ e.off <= SlotSize /\ e.off \in Nat
    BY <2>2, <2>3, DfuAssumption DEF Tracks
  <2>5. ASSUME e.off = Len(got), NEW i \in 1..e.off PROVE e.slot[i] = got[i]
    <3>1. i \in 1..SlotSize
      BY <2>4, DfuAssumption
    <3>2. e.slot[i] = IF i > p.off /\ i <= p.off + Len(p.page) THEN p.page[i - p.off] ELSE p.slot[i]
      BY <2>3, <3>1 DEF Written
    <3>3. CASE i > p.off
      <4>1. i - p.off \in 1..Len(p.page) /\ p.off + (i - p.off) = i /\ i <= p.off + Len(p.page)
        BY <2>2, <2>4, <3>3
      <4> QED BY <2>2, <2>5, <3>2, <3>3, <4>1 DEF Tracks
    <3>4. CASE ~(i > p.off)
      <4>1. i \in 1..p.off
        BY <2>4, <3>4
      <4> QED BY <2>2, <2>5, <3>2, <3>4, <4>1 DEF Tracks
    <3> QED BY <3>3, <3>4
  <2> QED BY <2>4, <2>5 DEF Stored
<1> QED BY <1>1, <1>2

\* An empty transfer tracks what came: nothing.
LEMMA RestartTracks ==
  ASSUME cl \in ClientCtx, cl' = Restarted(cl)
  PROVE  Tracks(cl'.off, cl'.page, cl'.got, slot')
<1>1. cl'.off = 0 /\ cl'.page = <<>> /\ cl'.got = <<>>
  BY DEF Restarted, ClientCtx
<1>2. Len(<<>>) = 0
  OBVIOUS
<1> QED BY <1>1, <1>2, DfuAssumption DEF Tracks

\* The client's and the slot's part of ImageInv is of these alone.
ImageVars == <<cl.off, cl.page, cl.got, cl.size, cl.crc, slot>>

\* Counting a retry touches nothing of the image.
LEMMA RetryImageVars ==
  ASSUME cl \in ClientCtx, NEW n, cl' = [cl EXCEPT !.retries = n], slot' = slot
  PROVE  ImageVars' = ImageVars
BY DEF ImageVars, ClientCtx

\* Every handler keeps what the client knows of its slot true (Dfu::run_state).
LEMMA RunImage ==
  ASSUME TypeOK, PendingInv, ImageInv, RunState
  PROVE  ImageInv'
<1> USE Unpack
<1>1. CASE /\ state \notin {"ClientReceiving", "ClientValidating", "ClientRebootReq",
                            "ClientActivating"}
           /\ state' = state /\ reset' \in {reset, "Fail"}
  BY <1>1 DEF ImageInv
<1>2. CASE InitRun \/ IdleBeginHost \/ UpdateDoneEnd
  BY <1>1, <1>2 DEF InitRun, IdleBeginHost, UpdateDoneEnd, Running, StepVars
<1>3. CASE RefuseSameVersion \/ RefuseChunkSize \/ RefuseFlash \/ RefuseTooLarge \/ AcceptOffer
  BY <1>1, <1>3 DEF RefuseSameVersion, RefuseChunkSize, RefuseFlash, RefuseTooLarge,
                    AcceptOffer, OfferRun, Running, StepVars
<1>4. CASE UpdateDoneTimeout
  BY <1>1, <1>4 DEF UpdateDoneTimeout, Retry, FailUpdate, Running, StepVars
<1>5. CASE HostReqAck \/ HostReqTimeout \/ HostAbort \/ ChunkUnread
  BY <1>1, <1>5 DEF HostReqAck, HostReqTimeout, HostAbort, ChunkUnread, Running, StepVars
<1>6. CASE ServeInternal \/ ServeStream \/ HostUpdateReboot \/ HostUpdateBooted \/ HostUpdateEnd
  BY <1>1, <1>6 DEF ServeInternal, ServeStream, HostUpdateReboot, HostUpdateBooted,
                    HostUpdateEnd, Running, StepVars
<1>7. CASE RunIgnored
  BY <1>7 DEF RunIgnored, StepVars, roleVars, ImageInv, Complete
<1>8. CASE ReceiveChunk
  <2>1. event.body \in Body /\ event.body.data \in Seq(Byte)
    BY <1>8, BodyFacts, BodyFields DEF ReceiveChunk, ChunkRun, Running, MessageKind
  <2>2. /\ state = "ClientReceiving" /\ state' = state /\ pending = NoState
        /\ Tracks(cl.off, cl.page, cl.got, slot) /\ reset # "Pending" /\ reset' = reset
    BY <1>8 DEF ReceiveChunk, ChunkRun, Running, StepVars, PendingInv, ImageInv
  <2>3. PICK p \in Payload(event.body.data) :
          /\ slot' = p.slot /\ cl' = WithChunk(p, p.off)
          /\ \/ p.ok /\ UNCHANGED <<pending, queue, core>>
             \/ ~p.ok /\ ToError(BM_FRAME)
    BY <1>8 DEF ReceiveChunk
  <2>4. Tracks(p.off, p.page, cl.got \o event.body.data, p.slot)
    BY <2>1, <2>2, PayloadTracks
  <2>5. cl'.off = p.off /\ cl'.page = p.page /\ cl'.got = cl.got \o event.body.data
    BY <2>3 DEF WithChunk, ClientCtx
  <2>6. Tracks(cl'.off, cl'.page, cl'.got, slot')
    BY <2>3, <2>4, <2>5
  <2>7. pending' \in {NoState, "Error"}
    BY <2>2, <2>3 DEF ToError, SetPending
  <2> QED BY <2>2, <2>6, <2>7 DEF ImageInv, NoState
<1>9. CASE ReceiveLastChunk
  <2>1. event.body \in Body /\ event.body.data \in Seq(Byte)
    BY <1>9, BodyFacts, BodyFields DEF ReceiveLastChunk, ChunkRun, Running, MessageKind
  <2>2. /\ state = "ClientReceiving" /\ state' = state /\ pending = NoState
        /\ Tracks(cl.off, cl.page, cl.got, slot) /\ reset # "Pending" /\ reset' = reset
    BY <1>9 DEF ReceiveLastChunk, ChunkRun, Running, StepVars, PendingInv, ImageInv
  <2>3. PICK p \in Payload(event.body.data) : \E e \in Ending(p) :
          /\ slot' = e.slot /\ cl' = WithChunk(p, e.off)
          /\ pending' = IF e.ok THEN "ClientValidating" ELSE "Error"
    BY <1>9 DEF ReceiveLastChunk, SetPending
  <2>4. PICK e \in Ending(p) :
          /\ slot' = e.slot /\ cl' = WithChunk(p, e.off)
          /\ pending' = IF e.ok THEN "ClientValidating" ELSE "Error"
    BY <2>3
  <2>5. Tracks(p.off, p.page, cl.got \o event.body.data, p.slot)
    BY <2>1, <2>2, PayloadTracks
  <2>6. cl'.off = e.off /\ cl'.got = cl.got \o event.body.data
    BY <2>4 DEF WithChunk, ClientCtx
  <2>7. p.page \in Seq(Byte) /\ p.off \in Nat /\ p.slot \in Slot
    BY <2>1, PayloadFacts
  <2>8. cl.got \o event.body.data \in Seq(Byte)
    BY <2>1 DEF ClientCtx
  <2>9. e.ok => Stored(cl'.off, cl'.got, slot')
    BY <2>4, <2>5, <2>6, <2>7, <2>8, EndingStores
  <2> QED BY <2>2, <2>4, <2>9 DEF ImageInv, NoState
<1>10. CASE ReceivingTimeout \/ RebootReqTimeout
  <2>1. /\ state \in {"ClientReceiving", "ClientRebootReq"} /\ state' = state /\ pc = "run"
        /\ cl' = [cl EXCEPT !.retries = Retried(cl.retries)] /\ slot' = slot
        /\ pending' \in {pending, "Error"} /\ reset' = reset
    BY <1>10 DEF ReceivingTimeout, RebootReqTimeout, Retry, TimedOut, ToError, SetPending,
                 Running, StepVars
  <2>2. ImageVars' = ImageVars
    BY <2>1, RetryImageVars
  <2>3. pending = NoState
    BY <2>1 DEF PendingInv
  <2> QED BY <2>1, <2>2, <2>3 DEF ImageInv, ImageVars, Complete
<1>11. CASE ReceivingRestart
  <2>1. /\ state = "ClientReceiving" /\ state' = state /\ pc = "run" /\ pending' = pending
        /\ cl' = Restarted(cl) /\ reset' = reset
    BY <1>11 DEF ReceivingRestart, Running, StepVars
  <2>2. pending = NoState
    BY <2>1 DEF PendingInv
  <2> QED BY <2>1, <2>2, RestartTracks DEF ImageInv, NoState
<1>12. CASE ReceivingHeartbeat
  BY <1>12 DEF ReceivingHeartbeat, Running, StepVars, roleVars, ImageInv, Complete
<1>13. CASE RebootReqReboot
  BY <1>13 DEF RebootReqReboot, Running, StepVars, roleVars, SetPending, ImageInv, Complete
<1> QED BY <1>2, <1>3, <1>4, <1>5, <1>6, <1>7, <1>8, <1>9, <1>10, <1>11, <1>12, <1>13 DEF RunState

\* Every entry keeps it true (Dfu::enter_state).
LEMMA EnterImage ==
  ASSUME TypeOK, PendingInv, ImageInv, EnterState
  PROVE  ImageInv'
<1> USE Unpack
<1>1. CASE /\ state \notin {"ClientReceiving", "ClientValidating", "ClientRebootReq",
                            "ClientActivating"}
           /\ state' = state /\ reset' \in {reset, "Fail"}
  BY <1>1 DEF ImageInv
<1>2. CASE EnterIdle \/ EnterError \/ EnterHostReqUpdate \/ EnterHostUpdate
  BY <1>1, <1>2 DEF EnterIdle, EnterError, EnterHostReqUpdate, EnterHostUpdate, Entering, EnterVars
<1>3. CASE EnterWrongVersion \/ EnterBootComplete \/ EnterUnasked
  BY <1>1, <1>3 DEF EnterWrongVersion, EnterBootComplete, EnterUnasked, RebootDoneEntry,
                    FailUpdate, Entering, EnterVars
<1>4. CASE EnterReceiving
  <2>1. /\ state = "ClientReceiving" /\ state' = state /\ pending = NoState
        /\ pending' = pending /\ cl' = Restarted(cl) /\ reset' = reset
    BY <1>4 DEF EnterReceiving, Entering, EnterVars, PendingInv
  <2> QED BY <2>1, RestartTracks DEF ImageInv, NoState
<1>5. CASE EnterValidating
  <2>1. /\ state = "ClientValidating" /\ state' = state /\ pc' = "done" /\ reset' = reset
        /\ cl' = cl /\ slot' = slot /\ Stored(cl.off, cl.got, slot)
    BY <1>5 DEF EnterValidating, Entering, Entered, EnterVars, roleVars, flashVars, ImageInv
  <2>2. pending' = "ClientRebootReq" => cl.off = cl.size /\ cl.got = cl.crc
    BY <1>5 DEF EnterValidating, LengthMatches, ToError, SetPending
  <2> QED BY <2>1, <2>2 DEF ImageInv, Complete
<1>6. CASE EnterRebootReq
  <2>1. /\ state = "ClientRebootReq" /\ state' = state /\ reset' = reset
        /\ cl' = [cl EXCEPT !.retries = 0] /\ slot' = slot
    BY <1>6 DEF EnterRebootReq, Entering, EnterVars, flashVars
  <2>2. ImageVars' = ImageVars
    BY <2>1, RetryImageVars
  <2> QED BY <2>1, <2>2 DEF ImageInv, ImageVars, Complete
<1>7. CASE EnterActivating
  BY <1>7 DEF EnterActivating, Entering, EnterVars, roleVars, flashVars, ImageInv, Complete
<1> QED BY <1>2, <1>3, <1>4, <1>5, <1>6, <1>7 DEF EnterState

\* So do the steps that run no handler.
LEMMA RestImage ==
  ASSUME TypeOK, PendingInv, ImageInv, [Next]_vars, ~RunState, ~EnterState
  PROVE  ImageInv'
<1> USE Unpack
<1>1. CASE UNCHANGED <<state, pending, pc, cl, slot, reset>>
  BY <1>1 DEF ImageInv, Complete
<1>2. ASSUME NEW m \in Messages, OnMessage(m) PROVE ImageInv'
  BY <1>1, <1>2 DEF OnMessage, roleVars, nodeVars, flashVars
<1>3. ASSUME NEW r \in Requests, InitiateUpdate(r) \/ RefuseUpdate(r) PROVE ImageInv'
  BY <1>1, <1>3 DEF InitiateUpdate, RefuseUpdate, coreVars, roleVars, nodeVars, flashVars
<1>4. ASSUME NEW d \in Feeds, HostQueueData(d) PROVE ImageInv'
  BY <1>1, <1>4 DEF HostQueueData, coreVars, nodeVars, flashVars
<1>5. CASE TakeUpdateFinished \/ Transmit
  BY <1>1, <1>5 DEF TakeUpdateFinished, Transmit, coreVars, roleVars, flashVars
<1>6. ASSUME NEW t \in Timer, TimerDue(t) PROVE ImageInv'
  BY <1>1, <1>6 DEF TimerDue, roleVars, nodeVars, flashVars
<1>7. CASE Pop
  BY <1>7 DEF Pop, Steppable, roleVars, nodeVars, flashVars, ImageInv, Complete
<1>8. CASE KeepState
  <2>1. pending = NoState
    BY <1>8 DEF KeepState, PendingInv, Moves
  <2> QED BY <1>8, <2>1 DEF KeepState, roleVars, nodeVars, flashVars, ImageInv, Complete
<1>9. CASE ChangeState
  <2>1. /\ state' = pending /\ pending' = NoState /\ pc' = "enter" /\ cl' = cl /\ slot' = slot
        /\ reset' = reset /\ Moves(state, pending)
    BY <1>9 DEF ChangeState, nodeVars, flashVars, PendingInv
  <2>2. reset # "Pending"
    BY <2>1 DEF ImageInv, Moves
  <2>3. pending = "ClientValidating" => Stored(cl.off, cl.got, slot)
    BY <2>1 DEF ImageInv, Moves
  <2>4. pending \in {"ClientRebootReq", "ClientActivating"} => Complete
    BY <2>1 DEF ImageInv, Moves
  <2> QED BY <2>1, <2>2, <2>3, <2>4 DEF ImageInv, Complete, NoState
<1>10. CASE EndStep
  BY <1>10 DEF EndStep, roleVars, flashVars, ImageInv, Complete
<1>11. ASSUME NEW pend, NEW ram, Reboot(pend, ram) PROVE ImageInv'
  BY <1>11 DEF Reboot, ImageInv, NoReset
<1>12. CASE TakeReset \/ CommitReset \/ Crash
  BY <1>11, <1>12 DEF TakeReset, CommitReset, Crash
<1>13. CASE UNCHANGED vars
  BY <1>1, <1>13 DEF vars, coreVars, roleVars, nodeVars, flashVars
<1> QED BY <1>2, <1>3, <1>4, <1>5, <1>6, <1>7, <1>8, <1>9, <1>10, <1>12, <1>13
        DEF Next, Step, Environment, Wait

\* When the client asks to boot the update, the slot holds the image it was
\* offered, byte for byte: for every image, chunking and page size, whatever
\* the host sends and however often writes fail or the node crashes.
THEOREM ActivatesOnlyOffered == Spec => []ActivatesOfferedImage
<1>1. Init => ImageInv
  BY DEF Init, ImageInv, NoReset
<1>2. TypeOK /\ PendingInv /\ ImageInv /\ [Next]_vars => ImageInv'
  BY RunImage, EnterImage, RestImage
<1>3. TypeOK /\ ImageInv => ActivatesOfferedImage
  BY Unpack DEF ImageInv, Complete, Stored, ActivatesOfferedImage, ClientCtx
<1> QED BY <1>1, <1>2, <1>3, TypeCorrect, PendingWakes, PTL DEF Spec

------------------------------------------------------------------------------
\* Error with a fatal error asks for no change, once it is entered.
FatalInv ==
  state = "Error" /\ core.error >= FLASH_ACCESS /\ pc # "enter" => pending = NoState

\* No step leaves a fatal Error but a reset (s_error_entry).
LEMMA FatalStep ==
  ASSUME TypeOK, PendingInv, FatalInv, [Next]_vars
  PROVE  FatalInv' /\ (state = "Error" /\ core.error >= FLASH_ACCESS => state' \in {"Error", "Init"})
<1> DEFINE Goal == FatalInv' /\ (state = "Error" /\ core.error >= FLASH_ACCESS
                                   => state' \in {"Error", "Init"})
<1>1. CASE state' = state /\ pending' = pending /\ core'.error = core.error
           /\ (pc = "enter" => pc' = "enter")
  BY <1>1 DEF FatalInv
<1>2. CASE RunState
  <2>1. state' = state
    BY <1>2 DEF RunState, InitRun, IdleBeginHost, RefuseSameVersion, RefuseChunkSize, RefuseFlash,
         RefuseTooLarge, AcceptOffer, ReceiveChunk, ReceiveLastChunk, ReceivingTimeout,
         ReceivingRestart, ReceivingHeartbeat, RebootReqReboot, RebootReqTimeout, UpdateDoneEnd,
         UpdateDoneTimeout, HostReqAck, HostReqTimeout, HostAbort, ServeInternal, ServeStream,
         ChunkUnread, HostUpdateReboot, HostUpdateBooted, HostUpdateEnd, RunIgnored,
         OfferRun, ChunkRun, Retry, Running, StepVars
  <2>2. CASE state = "Error"
    <3>1. RunIgnored
      BY <1>2, <2>2 DEF RunState, InitRun, IdleBeginHost, RefuseSameVersion, RefuseChunkSize,
         RefuseFlash, RefuseTooLarge, AcceptOffer, ReceiveChunk, ReceiveLastChunk,
         ReceivingTimeout, ReceivingRestart, ReceivingHeartbeat, RebootReqReboot,
         RebootReqTimeout, UpdateDoneEnd, UpdateDoneTimeout, HostReqAck, HostReqTimeout,
         HostAbort, ServeInternal, ServeStream, ChunkUnread, HostUpdateReboot,
         HostUpdateBooted, HostUpdateEnd, OfferRun, ChunkRun, Retry, Running
    <3> QED BY <1>1, <2>1, <3>1 DEF RunIgnored
  <2> QED BY <2>1, <2>2 DEF FatalInv
<1>3. CASE EnterState
  <2>1. state' = state
    BY <1>3 DEF EnterState, EnterIdle, EnterError, EnterReceiving, EnterValidating,
         EnterRebootReq, EnterActivating, EnterWrongVersion, EnterBootComplete, EnterUnasked,
         EnterHostReqUpdate, EnterHostUpdate, EnterVars
  <2>2. CASE state = "Error"
    <3>1. EnterError
      BY <1>3, <2>2 DEF EnterState, EnterIdle, EnterReceiving, EnterValidating,
         EnterRebootReq, EnterActivating, EnterWrongVersion, EnterBootComplete, EnterUnasked,
         EnterHostReqUpdate, EnterHostUpdate, RebootDoneEntry, Entering
    <3> QED BY <2>1, <3>1 DEF EnterError, IsFatal, FatalInv, PendingInv, Entering
  <2> QED BY <2>1, <2>2 DEF FatalInv
<1>4. ASSUME NEW r \in Requests, InitiateUpdate(r) \/ RefuseUpdate(r) PROVE Goal
  <2>1. core'.error = core.error
    BY <1>4, Unpack DEF InitiateUpdate, RefuseUpdate, coreVars, CoreRec
  <2> QED BY <1>1, <1>4, <2>1 DEF InitiateUpdate, RefuseUpdate, coreVars
<1>5. CASE \/ \E m \in Messages : OnMessage(m)
           \/ \E d \in Feeds : HostQueueData(d)
           \/ \E t \in Timer : TimerDue(t)
           \/ TakeUpdateFinished \/ Transmit \/ UNCHANGED vars
  BY <1>1, <1>5 DEF OnMessage, HostQueueData, TimerDue, TakeUpdateFinished, Transmit, vars, coreVars
<1>6. CASE Pop \/ EndStep
  BY <1>1, <1>6 DEF Pop, Steppable, EndStep
<1>7. CASE KeepState
  BY <1>7 DEF KeepState, FatalInv
<1>8. CASE ChangeState
  BY <1>8 DEF ChangeState, FatalInv
<1>9. CASE TakeReset \/ CommitReset \/ Crash
  BY <1>9 DEF TakeReset, CommitReset, Crash, Reboot, FatalInv
<1> QED BY <1>2, <1>3, <1>4, <1>5, <1>6, <1>7, <1>8, <1>9 DEF Next, Step, Environment, Wait

\* Once in Error with a fatal error the machine stays there until the node is
\* reset (s_error_entry asks for Idle only after an error that is not fatal).
THEOREM FatalStays == Spec => FatalIsFinal
<1>1. Init => FatalInv
  BY DEF Init, FatalInv
<1>2. TypeOK /\ PendingInv /\ FatalInv /\ [Next]_vars => FatalInv'
  BY FatalStep
<1>3. TypeOK /\ PendingInv /\ FatalInv /\ [Next]_vars =>
        [state = "Error" /\ core.error >= FLASH_ACCESS => state' \in {"Error", "Init"}]_vars
  BY FatalStep
<1> QED BY <1>1, <1>2, <1>3, TypeCorrect, PendingWakes, PTL DEF Spec, FatalIsFinal

------------------------------------------------------------------------------
(* A finish callback is owed to one accepted initiate_update at most.      *)

\* Where the update that owes it is: queued, begun, under way or failing.
\* Node::run_app leaves at most one report for the application to take.
OwedInv ==
  owed > 0 =>
    /\ owed = 1 /\ Len(finished) <= 1
    /\ \/ /\ state = "Idle" /\ pc = "ready" /\ pending = NoState /\ queue # <<>>
          /\ Head(queue).kind = "BeginHost" /\ Head(queue).body.notify
       \/ state = "Idle" /\ pc = "run" /\ event.kind = "BeginHost" /\ event.body.notify
       \/ state = "Idle" /\ pc = "take" /\ pending = "HostReqUpdate" /\ core.notify /\ ho.notify
       \/ IsHost(state) /\ pending # "Idle" /\ core.notify /\ ho.notify
       \/ state = "Error" /\ pc = "enter" /\ core.notify

\* A push leaves the head of a queue that has one where it is.
LEMMA PutHead ==
  ASSUME NEW S, NEW q \in Seq(S), q # <<>>, NEW e, NEW n
  PROVE  Put(q, e, n) # <<>> /\ Head(Put(q, e, n)) = Head(q)
BY DEF Put

\* A callback that is owed and asked for is made.
LEMMA NotifyPays ==
  ASSUME TypeOK, OwedInv, FINISHED_LEN >= 2,
         owed' = IF owed > 0 /\ Len(finished) < FINISHED_LEN THEN owed - 1 ELSE owed
  PROVE  ~(owed' > 0)
<1>1. owed \in Nat /\ Len(finished) \in Nat /\ FINISHED_LEN \in Nat
  BY Unpack, DfuAssumption
<1> QED BY <1>1 DEF OwedInv

\* The handlers of a host keep who asked, until they make the callback.
LEMMA RunOwed ==
  ASSUME TypeOK, PendingInv, OwedInv, FINISHED_LEN >= 2, RunState
  PROVE  OwedInv'
<1> USE Unpack
<1> SUFFICES ASSUME owed' > 0 PROVE OwedInv'
  BY DEF OwedInv
<1>1. CASE HostUpdateEnd
  <2>1. CASE event.body.whole
    <3>1. /\ owed' = IF ho.notify /\ owed > 0 /\ Len(finished) < FINISHED_LEN THEN owed - 1 ELSE owed
          /\ pc = "run" /\ state = "HostUpdate"
      BY <1>1, <2>1 DEF HostUpdateEnd, Notify, Running
    <3>2. owed > 0
      BY <3>1
    <3>3. ho.notify
      BY <3>1, <3>2 DEF OwedInv, IsHost
    <3> QED BY <3>1, <3>3, NotifyPays
  <2>2. CASE ~event.body.whole
    BY <1>1, <2>2 DEF HostUpdateEnd, Running, OwedInv, StepVars, IsHost, roleVars
  <2> QED BY <2>1, <2>2
<1>2. CASE IdleBeginHost
  <2>1. /\ state = "Idle" /\ pc = "run" /\ event.kind = "BeginHost" /\ owed' = owed
        /\ finished' = finished /\ state' = state /\ pc' = "take" /\ pending' = "HostReqUpdate"
        /\ core' = [core EXCEPT !.notify = event.body.notify, !.client = event.body.dst]
        /\ ho' = [ho EXCEPT !.notify = event.body.notify]
    BY <1>2 DEF IdleBeginHost, Running, SetPending, StepVars
  <2>2. event.body.notify
    BY <2>1 DEF OwedInv, IsHost
  <2>3. core'.notify = event.body.notify /\ ho'.notify = event.body.notify
    BY <2>1 DEF CoreRec, HostCtx
  <2> QED BY <2>1, <2>2, <2>3 DEF OwedInv
<1>3. CASE HostReqAck \/ HostReqTimeout \/ HostAbort \/ ServeInternal \/ ServeStream
           \/ ChunkUnread \/ HostUpdateReboot \/ HostUpdateBooted
  <2>1. /\ owed' = owed /\ finished' = finished /\ state' = state /\ IsHost(state)
        /\ pc = "run" /\ pending' \in {pending, "HostUpdate", "Error"}
    BY <1>3 DEF HostReqAck, HostReqTimeout, HostAbort, ServeInternal, ServeStream, ChunkUnread,
                HostUpdateReboot, HostUpdateBooted, Running, StepVars, HostError, ToError,
                SetPending, IsHost
  <2>2. core'.notify = core.notify
    BY <1>3 DEF HostReqAck, HostReqTimeout, HostAbort, ServeInternal, ServeStream, ChunkUnread,
                HostUpdateReboot, HostUpdateBooted, HostError, ToError, CoreRec
  <2>3. ho'.notify = ho.notify
    BY <1>3 DEF HostReqAck, HostReqTimeout, HostAbort, ServeInternal, ServeStream, ChunkUnread,
                HostUpdateReboot, HostUpdateBooted, HostCtx, roleVars
  <2> QED BY <2>1, <2>2, <2>3 DEF OwedInv, IsHost
<1>4. CASE RunIgnored
  BY <1>4 DEF RunIgnored, Handled, OwedInv, IsHost, StepVars, roleVars
<1>5. CASE \/ InitRun \/ RefuseSameVersion \/ RefuseChunkSize \/ RefuseFlash \/ RefuseTooLarge
           \/ AcceptOffer \/ ReceiveChunk \/ ReceiveLastChunk \/ ReceivingTimeout
           \/ ReceivingRestart \/ ReceivingHeartbeat \/ RebootReqReboot \/ RebootReqTimeout
           \/ UpdateDoneEnd \/ UpdateDoneTimeout
  <2>1. /\ pc = "run" /\ owed' = owed /\ ~IsHost(state)
        /\ ~(state = "Idle" /\ event.kind = "BeginHost")
    BY <1>5 DEF InitRun, RefuseSameVersion, RefuseChunkSize, RefuseFlash, RefuseTooLarge,
                AcceptOffer, ReceiveChunk, ReceiveLastChunk, ReceivingTimeout, ReceivingRestart,
                ReceivingHeartbeat, RebootReqReboot, RebootReqTimeout, UpdateDoneEnd,
                UpdateDoneTimeout, OfferRun, ChunkRun, Retry, Running, IsHost
  <2> QED BY <2>1 DEF OwedInv
<1> QED BY <1>1, <1>2, <1>3, <1>4, <1>5 DEF RunState

\* So do the entries; the one of Error makes the callback.
LEMMA EnterOwed ==
  ASSUME TypeOK, PendingInv, OwedInv, FINISHED_LEN >= 2, EnterState
  PROVE  OwedInv'
<1> USE Unpack
<1> SUFFICES ASSUME owed' > 0 PROVE OwedInv'
  BY DEF OwedInv
<1>1. CASE EnterError
  <2>1. /\ owed' = IF core.notify /\ owed > 0 /\ Len(finished) < FINISHED_LEN THEN owed - 1 ELSE owed
        /\ state = "Error" /\ pc = "enter"
    BY <1>1 DEF EnterError, Notify, Entering
  <2>2. owed > 0
    BY <2>1
  <2>3. core.notify
    BY <2>1, <2>2 DEF OwedInv, IsHost
  <2> QED BY <2>1, <2>3, NotifyPays
<1>2. CASE EnterHostReqUpdate \/ EnterHostUpdate
  <2>1. /\ owed' = owed /\ finished' = finished /\ state' = state /\ IsHost(state)
        /\ pending' = pending /\ core' = core
    BY <1>2 DEF EnterHostReqUpdate, EnterHostUpdate, Entering, EnterVars, IsHost
  <2>2. ho'.notify = ho.notify
    BY <1>2 DEF EnterHostReqUpdate, EnterHostUpdate, HostCtx, roleVars
  <2> QED BY <2>1, <2>2 DEF OwedInv, IsHost
<1>3. CASE \/ EnterIdle \/ EnterReceiving \/ EnterValidating \/ EnterRebootReq \/ EnterActivating
           \/ EnterWrongVersion \/ EnterBootComplete \/ EnterUnasked
  <2>1. pc = "enter" /\ owed' = owed /\ ~IsHost(state) /\ state # "Error"
    BY <1>3 DEF EnterIdle, EnterReceiving, EnterValidating, EnterRebootReq, EnterActivating,
                EnterWrongVersion, EnterBootComplete, EnterUnasked, RebootDoneEntry, Entering,
                IsHost
  <2> QED BY <2>1 DEF OwedInv
<1> QED BY <1>1, <1>2, <1>3 DEF EnterState

\* A call from the application is taken only when nothing is owed, or queues no
\* update; every other step moves the update that owes the callback along.
LEMMA RestOwed ==
  ASSUME TypeOK, PendingInv, OwedInv, Drained, [Next]_vars, ~RunState, ~EnterState
  PROVE  OwedInv'
<1> USE Unpack
<1> SUFFICES ASSUME owed' > 0 PROVE OwedInv'
  BY DEF OwedInv
<1>q. queue \in Seq(Events)
  BY DEF QueueOK
<1>1. CASE UNCHANGED <<state, pc, pending, core, ho, event, owed, finished>>
           /\ (queue # <<>> => queue' # <<>> /\ Head(queue') = Head(queue))
  BY <1>1 DEF OwedInv, IsHost
<1>2. ASSUME NEW m \in Messages, OnMessage(m) PROVE OwedInv'
  <2>1. queue = <<>>
    BY <1>2 DEF OnMessage, Input, Callable, AtRest
  <2> QED BY <1>1, <1>2, <2>1 DEF OnMessage, roleVars, nodeVars
<1>3. ASSUME NEW r \in Requests, InitiateUpdate(r) PROVE OwedInv'
  <2>1. /\ queue = <<>> /\ finished = <<>> /\ state = "Idle" /\ pc = "ready"
    BY <1>3 DEF InitiateUpdate, Input, Callable, AtRest
  <2>2. owed = 0
    <3>1. owed \in Nat
      OBVIOUS
    <3> QED BY <2>1, <3>1 DEF OwedInv, IsHost
  <2>3. r.notify /\ owed' = 1
    BY <1>3, <2>2 DEF InitiateUpdate
  <2>4. queue' # <<>> /\ Head(queue') = Event("BeginHost", r)
    BY <1>3, <2>1 DEF InitiateUpdate
  <2>5. Head(queue').kind = "BeginHost" /\ Head(queue').body = r
    BY <2>4 DEF Event
  <2>6. finished' = <<>> /\ Len(finished') <= 1 /\ state' = "Idle" /\ pc' = "ready"
        /\ pending' = NoState
    BY <1>3, <2>1 DEF InitiateUpdate, nodeVars, PendingInv
  <2> QED BY <2>3, <2>4, <2>5, <2>6 DEF OwedInv
<1>4. ASSUME NEW r \in Requests, RefuseUpdate(r) PROVE OwedInv'
  <2>1. finished = <<>>
    BY <1>4 DEF RefuseUpdate, Input, Callable
  <2>2. Len(finished') <= 1
    BY <1>4, <2>1 DEF RefuseUpdate, UpdateFinished, Put
  <2> QED BY <1>4, <2>2 DEF RefuseUpdate, coreVars, roleVars, OwedInv, IsHost
<1>5. ASSUME NEW d \in Feeds, HostQueueData(d) PROVE OwedInv'
  <2>1. ho'.notify = ho.notify
    BY <1>5 DEF HostQueueData, HostCtx
  <2> QED BY <1>5, <2>1 DEF HostQueueData, coreVars, nodeVars, OwedInv, IsHost
<1>6. CASE TakeUpdateFinished
  <2>1. Len(finished) <= 1 => Len(finished') <= 1
    BY <1>6 DEF TakeUpdateFinished
  <2> QED BY <1>6, <2>1 DEF TakeUpdateFinished, coreVars, roleVars, OwedInv, IsHost
<1>7. CASE Transmit \/ UNCHANGED vars
  BY <1>1, <1>7 DEF Transmit, vars, coreVars, roleVars, nodeVars
<1>8. ASSUME NEW t \in Timer, TimerDue(t) PROVE OwedInv'
  <2>1. queue # <<>> => queue' # <<>> /\ Head(queue') = Head(queue)
    BY <1>8, <1>q, PutHead DEF TimerDue, PostDue, Post
  <2> QED BY <1>1, <1>8, <2>1 DEF TimerDue, roleVars, nodeVars
<1>9. CASE Pop
  BY <1>9 DEF Pop, Steppable, roleVars, nodeVars, OwedInv, IsHost
<1>10. CASE KeepState
  BY <1>10 DEF KeepState, roleVars, nodeVars, OwedInv, IsHost, NoState
<1>11. CASE ChangeState
  <2>1. ho'.notify = ho.notify
    BY <1>11 DEF ChangeState, HostCtx
  <2>2. /\ owed' = owed /\ finished' = finished /\ core' = core /\ state' = pending /\ pc = "take"
        /\ pc' = "enter" /\ pending' = NoState /\ Moves(state, pending)
    BY <1>11 DEF ChangeState, nodeVars, PendingInv
  <2> QED BY <2>1, <2>2 DEF OwedInv, IsHost, Moves, NoState
<1>12. CASE EndStep
  BY <1>12 DEF EndStep, roleVars, OwedInv, IsHost
<1>13. CASE TakeReset \/ CommitReset \/ Crash
  <2>1. owed' = 0
    BY <1>13 DEF TakeReset, CommitReset, Crash, Reboot
  <2>2. ~(0 > 0)
    OBVIOUS
  <2> QED BY <2>1, <2>2
<1> QED BY <1>2, <1>3, <1>4, <1>5, <1>6, <1>7, <1>8, <1>9, <1>10, <1>11, <1>12, <1>13
        DEF Next, Step, Environment, Wait

\* Where Node::run_app drains the machine, every initiate_update that was accepted and
\* asked for a finish callback has had it by the time the machine is at rest in Idle or
\* Error, whatever was refused meanwhile and however the update ended.
THEOREM AcceptedReported ==
  ASSUME Drained, FINISHED_LEN >= 2
  PROVE  Spec => []AcceptedIsReported
<1>1. Init => OwedInv
  BY DEF Init, OwedInv
<1>2. TypeOK /\ PendingInv /\ OwedInv /\ [Next]_vars => OwedInv'
  BY RunOwed, EnterOwed, RestOwed
<1>3. TypeOK /\ PendingInv /\ OwedInv => AcceptedIsReported
  <2> SUFFICES ASSUME TypeOK, OwedInv, AtRest, state \in {"Idle", "Error"} PROVE owed = 0
    BY DEF AcceptedIsReported
  <2>1. owed \in Nat
    BY Unpack
  <2> QED BY <2>1 DEF OwedInv, AtRest, IsHost
<1> QED BY <1>1, <1>2, <1>3, TypeCorrect, PendingWakes, PTL DEF Spec

------------------------------------------------------------------------------
(* While an unconfirmed image runs, the slot holds one to go back to.      *)

\* An image the bootloader boots, whole in the slot.
Bootable(im) == im \in Images /\ im.bytes # <<>> /\ Len(im.bytes) <= SlotSize

\* An image on trial is known to be one: the reboot info that says so is left
\* before the reset that boots it, and is dropped only with the trial or in
\* asking for the reset that ends it; so Idle, where offers are taken, is never
\* reached on trial.
TrialInv ==
  /\ Bootable(boot.running)
  /\ reset = "Pending" => state = "ClientActivating"
  /\ reset = "Fail" => state = "ClientRebootDone" /\ pending = NoState
  /\ reset # NoReset => pc \in {"take", "done", "ready"}
  /\ state \in {"ClientReceiving", "ClientValidating", "ClientRebootReq", "ClientActivating"}
       \/ pending = "ClientReceiving" => reboot.magic
  /\ state = "ClientActivating" /\ pc # "enter" => reset = "Pending"
  /\ boot.trial =>
       /\ Held(slot) # {}
       /\ \/ /\ state = "Init" /\ reboot.magic
             /\ pending \in {NoState, "ClientRebootDone"}
          \/ state = "ClientRebootDone" /\ pending = NoState

\* What a swap leaves in the slot can be swapped back.
LEMMA SwappedOut ==
  ASSUME NEW im, Bootable(im)
  PROVE  im \in Held(Padded(im.bytes))
<1>1. im.bytes \in Seq(Byte)
  BY DfuAssumption DEF Bootable, Image
<1>2. Len(im.bytes) \in Nat /\ SlotSize \in Nat
  BY <1>1, DfuAssumption
<1>3. ASSUME NEW i \in 1..Len(im.bytes) PROVE Padded(im.bytes)[i] = im.bytes[i]
  <2>1. i \in 1..SlotSize /\ i <= Len(im.bytes)
    BY <1>2 DEF Bootable
  <2> QED BY <2>1 DEF Padded
<1> QED BY <1>3 DEF Held, Bootable

\* A confirmation that cannot fail ends the trial, whatever image runs.
LEMMA ConfirmEndsTrial ==
  ASSUME TypeOK, "confirm" \notin Faults,
         \E ok \in Outcome("confirm") : boot' = [boot EXCEPT !.trial = @ /\ ~ok]
  PROVE  boot'.running = boot.running /\ ~boot'.trial
<1>1. Outcome("confirm") = {TRUE}
  BY DEF Outcome
<1>2. boot' = [boot EXCEPT !.trial = boot.trial /\ ~TRUE]
  BY <1>1
<1>3. boot \in [running : Images, trial : BOOLEAN]
  BY Unpack
<1> QED BY <1>2, <1>3

\* No handler gives the fallback up, but the one that confirms (Dfu::run_state).
LEMMA RunTrial ==
  ASSUME TypeOK, PendingInv, TrialInv, "confirm" \notin Faults, RunState
  PROVE  TrialInv'
<1> USE Unpack
<1>1. CASE InitRun
  <2>1. /\ state = "Init" /\ state' = state /\ pc = "run" /\ pc' = "take" /\ pending' = AfterInit
        /\ boot' = boot /\ slot' = slot /\ reboot' = reboot /\ reset' = reset
    BY <1>1 DEF InitRun, Running, SetPending, StepVars
  <2> QED BY <2>1 DEF TrialInv, AfterInit
<1>2. CASE AcceptOffer
  <2>1. /\ state = "Idle" /\ state' = state /\ pc = "run" /\ pc' = "take" /\ boot' = boot
        /\ reset' = reset /\ reboot'.magic
    BY <1>2 DEF AcceptOffer, OfferRun, Running, StepVars
  <2> QED BY <2>1 DEF TrialInv
<1>3. CASE UpdateDoneEnd
  <2>1. /\ state = "ClientRebootDone" /\ state' = state /\ pc = "run" /\ pc' = "take"
        /\ pending' = "Idle" /\ reset' = reset /\ reboot' = reboot
    BY <1>3 DEF UpdateDoneEnd, Running, SetPending
  <2>2. boot'.running = boot.running /\ ~boot'.trial
    BY <1>3, ConfirmEndsTrial DEF UpdateDoneEnd
  <2> QED BY <2>1, <2>2 DEF TrialInv, NoReset
<1>4. CASE UpdateDoneTimeout
  <2>1. /\ state = "ClientRebootDone" /\ state' = state /\ pc = "run" /\ pc' = "take"
        /\ pending' = pending /\ boot' = boot /\ slot' = slot
        /\ reset' \in {reset, "Fail"}
    BY <1>4 DEF UpdateDoneTimeout, Retry, FailUpdate, Running, StepVars
  <2>2. pending = NoState /\ NoState # "ClientReceiving"
    BY <2>1 DEF PendingInv, NoState
  <2> QED BY <2>1, <2>2 DEF TrialInv, NoReset
<1>5. CASE \/ IdleBeginHost \/ RefuseSameVersion \/ RefuseChunkSize \/ RefuseFlash \/ RefuseTooLarge
           \/ ReceiveChunk \/ ReceiveLastChunk \/ ReceivingTimeout
           \/ ReceivingRestart \/ ReceivingHeartbeat \/ RebootReqReboot \/ RebootReqTimeout
           \/ HostReqAck \/ HostReqTimeout \/ HostAbort \/ ServeInternal \/ ServeStream
           \/ ChunkUnread \/ HostUpdateReboot \/ HostUpdateBooted \/ HostUpdateEnd
  <2>1. /\ state \notin {"Init", "ClientRebootDone"} /\ state' = state
        /\ pc = "run" /\ pc' = "take" /\ boot' = boot
    BY <1>5 DEF IdleBeginHost, RefuseSameVersion, RefuseChunkSize, RefuseFlash, RefuseTooLarge,
                ReceiveChunk, ReceiveLastChunk, ReceivingTimeout, ReceivingRestart,
                ReceivingHeartbeat, RebootReqReboot, RebootReqTimeout, HostReqAck,
                HostReqTimeout, HostAbort, ServeInternal, ServeStream, ChunkUnread,
                HostUpdateReboot, HostUpdateBooted, HostUpdateEnd, OfferRun, ChunkRun, Retry,
                Running, StepVars
  <2>2. reboot' = reboot /\ reset' = reset
    BY <1>5 DEF IdleBeginHost, RefuseSameVersion, RefuseChunkSize, RefuseFlash, RefuseTooLarge,
                ReceiveChunk, ReceiveLastChunk, ReceivingTimeout, ReceivingRestart,
                ReceivingHeartbeat, RebootReqReboot, RebootReqTimeout, HostReqAck,
                HostReqTimeout, HostAbort, ServeInternal, ServeStream, ChunkUnread,
                HostUpdateReboot, HostUpdateBooted, HostUpdateEnd, Retry, TimedOut
  <2>3. pending' = pending \/ pending' # "ClientReceiving"
    BY <1>5 DEF IdleBeginHost, RefuseSameVersion, RefuseChunkSize, RefuseFlash, RefuseTooLarge,
                ReceiveChunk, ReceiveLastChunk, ReceivingTimeout, ReceivingRestart,
                ReceivingHeartbeat, RebootReqReboot, RebootReqTimeout, HostReqAck,
                HostReqTimeout, HostAbort, ServeInternal, ServeStream, ChunkUnread,
                HostUpdateReboot, HostUpdateBooted, HostUpdateEnd, Retry, TimedOut, HostError,
                ToError, SetPending
  <2> QED BY <2>1, <2>2, <2>3 DEF TrialInv
<1>6. CASE RunIgnored
  BY <1>6 DEF RunIgnored, StepVars, TrialInv
<1> QED BY <1>1, <1>2, <1>3, <1>4, <1>5, <1>6 DEF RunState

\* Nor does an entry (Dfu::enter_state).
LEMMA EnterTrial ==
  ASSUME TypeOK, PendingInv, TrialInv, "confirm" \notin Faults, EnterState
  PROVE  TrialInv'
<1> USE Unpack
<1>1. /\ pc = "enter" /\ pending = NoState /\ state' = state /\ pc' \in {"done", "commit"}
      /\ reset = NoReset
  BY DEF PendingInv, TrialInv, EnterState, EnterIdle, EnterError, EnterReceiving,
         EnterValidating, EnterRebootReq, EnterActivating, EnterWrongVersion, EnterBootComplete,
         EnterUnasked, EnterHostReqUpdate, EnterHostUpdate, RebootDoneEntry, Entering, Entered,
         EnterVars
<1>n. NoState # "ClientReceiving" /\ NoReset \notin {"Pending", "Fail"}
  BY DEF NoState, NoReset
<1>2. CASE EnterIdle
  BY <1>1, <1>2, <1>n DEF EnterIdle, Entering, flashVars, TrialInv
<1>3. CASE EnterUnasked
  <2>1. /\ state = "ClientRebootDone" /\ pending' = pending /\ reset' = reset
    BY <1>3 DEF EnterUnasked, RebootDoneEntry, Entering
  <2>2. boot'.running = boot.running /\ ~boot'.trial
    BY <1>3, ConfirmEndsTrial DEF EnterUnasked
  <2> QED BY <1>1, <1>n, <2>1, <2>2 DEF TrialInv
<1>4. CASE EnterWrongVersion
  <2>1. /\ state = "ClientRebootDone" /\ pending' = pending /\ reset' = "Fail" /\ pc' = "done"
        /\ boot' = boot /\ slot' = slot
    BY <1>4 DEF EnterWrongVersion, RebootDoneEntry, Entering, Entered, FailUpdate, flashVars
  <2> QED BY <1>1, <1>n, <2>1 DEF TrialInv, NoReset
<1>5. CASE EnterActivating
  <2>1. /\ state = "ClientActivating" /\ pending' = pending /\ reset' = "Pending" /\ pc' = "done"
        /\ boot' = boot /\ slot' = slot /\ reboot' = reboot
    BY <1>5 DEF EnterActivating, Entering, Entered, flashVars
  <2> QED BY <1>1, <1>n, <2>1 DEF TrialInv, NoReset
<1>6. CASE \/ EnterError \/ EnterReceiving \/ EnterValidating \/ EnterRebootReq
           \/ EnterBootComplete \/ EnterHostReqUpdate \/ EnterHostUpdate
  <2>1. /\ boot' = boot /\ slot' = slot /\ reboot' = reboot /\ reset' = reset
        /\ state \notin {"Init", "ClientActivating"}
    BY <1>6 DEF EnterError, EnterReceiving, EnterValidating, EnterRebootReq, EnterBootComplete,
                EnterHostReqUpdate, EnterHostUpdate, RebootDoneEntry, Entering, flashVars
  <2>2. /\ pending' \in {NoState, "Idle", "Error", "ClientRebootReq"}
        /\ state = "ClientRebootDone" => pending' = NoState
    BY <1>1, <1>6 DEF EnterError, EnterReceiving, EnterValidating, EnterRebootReq,
                EnterBootComplete, EnterHostReqUpdate, EnterHostUpdate, RebootDoneEntry, Entering,
                SetPending, ToError
  <2> QED BY <1>1, <1>n, <2>1, <2>2 DEF TrialInv
<1> QED BY <1>2, <1>3, <1>4, <1>5, <1>6 DEF EnterState

\* A reset swaps an image in only for one that can be swapped back, and ends
\* the trial of one that was not confirmed.
LEMMA ResetTrial ==
  ASSUME TypeOK, TrialInv, NEW pend \in BOOLEAN, NEW ram \in RebootInfo, Reboot(pend, ram),
         pend => ram.magic /\ ~boot.trial
  PROVE  TrialInv'
<1> USE Unpack
<1>1. /\ state' = "Init" /\ pending' = NoState /\ pc' = "ready" /\ reset' = NoReset
      /\ reboot' = ram /\ Bootloader(pend)
  BY DEF Reboot
<1>2. Bootable(boot'.running) /\ (boot'.trial => pend /\ Held(slot') # {})
  <2>1. CASE UNCHANGED <<boot, slot>> /\ ((~pend /\ ~boot.trial) \/ Held(slot) = {})
    BY <2>1 DEF TrialInv
  <2>2. CASE /\ \E im \in Held(slot) : boot' = [running |-> im, trial |-> pend]
             /\ slot' = Padded(boot.running.bytes)
    <3>1. PICK im \in Held(slot) : boot' = [running |-> im, trial |-> pend]
      BY <2>2
    <3>2. Bootable(im)
      BY DEF Held, Bootable
    <3>3. boot.running \in Held(slot')
      BY <2>2, SwappedOut DEF TrialInv
    <3> QED BY <3>1, <3>2, <3>3
  <2> QED BY <1>1, <2>1, <2>2 DEF Bootloader
<1>n. NoState # "ClientReceiving" /\ NoReset \notin {"Pending", "Fail"}
  BY DEF NoState, NoReset
<1> QED BY <1>1, <1>2, <1>n DEF TrialInv

\* The steps that run no handler keep the fallback.
LEMMA RestTrial ==
  ASSUME TypeOK, PendingInv, TrialInv, [Next]_vars, ~RunState, ~EnterState
  PROVE  TrialInv'
<1> USE Unpack
<1>n. NoState # "ClientReceiving" /\ NoReset \notin {"Pending", "Fail"}
  BY DEF NoState, NoReset
<1>1. CASE UNCHANGED <<state, pending, pc, reset, reboot, boot, slot>>
  BY <1>1 DEF TrialInv
<1>2. ASSUME NEW m \in Messages, OnMessage(m) PROVE TrialInv'
  BY <1>1, <1>2 DEF OnMessage, nodeVars, flashVars
<1>3. ASSUME NEW r \in Requests, InitiateUpdate(r) \/ RefuseUpdate(r) PROVE TrialInv'
  BY <1>1, <1>3 DEF InitiateUpdate, RefuseUpdate, coreVars, nodeVars, flashVars
<1>4. ASSUME NEW d \in Feeds, HostQueueData(d) PROVE TrialInv'
  BY <1>1, <1>4 DEF HostQueueData, coreVars, nodeVars, flashVars
<1>5. CASE TakeUpdateFinished \/ Transmit \/ UNCHANGED vars
  BY <1>1, <1>5 DEF TakeUpdateFinished, Transmit, vars, coreVars, nodeVars, flashVars
<1>6. ASSUME NEW t \in Timer, TimerDue(t) PROVE TrialInv'
  BY <1>1, <1>6 DEF TimerDue, nodeVars, flashVars
<1>7. CASE Pop
  BY <1>7 DEF Pop, Steppable, nodeVars, flashVars, TrialInv
<1>8. CASE KeepState
  BY <1>8, <1>n DEF KeepState, nodeVars, flashVars, TrialInv
<1>9. CASE ChangeState
  <2>1. /\ pc = "take" /\ pending # NoState /\ state' = pending /\ pending' = NoState
        /\ pc' = "enter" /\ reset' = reset /\ reboot' = reboot /\ boot' = boot /\ slot' = slot
        /\ Moves(state, pending)
    BY <1>9 DEF ChangeState, nodeVars, flashVars, PendingInv
  <2>2. reset = NoReset
    BY <2>1 DEF TrialInv, Moves
  <2> QED BY <2>1, <2>2, <1>n DEF TrialInv, Moves
<1>10. CASE EndStep
  BY <1>10 DEF EndStep, flashVars, TrialInv
<1>11. CASE TakeReset
  <2>1. PICK pend \in IF reset = "Pending" THEN Outcome("pend") ELSE {FALSE} : Reboot(pend, reboot)
    BY <1>11 DEF TakeReset
  <2>2. pend \in BOOLEAN
    BY DEF Outcome
  <2>3. pend => reset = "Pending"
    BY <2>1
  <2>4. pend => reboot.magic /\ ~boot.trial
    BY <2>3 DEF TrialInv
  <2> QED BY <2>1, <2>2, <2>4, ResetTrial
<1>12. CASE CommitReset \/ Crash
  <2>1. \E ram \in RebootInfo : Reboot(FALSE, ram)
    BY <1>12 DEF CommitReset, Crash, NoReboot, RebootInfo, NoNode
  <2> QED BY <2>1, ResetTrial
<1> QED BY <1>2, <1>3, <1>4, <1>5, <1>6, <1>7, <1>8, <1>9, <1>10, <1>11, <1>12
        DEF Next, Step, Environment, Wait

\* Where set_confirmed does not fail, and the image the node shipped with fits
\* its slot: however the node resets, crashes or loses power, and whatever is
\* offered meanwhile, a trial that fails has an image to fall back to.
THEOREM FallbackKept ==
  ASSUME "confirm" \notin Faults, Bootable(RunningImage)
  PROVE  Spec => []TrialHasFallback
<1>1. Init => TrialInv
  BY DEF Init, TrialInv, NoState, NoReset
<1>2. TypeOK /\ PendingInv /\ TrialInv /\ [Next]_vars => TrialInv'
  BY RunTrial, EnterTrial, RestTrial
<1>3. TrialInv => TrialHasFallback
  BY DEF TrialInv, TrialHasFallback
<1> QED BY <1>1, <1>2, <1>3, TypeCorrect, PendingWakes, PTL DEF Spec

------------------------------------------------------------------------------
(* A machine that waits for its peer has a timer running that gives up.    *)

\* The states that wait for a peer, the timer each waits with, and the states
\* in which that timer's event must find room in the queue.
Waits == {"ClientReceiving", "ClientRebootReq", "ClientRebootDone", "HostReqUpdate", "HostUpdate"}
Own(s) == IF s = "HostReqUpdate" THEN "Ack" ELSE IF s = "HostUpdate" THEN "Update" ELSE "Chunk"
Busy == Waits \cup {"ClientValidating"}

\* The events queued, and those the running timers have still to queue.
Count(T) == (IF "Chunk" \in T THEN 1 ELSE 0) + (IF "Ack" \in T THEN 1 ELSE 0)
            + (IF "Update" \in T THEN 1 ELSE 0)
Load == Len(queue) + Count(timers)
\* The timers that may run at rest: a host's own, and a client's chunk timer,
\* which a failed write leaves running (s_client_receiving_run).
Spare(s) == IF IsHost(s) THEN 2 ELSE 1

AllBare(q) == \A i \in DOMAIN q : q[i].body = NoBody
\* An event that comes from outside the machine: a body of the peer's or a request.
FromOutside(e) == e.kind = "BeginHost" \/ (e.body \in Messages /\ e.kind = e.body.kind)

TimersInv == timers \subseteq {"Chunk"} \cup (IF pending = NoState /\ pc # "enter"
                                              THEN {Own(state)} ELSE {})

\* One event from outside is under way at a time, and starts on a queue
\* emptied before it.
QueueInv ==
  /\ pc # "ready" => AllBare(queue)
  /\ \A i \in DOMAIN queue : queue[i].body # NoBody =>
       i = 1 /\ Load <= 1 + Spare(state) /\ FromOutside(queue[i])
  /\ pc = "run" /\ event.body # NoBody => Load <= Spare(state) /\ FromOutside(event)

LoadInv ==
  /\ state \in Busy =>
       /\ pc \in {"ready", "done"} => Load <= 4
       /\ pc \in {"run", "enter"} => Load <= 3
       /\ pc = "take" /\ pending = NoState => Load <= 4
  /\ pc = "take" /\ pending \in Busy => Load <= 3

Coming(t) == t \in timers \/ \E i \in DOMAIN queue : queue[i] = Bare(TimerEvent(t))
WakeInv ==
  state \in Waits =>
    /\ pc \in {"ready", "done"} => Coming(Own(state)) \/ reset # NoReset
    /\ pc = "take" /\ pending = NoState => Coming(Own(state)) \/ reset # NoReset
    /\ pc = "run" => Coming(Own(state)) \/ event = Bare(TimerEvent(Own(state)))

\* The states that do not wait: each has its next event queued, or is left by
\* the change its entry set or by a reset.
PassingInv ==
  /\ state = "Init" =>
       /\ timers = {} /\ pc \in {"ready", "run", "take"}
       /\ pc = "ready" => queue = <<Bare("InitSuccess")>>
       /\ pc = "run" => queue = <<>> /\ event.kind = "InitSuccess"
       /\ pc = "take" => Len(queue) <= 1 /\ pending # NoState
  /\ state = "ClientValidating" /\ pc # "enter" => pending # NoState
  /\ state = "ClientActivating" => pc = "enter" \/ reset # NoReset

WaitInv == TimersInv /\ QueueInv /\ LoadInv /\ WakeInv /\ PassingInv

\* What the arguments below assume: the node is drained, as Node::run_app does;
\* no commit of dfu_confirm fails, which would leave the machine in
\* ClientRebootDone without a timer; and no ACK or end is too short to read,
\* which would stop the timer that waits for it.
WaitAssumption ==
  /\ Drained /\ "commit" \notin Faults /\ EVENT_QUEUE_LEN >= 5
  /\ \A m \in Messages : m.kind \in {"AckReceived", "UpdateEnd"} => m.whole

\* The load is a number, and none of the queue is left out of it.
LEMMA LoadFacts ==
  ASSUME TypeOK
  PROVE  /\ Load \in Nat /\ Len(queue) \in Nat /\ Count(timers) \in 0..3
         /\ Load = Len(queue) + Count(timers)
<1>1. Len(queue) \in Nat /\ Count(timers) \in 0..3
  BY Unpack DEF QueueOK, Count
<1> QED BY <1>1 DEF Load

\* A step that starts no timer adds to the load what it adds to the queue ...
LEMMA LoadUnarmed ==
  ASSUME TypeOK, TypeOK', timers' \subseteq timers, NEW k \in Nat, Len(queue') <= Len(queue) + k
  PROVE  Load' \in Nat /\ Load' <= Load + k
<1>1. Len(queue) \in Nat /\ Len(queue') \in Nat
  BY Unpack DEF TypeOK, CoreType, QueueOK
<1>2. Count(timers') \in 0..3 /\ Count(timers) \in 0..3 /\ Count(timers') <= Count(timers)
  BY DEF Count
<1> QED BY <1>1, <1>2 DEF Load

\* ... and one that starts a timer, one more.
LEMMA LoadArmed ==
  ASSUME TypeOK, TypeOK', NEW t \in Timer, timers' \subseteq timers \cup {t},
         Len(queue') <= Len(queue)
  PROVE  Load' \in Nat /\ Load' <= Load + 1
<1>1. Len(queue) \in Nat /\ Len(queue') \in Nat
  BY Unpack DEF TypeOK, CoreType, QueueOK
<1>2. Count(timers') \in 0..3 /\ Count(timers) \in 0..3 /\ Count(timers') <= Count(timers) + 1
  BY DEF Count, Timer
<1> QED BY <1>1, <1>2 DEF Load

\* A bare event leaves a queue of bare events one, and keeps what is in it.
LEMMA PostBare ==
  ASSUME NEW q \in Seq(Events), NEW k
  PROVE  /\ AllBare(q) => AllBare(Post(q, Bare(k)))
         /\ Len(Post(q, Bare(k))) <= Len(q) + 1
         /\ \A i \in DOMAIN q : i \in DOMAIN Post(q, Bare(k)) /\ Post(q, Bare(k))[i] = q[i]
         /\ \A i \in DOMAIN Post(q, Bare(k)) : Post(q, Bare(k))[i].body # NoBody
              => i \in DOMAIN q /\ Post(q, Bare(k))[i] = q[i]
BY DEF AllBare, Post, Put, Bare, Event

\* A timer that comes due goes off the count as its event goes on the queue.
LEMMA FiredFacts ==
  ASSUME TypeOK, AllBare(queue), NEW f \in Firings(timers), InTurn(f)
  PROVE  /\ AllBare(PostFired(queue, f)) /\ PostFired(queue, f) \in Seq(Events)
         /\ Len(PostFired(queue, f)) + Count(timers \ Fired(f)) <= Load
<1>q. queue \in Seq(Events) /\ Len(queue) \in Nat /\ timers \in SUBSET Timer
      /\ Len(queue) <= EVENT_QUEUE_LEN
  BY Unpack DEF QueueOK
<1>p. ASSUME NEW q \in Seq(Events), AllBare(q), Len(q) <= EVENT_QUEUE_LEN, NEW t \in Timer
      PROVE  /\ PostDue(q, t) \in Seq(Events) /\ AllBare(PostDue(q, t))
             /\ Len(PostDue(q, t)) <= EVENT_QUEUE_LEN
             /\ Len(PostDue(q, t)) \in Nat /\ Len(PostDue(q, t)) <= Len(q) + 1
  <2>1. PostDue(q, t) \in Seq(Events) /\ Len(PostDue(q, t)) <= EVENT_QUEUE_LEN
    BY <1>p, PostDueFacts
  <2>2. AllBare(PostDue(q, t)) /\ Len(PostDue(q, t)) <= Len(q) + 1
    BY <1>p, PostBare DEF PostDue
  <2> QED BY <2>1, <2>2
<1>1. CASE f = <<>>
  <2>1. PostFired(queue, f) = queue /\ Fired(f) = {}
    BY <1>1 DEF PostFired, Fired
  <2>2. Count(timers \ {}) = Count(timers) /\ Count(timers) \in 0..3
    BY DEF Count
  <2> QED BY <1>q, <2>1, <2>2 DEF Load
<1>2. CASE \E t \in timers : f = <<t>>
  <2>1. PICK t \in timers : f = <<t>>
    BY <1>2
  <2>2. Fired(f) = {t} /\ Len(f) = 1 /\ f[1] = t /\ t \in Timer
    BY <1>q, <2>1 DEF Fired
  <2>3. PostFired(queue, f) = PostDue(queue, t)
    BY <2>2 DEF PostFired
  <2>4. Count(timers \ {t}) + 1 = Count(timers) /\ Count(timers) \in 0..3
        /\ Count(timers \ {t}) \in 0..3
    BY <1>q, <2>1 DEF Count, Timer
  <2> QED BY <1>q, <1>p, <2>2, <2>3, <2>4 DEF Load
<1>3. CASE \E t, u \in timers : f = <<t, u>>
  <2>1. PICK t \in timers, u \in timers : f = <<t, u>>
    BY <1>3
  <2>2. /\ Fired(f) = {t, u} /\ Len(f) = 2 /\ f[1] = t /\ f[2] = u /\ t \in Timer /\ u \in Timer
        /\ t # u
    BY <1>q, <2>1 DEF Fired, InTurn
  <2>3. PostFired(queue, f) = PostDue(PostDue(queue, t), u)
    BY <2>2 DEF PostFired
  <2>4. Count(timers \ {t, u}) + 2 = Count(timers) /\ Count(timers) \in 0..3
        /\ Count(timers \ {t, u}) \in 0..3
    BY <1>q, <2>1, <2>2 DEF Count, Timer
  <2> DEFINE q1 == PostDue(queue, t)
  <2>5. /\ q1 \in Seq(Events) /\ AllBare(q1) /\ Len(q1) <= EVENT_QUEUE_LEN
        /\ Len(q1) \in Nat /\ Len(q1) <= Len(queue) + 1
    BY <1>q, <1>p, <2>2
  <2> HIDE DEF q1
  <2>6. /\ PostDue(q1, u) \in Seq(Events) /\ AllBare(PostDue(q1, u))
        /\ Len(PostDue(q1, u)) \in Nat /\ Len(PostDue(q1, u)) <= Len(q1) + 1
    BY <1>p, <2>2, <2>5
  <2>7. PostFired(queue, f) = PostDue(q1, u)
    BY <2>3 DEF q1
  <2> QED BY <1>q, <2>2, <2>4, <2>5, <2>6, <2>7 DEF Load
<1>4. CASE \E t, u, v \in timers : f = <<t, u, v>>
  <2>1. PICK t \in timers, u \in timers, v \in timers : f = <<t, u, v>>
    BY <1>4
  <2>2. /\ Fired(f) = {t, u, v} /\ Len(f) = 3 /\ f[1] = t /\ f[2] = u /\ f[3] = v
        /\ t \in Timer /\ u \in Timer /\ v \in Timer
    BY <1>q, <2>1 DEF Fired
  <2>t. t # u /\ t # v /\ u # v
    BY <2>1, <2>2 DEF InTurn
  <2>3. PostFired(queue, f) = PostDue(PostDue(PostDue(queue, t), u), v)
    BY <2>2 DEF PostFired
  <2>4. Count(timers \ {t, u, v}) + 3 = Count(timers) /\ Count(timers) \in 0..3
        /\ Count(timers \ {t, u, v}) \in 0..3
    BY <1>q, <2>1, <2>2, <2>t DEF Count, Timer
  <2> DEFINE q1 == PostDue(queue, t)
             q2 == PostDue(q1, u)
  <2>5. /\ q1 \in Seq(Events) /\ AllBare(q1) /\ Len(q1) <= EVENT_QUEUE_LEN
        /\ Len(q1) \in Nat /\ Len(q1) <= Len(queue) + 1
    BY <1>q, <1>p, <2>2
  <2> HIDE DEF q1
  <2>6. /\ q2 \in Seq(Events) /\ AllBare(q2) /\ Len(q2) <= EVENT_QUEUE_LEN
        /\ Len(q2) \in Nat /\ Len(q2) <= Len(q1) + 1
    BY <1>p, <2>2, <2>5
  <2> HIDE DEF q2
  <2>7. /\ PostDue(q2, v) \in Seq(Events) /\ AllBare(PostDue(q2, v))
        /\ Len(PostDue(q2, v)) \in Nat /\ Len(PostDue(q2, v)) <= Len(q2) + 1
    BY <1>p, <2>2, <2>6
  <2>8. PostFired(queue, f) = PostDue(q2, v)
    BY <2>3 DEF q1, q2
  <2> QED BY <1>q, <2>2, <2>4, <2>5, <2>6, <2>7, <2>8 DEF Load
<1> QED BY <1>1, <1>2, <1>3, <1>4 DEF Firings

\* No received body and no request is the absence of one.
LEMMA OutsideBody ==
  ASSUME TypeOK, QueueInv, pc = "run",
         event.kind \in MessageKind \ {"Abort"} \/ event.kind = "BeginHost"
  PROVE  event.body # NoBody /\ Load <= Spare(state) /\ FromOutside(event)
<1>1. ASSUME NEW b \in Body PROVE b # NoBody
  <2>1. "kind" \in DOMAIN b /\ "kind" \notin DOMAIN NoBody
    BY DEF Body, NoBody
  <2> QED BY <2>1
<1>2. ASSUME NEW b \in Request PROVE b # NoBody
  <2>1. "dst" \in DOMAIN b /\ "dst" \notin DOMAIN NoBody
    BY DEF Request, NoBody
  <2> QED BY <2>1
<1>3. event.body \in Body \/ event.body \in Request
  BY Unpack, BodyFacts
<1> QED BY <1>1, <1>2, <1>3 DEF QueueInv

\* A change that is set has a bare event posted behind it.
LEMMA SetPendingBare ==
  ASSUME TypeOK, AllBare(queue), NEW s, SetPending(s, queue)
  PROVE  pending' = s /\ AllBare(queue') /\ Len(queue') <= Len(queue) + 1
BY Unpack, PostBare DEF SetPending, QueueOK, NOP

\* What every handler does to the step.
InHandler == /\ pc = "run" /\ pc' = "take" /\ state' = state /\ event' = event
             /\ TypeOK /\ TypeOK' /\ PendingInv /\ WaitInv

\* A handler that changes neither timers nor queue, and was not run by the
\* timer the state waits with.
LEMMA QuietWaits ==
  ASSUME InHandler, UNCHANGED <<timers, queue, pending, reset>>, state # "Init",
         state \in Waits => event # Bare(TimerEvent(Own(state)))
  PROVE  WaitInv'
<1>1. TimersInv' /\ QueueInv'
  BY DEF InHandler, WaitInv, TimersInv, QueueInv, Load
<1>2. WakeInv' /\ PassingInv'
  BY DEF InHandler, WaitInv, WakeInv, PassingInv, Coming
<1>3. pending \in Busy => state \in Busy
  BY DEF InHandler, PendingInv, Moves, Busy, Waits, NoState
<1>4. Load' = Load /\ Load \in Nat
  BY LoadFacts DEF InHandler, Load
<1>5. LoadInv'
  BY <1>3, <1>4 DEF InHandler, WaitInv, LoadInv
<1> QED BY <1>1, <1>2, <1>5 DEF WaitInv

\* A handler that asks for another state, and leaves no timer of a host.
LEMMA LeaveWaits ==
  ASSUME InHandler, AllBare(queue'), timers' \subseteq {"Chunk"}, pending' \in State,
         pending' \in Busy => Load' <= 3,
         state = "Init" => timers' = {} /\ Len(queue') <= 1,
         state # "ClientActivating"
  PROVE  WaitInv'
<1>n. NoState \notin State
  BY DEF NoState, State
<1>1. TimersInv' /\ QueueInv'
  BY DEF InHandler, TimersInv, QueueInv, AllBare
<1>2. LoadInv' /\ WakeInv' /\ PassingInv'
  BY <1>n DEF InHandler, LoadInv, WakeInv, PassingInv
<1> QED BY <1>1, <1>2 DEF WaitInv

\* A handler that stays, and starts the timer its state waits with.
LEMMA ArmWaits ==
  ASSUME InHandler, state \in Waits, AllBare(queue'), pending' = pending,
         timers' \subseteq timers \cup {Own(state)}, Own(state) \in timers', Load' <= Load + 1
  PROVE  WaitInv'
<1>p. pending = NoState /\ NoState \notin Busy
  BY DEF InHandler, PendingInv, Waits, Busy, NoState
<1>1. TimersInv' /\ QueueInv'
  BY <1>p DEF InHandler, WaitInv, TimersInv, QueueInv, AllBare
<1>2. WakeInv' /\ PassingInv'
  BY <1>p DEF InHandler, WakeInv, PassingInv, Coming, Waits
<1>3. Load <= 3 /\ Load \in Nat /\ Load' \in Nat
  <2>1. Load <= 3
    BY DEF InHandler, WaitInv, LoadInv, Busy
  <2>2. Load \in Nat
    BY LoadFacts DEF InHandler
  <2>3. Load' \in Nat
    <3>1. Len(queue') \in Nat
      BY DEF InHandler, TypeOK, CoreType
    <3> QED BY <3>1 DEF Load, Count
  <2> QED BY <2>1, <2>2, <2>3
<1>4. LoadInv'
  BY <1>p, <1>3 DEF InHandler, LoadInv
<1> QED BY <1>1, <1>2, <1>4 DEF WaitInv

\* A handler that asks for a state that waits for nothing.
LEMMA GivesUp ==
  ASSUME InHandler, NEW s \in State \ Busy, SetPending(s, queue), timers' \subseteq {"Chunk"},
         state \notin {"Init", "ClientActivating"}
  PROVE  WaitInv'
<1>1. AllBare(queue)
  BY DEF InHandler, WaitInv, QueueInv
<1>2. pending' = s /\ AllBare(queue')
  BY <1>1, SetPendingBare DEF InHandler
<1> QED BY <1>2, LeaveWaits

\* A timer that retries is started again, or given up on.
LEMMA RetryWaits ==
  ASSUME InHandler, state \in {"ClientReceiving", "ClientRebootReq", "ClientRebootDone"},
         timers' = timers \cup {"Chunk"}, UNCHANGED <<pending, queue>>
  PROVE  WaitInv'
<1>1. Own(state) = "Chunk" /\ state \in Waits /\ "Chunk" \in Timer
  BY DEF Own, Waits, Timer
<1>2. AllBare(queue') /\ Len(queue') <= Len(queue)
  <2>1. AllBare(queue) /\ Len(queue) \in Nat
    BY LoadFacts DEF InHandler, WaitInv, QueueInv
  <2> QED BY <2>1
<1>3. Load' <= Load + 1
  BY <1>1, <1>2, LoadArmed DEF InHandler
<1> QED BY <1>1, <1>2, <1>3, ArmWaits

\* A second start request restarts the transfer: what comes due in its
\* delay goes on the queue, and the chunk timer is started.
LEMMA RestartWaits ==
  ASSUME InHandler, ReceivingRestart
  PROVE  WaitInv'
<1>1. state = "ClientReceiving" /\ pending' = pending
  BY DEF ReceivingRestart, Running
<1>2. PICK f \in Firings(timers \ {"Chunk"}) :
        InTurn(f) /\ timers' = (timers \ Fired(f)) \cup {"Chunk"} /\ queue' = PostFired(queue, f)
  BY DEF ReceivingRestart
<1>3. f \in Firings(timers)
  <2>1. \A t \in timers \ {"Chunk"} : t \in timers
    OBVIOUS
  <2> QED BY <1>2, <2>1 DEF Firings
<1>4. AllBare(queue)
  BY DEF InHandler, WaitInv, QueueInv
<1>5. AllBare(queue') /\ Len(queue') + Count(timers \ Fired(f)) <= Load
  BY <1>2, <1>3, <1>4, FiredFacts DEF InHandler
<1>6. Load' <= Load + 1
  <2>1. Count(timers') <= Count(timers \ Fired(f)) + 1
    BY <1>2 DEF Count
  <2>2. Count(timers') \in 0..3 /\ Count(timers \ Fired(f)) \in 0..3
    BY DEF Count
  <2>3. Len(queue') \in Nat /\ Load \in Nat
    BY LoadFacts DEF InHandler, TypeOK, CoreType
  <2> QED BY <1>5, <2>1, <2>2, <2>3 DEF Load
<1>7. Own(state) = "Chunk" /\ state \in Waits
  BY <1>1 DEF Own, Waits
<1> QED BY <1>1, <1>2, <1>5, <1>6, <1>7, ArmWaits

\* The other handlers of a client (dfu_client.rs).
LEMMA ClientWaits ==
  ASSUME InHandler,
         \/ ReceiveChunk \/ ReceiveLastChunk \/ ReceivingTimeout \/ ReceivingHeartbeat
         \/ RebootReqReboot \/ RebootReqTimeout \/ UpdateDoneEnd \/ UpdateDoneTimeout
  PROVE  WaitInv'
<1>1. state \in {"ClientReceiving", "ClientRebootReq", "ClientRebootDone"}
  BY DEF ReceiveChunk, ReceiveLastChunk, ReceivingTimeout, ReceivingHeartbeat, RebootReqReboot,
         RebootReqTimeout, UpdateDoneEnd, UpdateDoneTimeout, ChunkRun, Retry, Running
<1>2. timers \subseteq {"Chunk"}
  BY <1>1 DEF InHandler, WaitInv, TimersInv, Own
<1>3. AllBare(queue) /\ queue \in Seq(Events) /\ Len(queue) \in Nat
  BY Unpack, LoadFacts DEF InHandler, WaitInv, QueueInv, QueueOK
<1>4. {"Idle", "Error", "ClientActivating"} \subseteq State \ Busy
  BY DEF State, Busy, Waits
<1>5. CASE ReceiveChunk
  <2>1. timers' = timers \cup {"Chunk"} /\ (UNCHANGED <<pending, queue>> \/ SetPending("Error", queue))
    BY <1>5 DEF ReceiveChunk, ToError
  <2>2. CASE UNCHANGED <<pending, queue>>
    BY <1>1, <2>1, <2>2, RetryWaits
  <2>3. CASE SetPending("Error", queue)
    BY <1>1, <1>2, <1>4, <2>1, <2>3, GivesUp
  <2> QED BY <2>1, <2>2, <2>3
<1>6. CASE ReceiveLastChunk
  <2>1. PICK p \in Payload(event.body.data) : \E e \in Ending(p) :
          SetPending(IF e.ok THEN "ClientValidating" ELSE "Error",
                     IF p.ok THEN queue ELSE Post(queue, NOP))
    BY <1>6 DEF ReceiveLastChunk
  <2> DEFINE q == IF p.ok THEN queue ELSE Post(queue, NOP)
  <2>2. AllBare(q) /\ q \in Seq(Events) /\ Len(q) <= Len(queue) + 1 /\ Len(q) \in Nat
    <3>1. AllBare(Post(queue, NOP)) /\ Len(Post(queue, NOP)) <= Len(queue) + 1
      BY <1>3, PostBare DEF NOP
    <3>2. Post(queue, NOP) \in Seq(Events)
      BY <1>3, Unpack, BareFacts, PostFacts DEF InHandler, QueueOK
    <3> QED BY <1>3, <3>1, <3>2
  <2>3. pending' \in {"ClientValidating", "Error"} /\ queue' = Post(q, NOP)
    BY <2>1 DEF SetPending
  <2> HIDE DEF q
  <2>4. AllBare(queue') /\ Len(queue') <= Len(q) + 1
    BY <2>2, <2>3, PostBare DEF NOP
  <2>5. timers' \subseteq timers /\ timers' \subseteq {"Chunk"}
    BY <1>2, <1>6 DEF ReceiveLastChunk
  <2>6. Load <= 1
    <3>1. event.kind = "ImageChunk" /\ state = "ClientReceiving" /\ pc = "run"
      BY <1>6 DEF ReceiveLastChunk, ChunkRun, Running
    <3>2. event.kind \in MessageKind \ {"Abort"}
      BY <3>1 DEF MessageKind
    <3> QED BY <3>1, <3>2, OutsideBody DEF InHandler, WaitInv, Spare, IsHost
  <2>7. Load' <= Load + 2 /\ Load' \in Nat
    <3>1. Len(queue') <= Len(queue) + 2
      <4>1. Len(queue') \in Nat
        BY DEF InHandler, TypeOK, CoreType
      <4> QED BY <1>3, <2>2, <2>4, <4>1
    <3> QED BY <2>5, <3>1, LoadUnarmed DEF InHandler
  <2>8. Load' <= 3
    BY <2>6, <2>7, LoadFacts DEF InHandler
  <2>9. pending' \in State
    BY <2>3 DEF State
  <2> QED BY <1>1, <2>4, <2>5, <2>8, <2>9, LeaveWaits
<1>7. CASE ReceivingTimeout \/ RebootReqTimeout
  <2>1. \/ timers' = timers \cup {"Chunk"} /\ UNCHANGED <<pending, queue>>
        \/ timers' \subseteq timers /\ SetPending("Error", queue)
    BY <1>7 DEF ReceivingTimeout, RebootReqTimeout, Retry, TimedOut, ToError
  <2>2. CASE timers' = timers \cup {"Chunk"} /\ UNCHANGED <<pending, queue>>
    BY <1>1, <2>2, RetryWaits
  <2>3. CASE timers' \subseteq timers /\ SetPending("Error", queue)
    BY <1>1, <1>2, <1>4, <2>3, GivesUp
  <2> QED BY <2>1, <2>2, <2>3
<1>8. CASE ReceivingHeartbeat
  BY <1>1, <1>8, RetryWaits DEF ReceivingHeartbeat
<1>9. CASE RebootReqReboot
  BY <1>1, <1>2, <1>4, <1>9, GivesUp DEF RebootReqReboot
<1>10. CASE UpdateDoneEnd
  BY <1>1, <1>2, <1>4, <1>10, GivesUp DEF UpdateDoneEnd
<1>11. CASE UpdateDoneTimeout
  <2>1. \/ timers' = timers \cup {"Chunk"} /\ UNCHANGED <<pending, queue>>
        \/ FailUpdate /\ pending' = pending
    BY <1>11 DEF UpdateDoneTimeout, Retry
  <2>2. CASE timers' = timers \cup {"Chunk"} /\ UNCHANGED <<pending, queue>>
    BY <1>1, <2>2, RetryWaits
  <2>3. CASE FailUpdate /\ pending' = pending
    <3>1. PICK f \in Firings(timers) :
            InTurn(f) /\ timers' = timers \ Fired(f) /\ queue' = PostFired(queue, f)
      BY <2>3 DEF FailUpdate
    <3>2. AllBare(queue') /\ Len(queue') + Count(timers') <= Load
      BY <1>3, <3>1, FiredFacts DEF InHandler
    <3>3. Load' <= Load /\ Load \in Nat /\ Load' \in Nat
      <4>1. Len(queue') \in Nat /\ Count(timers') \in 0..3
        BY DEF InHandler, TypeOK, CoreType, Count
      <4> QED BY <3>2, <4>1, LoadFacts DEF InHandler, Load
    <3>4. reset' = "Fail" /\ state = "ClientRebootDone"
      BY <1>11, <2>3 DEF FailUpdate, UpdateDoneTimeout, Retry, Running
    <3>5. pending = NoState /\ NoState \notin Busy
      BY <1>1 DEF InHandler, PendingInv, NoState, Busy, Waits
    <3>6. TimersInv' /\ QueueInv'
      BY <1>2, <2>3, <3>1, <3>2 DEF InHandler, TimersInv, QueueInv, AllBare
    <3>7. WakeInv' /\ PassingInv'
      BY <3>4 DEF InHandler, WakeInv, PassingInv, NoReset
    <3>8. LoadInv'
      <4>1. Load <= 3
        BY <3>4 DEF InHandler, WaitInv, LoadInv, Busy, Waits
      <4> QED BY <2>3, <3>3, <3>5, <4>1 DEF InHandler, LoadInv
    <3> QED BY <3>6, <3>7, <3>8 DEF WaitInv
  <2> QED BY <2>1, <2>2, <2>3
<1> QED BY <1>5, <1>6, <1>7, <1>8, <1>9, <1>10, <1>11

\* The handlers of Init and Idle, and how a client takes an offer.
LEMMA IdleWaits ==
  ASSUME InHandler,
         \/ InitRun \/ IdleBeginHost \/ RefuseSameVersion \/ RefuseChunkSize \/ RefuseFlash
         \/ RefuseTooLarge \/ AcceptOffer
  PROVE  WaitInv'
<1>1. AllBare(queue) /\ queue \in Seq(Events) /\ Len(queue) \in Nat /\ Load \in Nat
  BY Unpack, LoadFacts DEF InHandler, WaitInv, QueueInv, QueueOK
<1>2. state \in {"Init", "Idle"} /\ timers \subseteq {"Chunk"}
  <2>1. state \in {"Init", "Idle"}
    BY DEF InitRun, IdleBeginHost, RefuseSameVersion, RefuseChunkSize, RefuseFlash, RefuseTooLarge,
           AcceptOffer, OfferRun, Running
  <2> QED BY <2>1 DEF InHandler, WaitInv, TimersInv, Own
<1>3. CASE InitRun
  <2>1. timers = {} /\ queue = <<>> /\ timers' = {} /\ SetPending(AfterInit, queue)
    BY <1>3 DEF InitRun, Running, InHandler, WaitInv, PassingInv
  <2>2. pending' = AfterInit /\ AllBare(queue') /\ Len(queue') <= 1
    BY <1>1, <2>1, SetPendingBare DEF InHandler
  <2>3. Load' <= 3
    <3>1. Count({}) = 0 /\ Len(queue') \in Nat
      BY DEF Count, InHandler, TypeOK, CoreType
    <3> QED BY <2>1, <2>2, <3>1 DEF Load
  <2>4. pending' \in State /\ state # "ClientActivating"
    BY <1>2, <2>2 DEF AfterInit, State
  <2> QED BY <2>1, <2>2, <2>3, <2>4, LeaveWaits
<1>4. CASE IdleBeginHost
  <2>1. state = "Idle" /\ event.kind = "BeginHost" /\ SetPending("HostReqUpdate", queue)
        /\ timers' = timers
    BY <1>4 DEF IdleBeginHost, Running
  <2>2. pending' = "HostReqUpdate" /\ AllBare(queue') /\ Len(queue') <= Len(queue) + 1
    BY <1>1, <2>1, SetPendingBare DEF InHandler
  <2>3. Load <= 1
    BY <2>1, OutsideBody DEF InHandler, WaitInv, Spare, IsHost
  <2>4. Load' <= Load + 1 /\ Load' \in Nat
    BY <2>1, <2>2, LoadUnarmed DEF InHandler
  <2>5. Load' <= 3
    BY <1>1, <2>3, <2>4
  <2>6. "HostReqUpdate" \in State
    BY DEF State
  <2> QED BY <1>2, <2>1, <2>2, <2>5, <2>6, LeaveWaits
<1>5. CASE RefuseSameVersion \/ RefuseTooLarge
  <2>1. UNCHANGED <<timers, queue, pending, reset>> /\ state = "Idle"
    BY <1>5 DEF RefuseSameVersion, RefuseTooLarge, OfferRun, Running
  <2>2. state # "Init" /\ state \notin Waits
    BY <2>1 DEF Waits
  <2> QED BY <2>1, <2>2, QuietWaits
<1>6. CASE RefuseChunkSize \/ RefuseFlash
  <2>1. /\ timers' \subseteq timers /\ state = "Idle" /\ SetPending("Error", queue)
    BY <1>6 DEF RefuseChunkSize, RefuseFlash, ToError, OfferRun, Running
  <2>2. "Error" \in State \ Busy
    BY DEF State, Busy, Waits
  <2> QED BY <1>2, <2>1, <2>2, GivesUp
<1>7. CASE AcceptOffer
  <2>1. PICK f \in Firings(timers) :
          InTurn(f) /\ timers' = timers \ Fired(f) /\ SetPending("ClientReceiving", PostFired(queue, f))
    BY <1>7 DEF AcceptOffer
  <2> DEFINE q == PostFired(queue, f)
  <2>2. AllBare(q) /\ q \in Seq(Events) /\ Len(q) + Count(timers') <= Load
    BY <1>1, <2>1, FiredFacts DEF InHandler
  <2>3. pending' = "ClientReceiving" /\ queue' = Post(q, NOP)
    BY <2>1 DEF SetPending
  <2> HIDE DEF q
  <2>4. AllBare(queue') /\ Len(queue') <= Len(q) + 1
    BY <2>2, <2>3, PostBare DEF NOP
  <2>5. state = "Idle" /\ event.kind = "ReceivedUpdateRequest"
    BY <1>7 DEF AcceptOffer, OfferRun, Running
  <2>6. Load <= 1
    <3>1. event.kind \in MessageKind \ {"Abort"}
      BY <2>5 DEF MessageKind
    <3> QED BY <2>5, <3>1, OutsideBody DEF InHandler, WaitInv, Spare, IsHost
  <2>7. Load' <= 3
    <3>1. Len(queue') \in Nat /\ Count(timers') \in 0..3 /\ Len(q) \in Nat
      BY <2>2 DEF InHandler, TypeOK, CoreType, Count
    <3> QED BY <1>1, <2>2, <2>4, <2>6, <3>1 DEF Load
  <2>8. timers' \subseteq {"Chunk"} /\ "ClientReceiving" \in State
    BY <1>2, <2>1 DEF State
  <2> QED BY <2>3, <2>4, <2>5, <2>7, <2>8, LeaveWaits
<1> QED BY <1>3, <1>4, <1>5, <1>6, <1>7

\* The handlers of a host (dfu_host.rs), where no ACK or end is too short.
LEMMA HostWaits ==
  ASSUME InHandler, WaitAssumption,
         \/ HostReqAck \/ HostReqTimeout \/ HostAbort \/ ServeInternal \/ ServeStream
         \/ ChunkUnread \/ HostUpdateReboot \/ HostUpdateBooted \/ HostUpdateEnd
  PROVE  WaitInv'
<1>1. AllBare(queue) /\ queue \in Seq(Events) /\ Len(queue) \in Nat /\ Load \in Nat
  BY Unpack, LoadFacts DEF InHandler, WaitInv, QueueInv, QueueOK
<1>2. state \in {"HostReqUpdate", "HostUpdate"}
  BY DEF HostReqAck, HostReqTimeout, HostAbort, ServeInternal, ServeStream, ChunkUnread,
         HostUpdateReboot, HostUpdateBooted, HostUpdateEnd, Running
<1>3. timers \subseteq {"Chunk", Own(state)} /\ Own(state) \in {"Ack", "Update"}
  BY <1>2 DEF InHandler, WaitInv, TimersInv, Own
<1>4. {"Idle", "Error"} \subseteq State \ Busy
  BY DEF State, Busy, Waits
<1>e. ASSUME NEW err, HostError(err) PROVE WaitInv'
  <2>1. timers' \subseteq {"Chunk"} /\ SetPending("Error", queue)
    BY <1>3, <1>e DEF HostError, ToError
  <2> QED BY <1>2, <1>4, <2>1, GivesUp
<1>w. event.kind \in {"AckReceived", "UpdateEnd"} => event.body.whole
  <2> SUFFICES ASSUME event.kind \in {"AckReceived", "UpdateEnd"} PROVE event.body.whole
    OBVIOUS
  <2>1. event.kind \in MessageKind \ {"Abort"} /\ event.kind # "BeginHost"
    BY DEF MessageKind
  <2>2. event.body \in Messages /\ event.body.kind = event.kind
    BY <2>1, OutsideBody DEF InHandler, WaitInv, FromOutside
  <2> QED BY <2>2 DEF WaitAssumption
<1>5. CASE HostReqAck
  <2>1. /\ state = "HostReqUpdate" /\ event.kind = "AckReceived"
        /\ \/ timers' = timers \ {"Ack"} /\ SetPending("HostUpdate", queue)
           \/ HostError(event.body.err)
    BY <1>5, <1>w DEF HostReqAck, Running
  <2>2. CASE timers' = timers \ {"Ack"} /\ SetPending("HostUpdate", queue)
    <3>1. timers' \subseteq {"Chunk"} /\ timers' \subseteq timers
      BY <1>3, <2>1, <2>2 DEF Own
    <3>2. pending' = "HostUpdate" /\ AllBare(queue') /\ Len(queue') <= Len(queue) + 1
      BY <1>1, <2>2, SetPendingBare DEF InHandler
    <3>3. Load <= 2
      <4>1. event.kind \in MessageKind \ {"Abort"}
        BY <2>1 DEF MessageKind
      <4> QED BY <2>1, <4>1, OutsideBody DEF InHandler, WaitInv, Spare, IsHost
    <3>4. Load' <= Load + 1 /\ Load' \in Nat
      BY <3>1, <3>2, LoadUnarmed DEF InHandler
    <3>5. Load' <= 3 /\ "HostUpdate" \in State
      BY <1>1, <3>3, <3>4 DEF State
    <3> QED BY <2>1, <3>1, <3>2, <3>5, LeaveWaits
  <2> QED BY <1>e, <2>1, <2>2
<1>6. CASE HostReqTimeout
  <2>1. /\ state = "HostReqUpdate"
        /\ \/ HostError(TIMEOUT)
           \/ timers' = timers \cup {"Ack"} /\ UNCHANGED <<pending, queue>>
    BY <1>6 DEF HostReqTimeout, Running
  <2>2. CASE timers' = timers \cup {"Ack"} /\ UNCHANGED <<pending, queue>>
    <3>1. Own(state) = "Ack" /\ state \in Waits /\ "Ack" \in Timer
      BY <2>1 DEF Own, Waits, Timer
    <3>2. AllBare(queue') /\ Len(queue') <= Len(queue)
      BY <1>1, <2>2
    <3>3. Load' <= Load + 1
      BY <2>2, <3>1, <3>2, LoadArmed DEF InHandler
    <3> QED BY <2>2, <3>1, <3>2, <3>3, ArmWaits
  <2> QED BY <1>e, <2>1, <2>2
<1>7. CASE HostAbort \/ ChunkUnread
  <2>1. HostError(ABORTED) \/ HostError(event.body.err) \/ HostError(FLASH_ACCESS)
    BY <1>7 DEF HostAbort, ChunkUnread
  <2> QED BY <1>e, <2>1
<1>8. CASE ServeInternal \/ ServeStream \/ HostUpdateReboot \/ HostUpdateBooted
  <2>1. /\ UNCHANGED <<timers, queue, pending, reset>> /\ state = "HostUpdate"
        /\ event.kind \in {"ChunkRequest", "RebootRequest", "BootComplete"}
    BY <1>8 DEF ServeInternal, ServeStream, HostUpdateReboot, HostUpdateBooted, Running
  <2>2. event # Bare(TimerEvent(Own(state))) /\ state # "Init"
    <3>1. Bare(TimerEvent(Own(state))).kind = "Abort"
      BY <2>1 DEF Own, TimerEvent, Bare, Event
    <3> QED BY <2>1, <3>1
  <2> QED BY <2>1, <2>2, QuietWaits
<1>9. CASE HostUpdateEnd
  <2>1. /\ state = "HostUpdate" /\ timers' = timers \ {"Update"} /\ SetPending("Idle", queue)
    BY <1>9, <1>w DEF HostUpdateEnd, Running
  <2>2. timers' \subseteq {"Chunk"}
    BY <1>3, <2>1 DEF Own
  <2> QED BY <1>4, <2>1, <2>2, GivesUp
<1> QED BY <1>5, <1>6, <1>7, <1>8, <1>9

\* An event no handler is for is not one the machine waits with.
LEMMA IgnoredWaits ==
  ASSUME InHandler, RunIgnored
  PROVE  WaitInv'
<1>1. ~Handled(state, event.kind) /\ UNCHANGED <<timers, queue, pending, reset>>
  BY DEF RunIgnored
<1>2. state # "Init"
  BY <1>1 DEF Handled, InHandler, WaitInv, PassingInv
<1>3. state \in Waits => event # Bare(TimerEvent(Own(state)))
  <2> SUFFICES ASSUME state \in Waits, event = Bare(TimerEvent(Own(state)))
               PROVE  Handled(state, event.kind)
    BY <1>1
  <2>1. event.kind = TimerEvent(Own(state)) /\ event.body = NoBody
    BY DEF Bare, Event
  <2> QED BY <2>1 DEF Waits, Own, TimerEvent, Handled, IsHost
<1> QED BY <1>1, <1>2, <1>3, QuietWaits

\* No handler leaves the machine waiting without a timer (Dfu::run_state).
LEMMA RunWaits ==
  ASSUME TypeOK, TypeOK', PendingInv, WaitInv, WaitAssumption, RunState
  PROVE  WaitInv'
<1>1. pc = "run" /\ pc' = "take" /\ state' = state /\ event' = event
  BY DEF RunState, InitRun, IdleBeginHost, RefuseSameVersion, RefuseChunkSize, RefuseFlash,
         RefuseTooLarge, AcceptOffer, ReceiveChunk, ReceiveLastChunk, ReceivingTimeout,
         ReceivingRestart, ReceivingHeartbeat, RebootReqReboot, RebootReqTimeout, UpdateDoneEnd,
         UpdateDoneTimeout, HostReqAck, HostReqTimeout, HostAbort, ServeInternal, ServeStream,
         ChunkUnread, HostUpdateReboot, HostUpdateBooted, HostUpdateEnd, RunIgnored,
         OfferRun, ChunkRun, Retry, Running, StepVars
<1>2. InHandler
  BY <1>1 DEF InHandler
<1> QED BY <1>2, IdleWaits, ClientWaits, RestartWaits, HostWaits, IgnoredWaits DEF RunState

\* Every entry of a state that waits starts its timer, or asks for a reset
\* (Dfu::enter_state).
LEMMA EnterWaits ==
  ASSUME TypeOK, TypeOK', PendingInv, WaitInv, WaitAssumption, EnterState
  PROVE  WaitInv'
<1>1. pc = "enter" /\ pending = NoState /\ state' = state /\ pc' \in {"done", "commit"}
  BY DEF PendingInv, EnterState, EnterIdle, EnterError, EnterReceiving, EnterValidating,
         EnterRebootReq, EnterActivating, EnterWrongVersion, EnterBootComplete, EnterUnasked,
         EnterHostReqUpdate, EnterHostUpdate, RebootDoneEntry, Entering, Entered, EnterVars
<1>2. AllBare(queue) /\ queue \in Seq(Events) /\ Len(queue) \in Nat /\ Load \in Nat
  BY <1>1, Unpack, LoadFacts DEF WaitInv, QueueInv, QueueOK
<1>3. timers \subseteq {"Chunk"} /\ state # "Init"
  BY <1>1 DEF WaitInv, TimersInv, PassingInv
<1>4. state \in Busy => Load <= 3
  BY <1>1 DEF WaitInv, LoadInv
<1>5. Len(queue') \in Nat /\ Count(timers') \in 0..3 /\ Load' \in Nat
  BY DEF TypeOK, CoreType, Count, Load
<1>n. NoState \notin State /\ NoState \notin Busy
  BY DEF NoState, State, Busy, Waits
<1>6. ASSUME state \in Waits, timers' = timers \cup {Own(state)}, UNCHANGED <<pending, queue>>,
             pc' = "done"
      PROVE  WaitInv'
  <2>1. Own(state) \in Timer
    BY DEF Own, Timer
  <2>2. Load' <= Load + 1
    BY <1>2, <1>6, <2>1, LoadArmed
  <2>3. Load' <= 4
    BY <1>2, <1>4, <1>5, <1>6, <2>2 DEF Busy
  <2>4. TimersInv' /\ QueueInv'
    BY <1>1, <1>2, <1>3, <1>6 DEF TimersInv, QueueInv, AllBare
  <2>5. LoadInv' /\ WakeInv' /\ PassingInv'
    BY <1>1, <1>6, <2>3 DEF LoadInv, WakeInv, PassingInv, Coming, Waits
  <2> QED BY <2>4, <2>5 DEF WaitInv
<1>7. CASE EnterReceiving \/ EnterRebootReq \/ EnterBootComplete
  <2>1. /\ state \in {"ClientReceiving", "ClientRebootReq", "ClientRebootDone"} /\ pc' = "done"
        /\ timers' = timers \cup {"Chunk"} /\ UNCHANGED <<pending, queue>>
    BY <1>7 DEF EnterReceiving, EnterRebootReq, EnterBootComplete, RebootDoneEntry, Entering,
                Entered, RebootReqTimers
  <2>2. Own(state) = "Chunk" /\ state \in Waits
    BY <2>1 DEF Own, Waits
  <2> QED BY <1>6, <2>1, <2>2
<1>8. CASE EnterHostReqUpdate \/ EnterHostUpdate
  <2>1. /\ state \in {"HostReqUpdate", "HostUpdate"} /\ pc' = "done"
        /\ timers' = timers \cup {Own(state)} /\ UNCHANGED <<pending, queue>>
    BY <1>8 DEF EnterHostReqUpdate, EnterHostUpdate, Entering, Entered, HostUpdateTimers, Own
  <2> QED BY <1>6, <2>1 DEF Waits
<1>9. CASE EnterIdle \/ EnterError
  <2>1. /\ state \in {"Idle", "Error"} /\ pc' = "done" /\ timers' = timers
        /\ UNCHANGED <<pending, queue>> \/ SetPending("Idle", queue)
    BY <1>9 DEF EnterIdle, EnterError, Entering, Entered
  <2>2. AllBare(queue') /\ pending' \in {NoState, "Idle"}
    BY <1>1, <1>2, <2>1, SetPendingBare
  <2>3. TimersInv' /\ QueueInv'
    BY <1>1, <1>3, <2>1, <2>2 DEF TimersInv, QueueInv, AllBare
  <2>4. LoadInv' /\ WakeInv' /\ PassingInv'
    BY <1>1, <2>1 DEF LoadInv, WakeInv, PassingInv, Busy, Waits
  <2> QED BY <2>3, <2>4 DEF WaitInv
<1>10. CASE EnterValidating
  <2>1. /\ state = "ClientValidating" /\ pc' = "done" /\ timers' \subseteq timers
        /\ \E s \in {"Error", "ClientRebootReq"} : SetPending(s, queue)
    BY <1>10 DEF EnterValidating, Entering, Entered, ToError
  <2>2. AllBare(queue') /\ Len(queue') <= Len(queue) + 1 /\ pending' \in {"Error", "ClientRebootReq"}
    BY <1>2, <2>1, SetPendingBare
  <2>3. Load' <= Load + 1
    BY <2>1, <2>2, LoadUnarmed
  <2>4. Load' <= 4
    BY <1>2, <1>4, <1>5, <2>1, <2>3 DEF Busy
  <2>5. TimersInv' /\ QueueInv'
    BY <1>1, <1>3, <2>1, <2>2 DEF TimersInv, QueueInv, AllBare
  <2>6. LoadInv' /\ WakeInv' /\ PassingInv'
    BY <1>1, <2>1, <2>2, <2>4 DEF LoadInv, WakeInv, PassingInv, Waits, NoState
  <2> QED BY <2>5, <2>6 DEF WaitInv
<1>11. CASE EnterActivating \/ EnterWrongVersion
  <2>1. /\ state \in {"ClientActivating", "ClientRebootDone"} /\ pc' = "done" /\ reset' # NoReset
        /\ pending' = pending
    BY <1>11 DEF EnterActivating, EnterWrongVersion, RebootDoneEntry, Entering, Entered,
                 FailUpdate, NoReset
  <2>2. PICK f \in Firings(timers) :
          InTurn(f) /\ timers' = timers \ Fired(f) /\ queue' = PostFired(queue, f)
    BY <1>11 DEF EnterActivating, EnterWrongVersion, FailUpdate
  <2>3. AllBare(queue') /\ Len(queue') + Count(timers') <= Load
    BY <1>2, <2>2, FiredFacts
  <2>4. state \in Busy => Load' <= 4
    BY <1>2, <1>4, <1>5, <2>3 DEF Load
  <2>5. TimersInv' /\ QueueInv'
    BY <1>1, <1>3, <2>1, <2>2, <2>3 DEF TimersInv, QueueInv, AllBare
  <2>6. LoadInv' /\ WakeInv' /\ PassingInv'
    BY <1>1, <2>1, <2>4 DEF LoadInv, WakeInv, PassingInv
  <2> QED BY <2>5, <2>6 DEF WaitInv
<1>12. CASE EnterUnasked
  <2>1. /\ state = "ClientRebootDone" /\ UNCHANGED <<pending, queue, timers>>
    BY <1>12 DEF EnterUnasked, RebootDoneEntry, Entering
  <2>2. pc' = "commit"
    BY <1>12 DEF EnterUnasked, Outcome, WaitAssumption
  <2>3. TimersInv' /\ QueueInv'
    BY <1>1, <1>2, <1>3, <2>1, <2>2 DEF TimersInv, QueueInv, AllBare
  <2>4. LoadInv' /\ WakeInv' /\ PassingInv'
    BY <1>1, <2>1, <2>2 DEF LoadInv, WakeInv, PassingInv
  <2> QED BY <2>3, <2>4 DEF WaitInv
<1> QED BY <1>7, <1>8, <1>9, <1>10, <1>11, <1>12 DEF EnterState

\* An event from outside finds the queue empty, and no timer running but those
\* a machine at rest may have.
LEMMA InputWaits ==
  ASSUME TypeOK, TypeOK', PendingInv, WaitInv, WaitAssumption, NEW e, FromOutside(e), Callable,
         queue' = Append(queue, e),
         UNCHANGED <<state, pending, pc, timers, reset>>
  PROVE  WaitInv'
<1>1. pc = "ready" /\ queue = <<>>
  BY DEF WaitAssumption, Callable, AtRest
<1>2. pending = NoState
  BY <1>1 DEF PendingInv
<1>3. queue' = <<e>> /\ Len(queue') = 1 /\ queue'[1] = e /\ DOMAIN queue' = {1} /\ Len(queue) = 0
  BY <1>1
<1>4. timers \subseteq {"Chunk", Own(state)}
  BY <1>1, <1>2 DEF WaitInv, TimersInv
<1>5. Load' <= 1 + Spare(state) /\ Load' <= 4 /\ Load' \in Nat
  <2>1. Count(timers) <= Spare(state) /\ Count(timers) \in 0..3 /\ Spare(state) \in 1..2
    BY <1>4 DEF Count, Spare, Own, IsHost
  <2> QED BY <1>3, <2>1 DEF Load
<1>6. TimersInv' /\ QueueInv'
  <2>1. TimersInv'
    BY DEF WaitInv, TimersInv
  <2>2. QueueInv'
    BY <1>1, <1>3, <1>5 DEF QueueInv
  <2> QED BY <2>1, <2>2
<1>7. LoadInv'
  BY <1>1, <1>5 DEF LoadInv
<1>8. WakeInv' /\ PassingInv'
  BY <1>1 DEF WaitInv, WakeInv, PassingInv, Coming
<1> QED BY <1>6, <1>7, <1>8 DEF WaitInv

\* A timer that comes due finds room for its event.
LEMMA DueWaits ==
  ASSUME TypeOK, TypeOK', PendingInv, WaitInv, WaitAssumption, NEW t \in Timer, TimerDue(t)
  PROVE  WaitInv'
<1>1. /\ pc = "ready" /\ pc' = pc /\ state' = state /\ pending' = pending /\ reset' = reset
      /\ t \in timers /\ timers' = timers \ {t} /\ queue' = Post(queue, Bare(TimerEvent(t)))
  BY DEF TimerDue, Steppable, nodeVars, PostDue
<1>2. queue \in Seq(Events) /\ Len(queue) \in Nat /\ Load \in Nat /\ Len(queue') \in Nat
  BY Unpack, LoadFacts DEF QueueOK, TypeOK, CoreType
<1>3. /\ Len(queue') <= Len(queue) + 1
      /\ \A i \in DOMAIN queue : i \in DOMAIN queue' /\ queue'[i] = queue[i]
      /\ \A i \in DOMAIN queue' : queue'[i].body # NoBody
           => i \in DOMAIN queue /\ queue'[i] = queue[i]
  BY <1>1, <1>2, PostBare
<1>4. Count(timers') + 1 = Count(timers) /\ Count(timers) \in 0..3 /\ Count(timers') \in 0..3
  BY <1>1 DEF Count, Timer
<1>5. Load' <= Load /\ Load' \in Nat
  BY <1>2, <1>3, <1>4 DEF Load
<1>6. TimersInv' /\ LoadInv' /\ PassingInv'
  <2>1. TimersInv' /\ PassingInv'
    BY <1>1 DEF WaitInv, TimersInv, PassingInv
  <2>2. LoadInv'
    BY <1>1, <1>2, <1>5 DEF WaitInv, LoadInv
  <2> QED BY <2>1, <2>2
<1>7. QueueInv'
  <2>1. Spare(state) \in Nat
    BY DEF Spare
  <2> QED BY <1>1, <1>2, <1>3, <1>5, <2>1 DEF WaitInv, QueueInv
<1>8. WakeInv'
  <2> SUFFICES ASSUME state \in Waits, reset = NoReset PROVE Coming(Own(state))'
    BY <1>1 DEF WakeInv
  <2>1. Coming(Own(state))
    BY <1>1 DEF WaitInv, WakeInv
  <2>2. CASE Own(state) = t
    <3>1. Load <= 4
      BY <1>1 DEF WaitInv, LoadInv, Busy
    <3>2. Len(queue) < EVENT_QUEUE_LEN
      <4>1. Len(queue) <= 3
        BY <1>2, <1>4, <3>1 DEF Load
      <4> QED BY <1>2, <4>1, DfuAssumption DEF WaitAssumption
    <3>3. queue' = Append(queue, Bare(TimerEvent(t)))
      BY <1>1, <3>2 DEF Post, Put
    <3>4. Len(queue) + 1 \in DOMAIN queue' /\ queue'[Len(queue) + 1] = Bare(TimerEvent(t))
      BY <1>2, <3>3
    <3> QED BY <1>1, <2>2, <3>4 DEF Coming
  <2>3. CASE Own(state) # t
    BY <1>1, <1>3, <2>1, <2>3 DEF Coming
  <2> QED BY <2>2, <2>3
<1> QED BY <1>6, <1>7, <1>8 DEF WaitInv

\* Taking the head of the queue lightens the load, and runs the event that
\* was coming or leaves it coming.
LEMMA PopWaits ==
  ASSUME TypeOK, TypeOK', PendingInv, WaitInv, Pop
  PROVE  WaitInv'
<1>1. /\ pc = "ready" /\ pc' = "run" /\ state' = state /\ pending' = pending
      /\ timers' = timers /\ queue # <<>> /\ event' = Head(queue) /\ queue' = Tail(queue)
      /\ reset' = reset /\ reset = NoReset
  BY DEF Pop, Steppable, nodeVars
<1>2. queue \in Seq(Events) /\ Len(queue) \in Nat /\ Load \in Nat
  BY Unpack, LoadFacts DEF QueueOK
<1>3. /\ Len(queue') = Len(queue) - 1 /\ event' = queue[1] /\ 1 \in DOMAIN queue
      /\ \A i \in DOMAIN queue' : i + 1 \in DOMAIN queue /\ queue'[i] = queue[i + 1] /\ i + 1 # 1
      /\ \A i \in DOMAIN queue : i # 1 => i - 1 \in DOMAIN queue' /\ queue'[i - 1] = queue[i]
  BY <1>1, <1>2
<1>4. Load' = Load - 1
  BY <1>1, <1>2, <1>3, LoadFacts DEF Load
<1>5. TimersInv'
  BY <1>1 DEF WaitInv, TimersInv
<1>6. QueueInv'
  <2>1. \A i \in DOMAIN queue' : queue'[i].body = NoBody
    BY <1>3 DEF WaitInv, QueueInv
  <2>2. Spare(state) \in Nat
    BY DEF Spare
  <2>3. event'.body # NoBody => Load' <= Spare(state) /\ FromOutside(event')
    BY <1>2, <1>3, <1>4, <2>2 DEF WaitInv, QueueInv, FromOutside
  <2> QED BY <1>1, <2>1, <2>3 DEF QueueInv, AllBare, FromOutside
<1>7. LoadInv'
  BY <1>1, <1>2, <1>4 DEF WaitInv, LoadInv
<1>8. WakeInv'
  <2> SUFFICES ASSUME state \in Waits
               PROVE  Coming(Own(state))' \/ event' = Bare(TimerEvent(Own(state)))
    BY <1>1 DEF WakeInv
  <2>1. Coming(Own(state))
    BY <1>1 DEF WaitInv, WakeInv
  <2> QED BY <1>1, <1>3, <2>1 DEF Coming
<1>9. PassingInv'
  <2>1. state = "Init" => queue' = <<>> /\ event' = Bare("InitSuccess") /\ timers = {}
    <3>1. state = "Init" => queue = <<Bare("InitSuccess")>> /\ timers = {}
      BY <1>1 DEF WaitInv, PassingInv
    <3>2. ASSUME NEW e, queue = <<e>> PROVE Head(queue) = e /\ Tail(queue) = <<>>
      BY <3>2
    <3> QED BY <1>1, <3>1, <3>2
  <2>2. Bare("InitSuccess").kind = "InitSuccess"
    BY DEF Bare, Event
  <2> QED BY <1>1, <2>1, <2>2 DEF WaitInv, PassingInv
<1> QED BY <1>5, <1>6, <1>7, <1>8, <1>9 DEF WaitInv

\* A reset leaves nothing but the event that Init runs.
LEMMA ResetWaits ==
  ASSUME NEW pend, NEW ram, Reboot(pend, ram)
  PROVE  WaitInv'
<1>1. /\ state' = "Init" /\ pending' = NoState /\ pc' = "ready" /\ timers' = {}
      /\ queue' = <<Bare("InitSuccess")>>
  BY DEF Reboot
<1>2. Bare("InitSuccess").body = NoBody /\ NoState \notin Busy /\ "Init" \notin Busy
  BY DEF Bare, Event, NoState, Busy, Waits
<1>3. \A i \in DOMAIN queue' : queue'[i] = Bare("InitSuccess")
  BY <1>1
<1>4. TimersInv' /\ QueueInv'
  BY <1>1, <1>2, <1>3 DEF TimersInv, QueueInv
<1>5. LoadInv' /\ WakeInv' /\ PassingInv'
  BY <1>1, <1>2 DEF LoadInv, WakeInv, PassingInv, Waits
<1> QED BY <1>4, <1>5 DEF WaitInv

\* The steps that run no handler keep a waiting machine timed.
LEMMA RestWaits ==
  ASSUME TypeOK, TypeOK', PendingInv, WaitInv, WaitAssumption, [Next]_vars, ~RunState, ~EnterState
  PROVE  WaitInv'
<1>n. NoState \notin State /\ NoState \notin Busy
  BY DEF NoState, State, Busy, Waits
<1>1. CASE UNCHANGED <<state, pending, pc, event, queue, timers, reset>>
  <2>1. TimersInv' /\ QueueInv'
    BY <1>1 DEF WaitInv, TimersInv, QueueInv, Load
  <2>2. LoadInv' /\ WakeInv' /\ PassingInv'
    BY <1>1 DEF WaitInv, LoadInv, Load, WakeInv, Coming, PassingInv
  <2> QED BY <2>1, <2>2 DEF WaitInv
<1>2. ASSUME NEW m \in Messages, OnMessage(m) PROVE WaitInv'
  <2>1. FromOutside(Event(m.kind, m))
    BY DEF FromOutside, Event
  <2>2. /\ Callable /\ queue' = Append(queue, Event(m.kind, m))
        /\ UNCHANGED <<state, pending, pc, timers, reset>>
    BY <1>2 DEF OnMessage, Input, nodeVars
  <2> QED BY <2>1, <2>2, InputWaits
<1>3. ASSUME NEW r \in Requests, InitiateUpdate(r) PROVE WaitInv'
  <2>1. FromOutside(Event("BeginHost", r))
    BY DEF FromOutside, Event
  <2>2. /\ Callable /\ queue' = Append(queue, Event("BeginHost", r))
        /\ UNCHANGED <<state, pending, pc, timers, reset>>
    BY <1>3 DEF InitiateUpdate, Input, nodeVars
  <2> QED BY <2>1, <2>2, InputWaits
<1>4. ASSUME NEW r \in Requests, RefuseUpdate(r) PROVE WaitInv'
  BY <1>1, <1>4 DEF RefuseUpdate, coreVars
<1>5. ASSUME NEW d \in Feeds, HostQueueData(d) PROVE WaitInv'
  BY <1>1, <1>5 DEF HostQueueData, coreVars, nodeVars
<1>6. CASE TakeUpdateFinished \/ Transmit \/ UNCHANGED vars
  BY <1>1, <1>6 DEF TakeUpdateFinished, Transmit, vars, coreVars, nodeVars
<1>7. CASE KeepState
  <2>1. /\ pc = "take" /\ pending \in {NoState, state} /\ pending' = NoState /\ pc' = "done"
        /\ UNCHANGED <<state, event, queue, timers, reset>>
    BY <1>7 DEF KeepState, nodeVars
  <2>2. pending = NoState
    BY <2>1 DEF PendingInv, Moves
  <2>3. TimersInv' /\ QueueInv'
    BY <2>1, <2>2 DEF WaitInv, TimersInv, QueueInv, Load
  <2>4. LoadInv'
    BY <1>n, <2>1, <2>2 DEF WaitInv, LoadInv, Load
  <2>5. WakeInv' /\ PassingInv'
    BY <2>1, <2>2 DEF WaitInv, WakeInv, Coming, PassingInv
  <2> QED BY <2>3, <2>4, <2>5 DEF WaitInv
<1>8. CASE ChangeState
  <2>1. /\ pc = "take" /\ pending # NoState /\ state' = pending /\ pending' = NoState
        /\ pc' = "enter" /\ Moves(state, pending) /\ UNCHANGED <<event, queue, timers, reset>>
    BY <1>8 DEF ChangeState, nodeVars, PendingInv
  <2>2. TimersInv' /\ QueueInv'
    <3>1. AllBare(queue)
      BY <2>1 DEF WaitInv, QueueInv
    <3> QED BY <2>1, <3>1 DEF WaitInv, TimersInv, QueueInv, AllBare
  <2>3. LoadInv'
    BY <1>n, <2>1 DEF WaitInv, LoadInv, Load
  <2>4. WakeInv' /\ PassingInv'
    BY <2>1 DEF WakeInv, PassingInv, Moves
  <2> QED BY <2>2, <2>3, <2>4 DEF WaitInv
<1>9. CASE EndStep
  <2>1. /\ pc = "done" /\ pc' = "ready" /\ UNCHANGED <<state, pending, queue, timers, reset>>
    BY <1>9 DEF EndStep
  <2>2. TimersInv' /\ QueueInv'
    <3>1. AllBare(queue)
      BY <2>1 DEF WaitInv, QueueInv
    <3> QED BY <2>1, <3>1 DEF WaitInv, TimersInv, QueueInv, AllBare
  <2>3. LoadInv' /\ WakeInv' /\ PassingInv'
    BY <2>1 DEF WaitInv, LoadInv, Load, WakeInv, Coming, PassingInv
  <2> QED BY <2>2, <2>3 DEF WaitInv
<1>10. CASE TakeReset \/ CommitReset \/ Crash
  BY <1>10, ResetWaits DEF TakeReset, CommitReset, Crash
<1> QED BY <1>2, <1>3, <1>4, <1>5, <1>6, <1>7, <1>8, <1>9, <1>10, DueWaits, PopWaits
        DEF Next, Step, Environment, Wait

\* Under WaitAssumption, a machine that has run everything queued and waits for
\* its peer has the timer running that gives up on the peer: that timer's event
\* is never dropped from a full queue, and no handler stops the timer and stays.
THEOREM WaitingTimed ==
  ASSUME WaitAssumption
  PROVE  Spec => []WaitingIsTimed
<1>1. Init => WaitInv
  <2> SUFFICES ASSUME Init PROVE WaitInv
    OBVIOUS
  <2>1. /\ state = "Init" /\ pending = NoState /\ pc = "ready" /\ timers = {}
        /\ queue = <<Bare("InitSuccess")>>
    BY DEF Init
  <2>2. Bare("InitSuccess").body = NoBody /\ NoState \notin Busy /\ "Init" \notin Busy
    BY DEF Bare, Event, NoState, Busy, Waits
  <2>3. \A i \in DOMAIN queue : queue[i] = Bare("InitSuccess")
    BY <2>1
  <2>4. TimersInv /\ QueueInv
    BY <2>1, <2>2, <2>3 DEF TimersInv, QueueInv
  <2>5. LoadInv /\ WakeInv /\ PassingInv
    BY <2>1, <2>2 DEF LoadInv, WakeInv, PassingInv, Waits
  <2> QED BY <2>4, <2>5 DEF WaitInv
<1>2. TypeOK /\ TypeOK' /\ PendingInv /\ WaitInv /\ [Next]_vars => WaitInv'
  BY RunWaits, EnterWaits, RestWaits
<1>3. PendingInv /\ WaitInv => WaitingIsTimed
  <2> SUFFICES ASSUME PendingInv, WaitInv, AtRest PROVE WaitingIsTimed
    BY DEF WaitingIsTimed
  <2>1. pc = "ready" /\ queue = <<>> /\ reset = NoReset
    BY DEF AtRest
  <2>2. state \in Waits => Own(state) \in timers
    BY <2>1 DEF WaitInv, WakeInv, Coming
  <2>3. state \notin {"Init", "ClientValidating", "ClientActivating"}
    BY <2>1 DEF WaitInv, PassingInv, PendingInv
  <2> QED BY <2>2, <2>3 DEF WaitingIsTimed, Waits, Own
<1> QED BY <1>1, <1>2, <1>3, TypeCorrect, PendingWakes, PTL DEF Spec
=============================================================================
