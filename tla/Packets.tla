------------------------------ MODULE Packets ------------------------------
(***************************************************************************)
(* Sequenced requests on one node: the packet registry of bm-wire          *)
(* (bcmp/registry.rs), which numbers requests, matches replies and sweeps  *)
(* out what went unanswered, with the frames bm-stack holds for re-sending *)
(* (node/held.rs) and the calls that join them (node.rs, node/registry.rs).*)
(*                                                                         *)
(* Each entry point is one action.  The sweep is a loop over the           *)
(* outstanding requests and is modelled by one action per iteration, with  *)
(* index the loop's variable; no other call starts while it runs.          *)
(*                                                                         *)
(* The clock is the wrapping millisecond counter.  message_count, also     *)
(* 32 bits wide, is not made to wrap: that takes 2^32 requests, and one    *)
(* lives a few sweeps.  A frame is abstracted to the number and the type   *)
(* it carries.  A definition marked "slip" is a plausible mistake in the   *)
(* one after it; nothing uses it.                                          *)
(***************************************************************************)
EXTENDS Lists, Clocks, FiniteSets

CONSTANTS
  MessageType,
  InitTypes,                  \* the types Node::new registers
  Registrations,              \* the ones an application adds and removes
  TYPES, PENDING,             \* capacities
  PACKET_RETRY_COUNT,
  DEFAULT_MESSAGE_TIMEOUT_MS,
  MESSAGE_TIMER_EXPIRY_PERIOD_MS,
  Late,                       \* how long after its time a sweep may be called
  Prompt,                     \* TRUE: Node::run_app, which re-sends after a sweep
  Unencodable,                \* request types whose body may fail to encode
  MaxRequests                 \* bound: requests sent

RETRIES == PACKET_RETRY_COUNT
TIMEOUT == DEFAULT_MESSAGE_TIMEOUT_MS
PERIOD == MESSAGE_TIMER_EXPIRY_PERIOD_MS

PacketCfg == [reply : BOOLEAN, request : BOOLEAN]
Registration == [type : MessageType, cfg : PacketCfg]
Ids == 0..MaxRequests - 1

ASSUME PacketsAssumption ==
  /\ "free" \notin MessageType
  /\ InitTypes \in Seq(Registration) /\ Len(InitTypes) <= TYPES
  /\ Registrations \subseteq Registration
  /\ TYPES \in Nat /\ PENDING \in Nat
  /\ RETRIES \in Nat /\ TIMEOUT \in Nat \ {0} /\ PERIOD \in Nat \ {0} /\ Late \in Nat
  /\ 2 * PERIOD <= ClockWrap /\ 2 * Late < ClockWrap /\ TIMEOUT + PERIOD + Late <= ClockWrap
  /\ Prompt \in BOOLEAN
  /\ Unencodable \subseteq MessageType
  /\ MaxRequests \in Nat

VARIABLES
  types,        \* the registrations, in order
  pending,      \* the outstanding requests, in the order they were sent
  count,        \* message_count
  next_sweep,   \* next_sweep_ms
  now,          \* the clock
  index,        \* of the sweep's loop; 0 when no sweep runs
  slots, due,   \* HeldRequests
  sends,        \* history: how often each request was put on the wire
  told,         \* history: the events the application was given of each
  age,          \* history: how long each has been outstanding
  phase         \* history: time since the node started, modulo PERIOD

registryVars == <<types, pending, count, next_sweep>>
heldVars == <<slots, due>>
history == <<sends, told, age, phase>>
vars == <<registryVars, heldVars, now, index, history>>

Free == [seq |-> 0, type |-> "free"]
Frame == [seq : Ids, type : MessageType]
Request == [type : MessageType, seq : Ids, timestamp : Clock, retries : 0..RETRIES]

------------------------------------------------------------------------------
\* RegistryView::cfg: the first registration decides.
Registered(t) == {i \in DOMAIN types : types[i].type = t}
Cfg(t) == types[First(Registered(t))].cfg
\* A type both a reply and a request is sent as a reply and matched as neither.
IsRequest(t) == Registered(t) # {} /\ Cfg(t).request /\ ~Cfg(t).reply
IsReply(t) == Registered(t) # {} /\ Cfg(t).reply /\ ~Cfg(t).request

\* PendingRequest::expired_at.
SinceSent(r) == (now - r.timestamp) % ClockWrap
Expired(r) == SinceSent(r) >= TIMEOUT
RetriesLeftAtLimit(r) == r.retries <= RETRIES  \* slip
RetriesLeft(r) == r.retries < RETRIES
\* (now - next_sweep) as i32 is not negative.
SinceDue == (now - next_sweep) % ClockWrap
SweepDueUnsigned == now >= next_sweep  \* slip
SweepDue == 2 * SinceDue < ClockWrap

------------------------------------------------------------------------------
(* HeldRequests. *)

FreeSlots == {i \in 1..PENDING : slots[i] = Free}
SlotsOf(s) == {i \in 1..PENDING : slots[i] # Free /\ slots[i].seq = s}
DueAt(s) == {i \in DOMAIN due : due[i] = s}

Hold(s, t) ==
  slots' = IF FreeSlots = {} THEN slots
           ELSE [slots EXCEPT ![First(FreeSlots)] = [seq |-> s, type |-> t]]

Undue(s) == IF DueAt(s) = {} THEN due ELSE Without(due, First(DueAt(s)))

ReleaseUndueOnly(s) == due' = Undue(s) /\ UNCHANGED slots  \* slip
Release(s) ==
  /\ slots' = IF SlotsOf(s) = {} THEN slots
              ELSE [slots EXCEPT ![First(SlotsOf(s))] = Free]
  /\ due' = Undue(s)

MarkDue(s) ==
  due' = IF SlotsOf(s) # {} /\ DueAt(s) = {} /\ Len(due) < PENDING
         THEN Append(due, s) ELSE due

------------------------------------------------------------------------------
\* Registry::new and Node::new.
Init ==
  /\ types = InitTypes /\ pending = <<>> /\ count = 0
  /\ now = 0 /\ next_sweep = PERIOD /\ index = 0
  /\ slots = [i \in 1..PENDING |-> Free] /\ due = <<>>
  /\ sends = [i \in Ids |-> 0] /\ told = [i \in Ids |-> <<>>]
  /\ age = [i \in Ids |-> 0] /\ phase = 0

\* Node::run_app puts every re-send a sweep queued on the wire before it takes
\* the next call; a node driven by hand may be called with re-sends queued.
Callable == index = 0 /\ (Prompt => due = <<>>)

\* Registry::add.  Duplicates are allowed; a full list refuses.
Register(r) ==
  /\ Callable
  /\ Len(types) < TYPES
  /\ types' = Append(types, r)
  /\ UNCHANGED <<pending, count, next_sweep, heldVars, now, index, history>>

\* Registry::remove.
Unregister(t) ==
  /\ Callable
  /\ Registered(t) # {}
  /\ types' = Without(types, First(Registered(t)))
  /\ UNCHANGED <<pending, count, next_sweep, heldVars, now, index, history>>

HasRoom == Len(pending) < PENDING
\* Node::send_with for a request: on_serialize numbers it and tracks it where
\* there is room, then build_outbound builds its frame and holds it.  Any
\* other type leaves the registry alone.
SendRequest(t) ==
  /\ Callable
  /\ IsRequest(t)
  /\ count < MaxRequests
  /\ count' = count + 1
  /\ \E built \in IF t \in Unencodable THEN BOOLEAN ELSE {TRUE} :
       /\ IF HasRoom
          THEN /\ pending' = Append(pending, [type |-> t, seq |-> count,
                                              timestamp |-> now, retries |-> 0])
               /\ IF built THEN Hold(count, t) ELSE UNCHANGED slots
          ELSE UNCHANGED <<pending, slots>>
       /\ sends' = [sends EXCEPT ![count] = IF built THEN 1 ELSE 0]
  /\ UNCHANGED <<types, next_sweep, due, now, index, told, age, phase>>

\* Node::submit, a reply that answers an outstanding request: matched on the
\* number alone.  Any other message is dispatched and leaves all this alone.
ReceiveReply(t, s) ==
  /\ Callable
  /\ IsReply(t)
  /\ \E i \in DOMAIN pending : pending[i].seq = s
  /\ pending' = Without(pending, First({i \in DOMAIN pending : pending[i].seq = s}))
  /\ Release(s)
  /\ told' = [told EXCEPT ![s] = Append(@, "Reply")]
  /\ age' = [age EXCEPT ![s] = 0]
  /\ UNCHANGED <<types, count, next_sweep, now, index, sends, phase>>

------------------------------------------------------------------------------
(* Registry::on_tick and Node::sweep, called from on_expiry and on_tick. *)

\* The sweep's time moves on by whole periods, past every sweep missed.
FromNow == (now + PERIOD) % ClockWrap  \* slip
NextSweep == (next_sweep + PERIOD * (SinceDue \div PERIOD + 1)) % ClockWrap
BeginSweep ==
  /\ Callable
  /\ SweepDue
  /\ next_sweep' = NextSweep
  /\ index' = 1
  /\ UNCHANGED <<types, pending, count, heldVars, now, history>>

Sweeping == index > 0 /\ index <= Len(pending)

SweepUnexpired ==
  /\ Sweeping /\ ~Expired(pending[index])
  /\ index' = index + 1
  /\ UNCHANGED <<registryVars, heldVars, now, history>>

SweepUnstamped ==  \* slip
  /\ Sweeping /\ Expired(pending[index]) /\ RetriesLeft(pending[index])
  /\ pending' = [pending EXCEPT ![index].retries = @ + 1]
  /\ MarkDue(pending[index].seq)
  /\ index' = index + 1
  /\ UNCHANGED <<types, count, next_sweep, slots, now, history>>
SweepRetry ==
  /\ Sweeping /\ Expired(pending[index]) /\ RetriesLeft(pending[index])
  /\ pending' = [pending EXCEPT ![index].retries = @ + 1, ![index].timestamp = now]
  /\ MarkDue(pending[index].seq)
  /\ index' = index + 1
  /\ UNCHANGED <<types, count, next_sweep, slots, now, history>>

SweepTimedOut ==
  /\ Sweeping /\ Expired(pending[index]) /\ ~RetriesLeft(pending[index])
  /\ pending' = Without(pending, index)
  /\ Release(pending[index].seq)
  /\ told' = [told EXCEPT ![pending[index].seq] = Append(@, "Timeout")]
  /\ age' = [age EXCEPT ![pending[index].seq] = 0]
  /\ UNCHANGED <<types, count, next_sweep, now, index, sends, phase>>

EndSweep ==
  /\ index > Len(pending)
  /\ index' = 0
  /\ UNCHANGED <<registryVars, heldVars, now, history>>

\* Node::next_retransmission: the frame at the head of the queue, if a slot
\* still holds it.
Retransmit ==
  /\ index = 0
  /\ due # <<>>
  /\ due' = Undue(due[1])
  /\ sends' = IF SlotsOf(due[1]) = {} THEN sends
              ELSE [sends EXCEPT ![slots[First(SlotsOf(due[1]))].seq] = @ + 1]
  /\ UNCHANGED <<registryVars, slots, now, index, told, age, phase>>

\* A millisecond passes.  A sweep is called at most Late after its time.
Outstanding(s) == \E i \in DOMAIN pending : pending[i].seq = s
Tick ==
  /\ index = 0
  /\ SweepDue => SinceDue < Late
  /\ now' = (now + 1) % ClockWrap
  /\ phase' = (phase + 1) % PERIOD
  /\ age' = [s \in Ids |-> IF Outstanding(s) THEN age[s] + 1 ELSE age[s]]
  /\ UNCHANGED <<registryVars, heldVars, index, sends, told>>

Sweep == BeginSweep \/ SweepUnexpired \/ SweepRetry \/ SweepTimedOut \/ EndSweep

Next ==
  \/ \E r \in Registrations : Register(r) \/ Unregister(r.type)
  \/ \E t \in MessageType : SendRequest(t)
  \/ \E t \in MessageType, s \in Ids : ReceiveReply(t, s)
  \/ Sweep \/ Retransmit \/ Tick

Spec == Init /\ [][Next]_vars

------------------------------------------------------------------------------
(* Properties. *)

\* Every variable has its type, and every bounded list its bound.
TypeOK ==
  /\ types \in Seq(Registration) /\ Len(types) <= TYPES
  /\ pending \in Seq(Request) /\ Len(pending) <= PENDING
  /\ count \in 0..MaxRequests
  /\ next_sweep \in Clock /\ now \in Clock
  /\ index \in 0..PENDING + 1
  /\ slots \in [1..PENDING -> Frame \cup {Free}]
  /\ due \in Seq(Ids) /\ Len(due) <= PENDING
  /\ sends \in [Ids -> Nat]
  /\ told \in [Ids -> Seq({"Reply", "Timeout"})]
  /\ age \in [Ids -> Nat]
  /\ phase \in 0..PERIOD - 1

\* A frame is held for exactly the outstanding requests, each in one slot, as
\* it was sent: no answer or timeout leaks a slot, and so no later request
\* goes out without one (HeldRequests: "a tracked request always has somewhere
\* to go").
HeldIsOutstanding ==
  /\ \A i \in 1..PENDING : slots[i] # Free =>
       \E j \in DOMAIN pending : /\ pending[j].seq = slots[i].seq
                                 /\ pending[j].type = slots[i].type
  /\ \A i, j \in 1..PENDING :
       slots[i] # Free /\ slots[j] # Free /\ slots[i].seq = slots[j].seq => i = j
  /\ Unencodable = {} => \A j \in DOMAIN pending : SlotsOf(pending[j].seq) # {}

\* A re-send is queued only for a request still outstanding, and once: one
\* answered between the sweep and its re-send is not sent again
\* (HeldRequests::release, mark_due).
DueIsOutstanding ==
  /\ \A i \in DOMAIN due : Outstanding(due[i])
  /\ \A i, j \in DOMAIN due : due[i] = due[j] => i = j

\* What HeldRequests keeps and queues is what the registry tracks, in whatever
\* order requests are sent, answered, re-sent and given up on.
FramesMatchRequests == HeldIsOutstanding /\ DueIsOutstanding

\* The sweep stays on the grid of whole periods since the node started,
\* however late it is called and across the wrap of the clock
\* (Registry::on_tick: "Advancing the phase by whole periods").
SweepsOnGrid ==
  LET ahead == (next_sweep - now) % ClockWrap
  IN IF SweepDue THEN SinceDue % PERIOD = phase ELSE (ahead + phase) % PERIOD = 0

\* A request is given up on no earlier than the timeout after its last send,
\* each of its sends that long after the one before (Registry::sweep
\* restamps it).
GivenUpInTime ==
  [][\A s \in Ids : told'[s] # told[s] /\ told'[s] = <<"Timeout">> =>
       age[s] >= (RETRIES + 1) * TIMEOUT]_vars

\* No request stays outstanding longer than the sweeps take that find it
\* expired, across the wrap of the clock too.
OutstandingIsBounded ==
  \A s \in Ids : age[s] <= (RETRIES + 1) * (TIMEOUT + PERIOD - 1 + Late)

\* A request is reported as timed out only "after re-sending it
\* PACKET_RETRY_COUNT times" (Event::Timeout).
TimedOutWasResent ==
  \A s \in Ids : "Timeout" \in {told[s][i] : i \in DOMAIN told[s]} => sends[s] = 1 + RETRIES

------------------------------------------------------------------------------
(* What the registry promises of each request. *)

StatusOf(s) ==
  IF s >= count THEN "new"
  ELSE IF Outstanding(s) THEN "open"
  ELSE IF told[s] = <<"Reply">> THEN "answered"
  ELSE IF told[s] = <<"Timeout">> THEN "timedout"
  ELSE "untracked"

Promised == INSTANCE Exchange WITH
  MaxSends <- 1 + RETRIES,
  Exact <- Prompt /\ Unencodable = {},
  status <- [s \in Ids |-> StatusOf(s)]

\* Every request is sent and re-sent as Exchange says and has one outcome at
\* most: no reply and no sweep, in whatever order, concludes it twice, drops
\* it without a word or sends it once it is over.
OneOutcomeEach == Promised!Spec
=============================================================================
