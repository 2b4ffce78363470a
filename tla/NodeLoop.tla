------------------------------ MODULE NodeLoop ------------------------------
(***************************************************************************)
(* The tasks of a running node and how they wake each other: the loop of   *)
(* bm-stack node/run.rs over its six arms, application tasks that reach it *)
(* through the two queues of channel.rs, and the ADIN2111's driver, which  *)
(* moves frames on its own (bm-phy-adin2111).                              *)
(*                                                                         *)
(* The tasks may run on executors of different priority, so that one runs  *)
(* between any two steps of another.  A task that waits is polled again    *)
(* once its waker was called; woken is that call.  What the node makes of  *)
(* a frame, a timer or a command is in the other modules: here it is how   *)
(* many frames it sends and which events it reports.                       *)
(*                                                                         *)
(* A definition marked "slip" is a plausible mistake in the one after it;  *)
(* nothing uses it.                                                        *)
(***************************************************************************)
EXTENDS Integers, Sequences, FiniteSets

CONSTANTS
  N_RX, N_TX,      \* the driver's receive and transmit queues
  COUNT,           \* the buffers of the packet pool
  DEPTH,           \* the capacity of each of the channel's queues
  Owable,          \* how many frames an arm may have to send
  Reports,         \* which events an arm may report, as sequences
  Tasks,           \* application tasks that send commands
  MaxCommands, MaxFrames, MaxTimers   \* bounds: commands per task, frames, timers

ASSUME NodeLoopAssumption ==
  /\ N_RX \in Nat \ {0} /\ N_TX \in Nat \ {0} /\ DEPTH \in Nat \ {0}
  /\ COUNT \in Nat /\ COUNT > N_RX + N_TX
  /\ Owable \subseteq Nat /\ Reports \subseteq Seq({"owned", "large", "other"})
  /\ MaxCommands \in Nat /\ MaxFrames \in Nat /\ MaxTimers \in Nat

\* The four timers of the loop, in the order they are polled.
Timers == <<"tick", "expiry", "service", "one-shot">>
None == <<>>

VARIABLES
  pc,               \* where the loop is
  owed,             \* the frames it has left to send
  next,             \* ChannelApp's command, received and not carried out
  woken, phy_waker, command_waker,
  due,              \* the timers that are due
  pool, empty, rx, tx,             \* buffers: free, for the driver to fill, filled, to send
  commands, notifications, dropped,
  frames, fired,    \* bounds: how many frames and timers came
  sent, acted,      \* history: the commands queued, and those carried out
  reported, read    \* history: how many events became or should have become
                    \* notifications, and how many were read

driver == <<pool, empty, rx, tx>>
queues == <<commands, notifications, dropped, next>>
wakers == <<woken, phy_waker, command_waker>>
bounds == <<frames, fired>>
history == <<sent, acted, reported, read>>
vars == <<pc, owed, due, driver, queues, wakers, bounds, history>>

At(here, there) == pc = here /\ pc' = there

------------------------------------------------------------------------------
(* The loop: one pass of run_app. *)

\* receive begins: the driver gets all the buffers it asks for.
GreedyRefill(wanted) == pool  \* slip
Refill(wanted) == IF wanted < pool THEN wanted ELSE pool
Enter ==
  /\ At("enter", "receive")
  /\ LET n == Refill(N_RX - empty - rx) IN pool' = pool - n /\ empty' = empty + n
  /\ UNCHANGED <<owed, due, rx, tx, queues, wakers, bounds, history>>

\* A frame that is there is copied out and its buffer given back.
Take == rx' = rx - 1 /\ pool' = pool + 1 /\ UNCHANGED <<empty, tx>>
Receive ==
  /\ \/ rx > 0 /\ At("receive", "frame") /\ Take
     \/ rx = 0 /\ At("receive", "register") /\ UNCHANGED driver
  /\ UNCHANGED <<owed, due, queues, wakers, bounds, history>>
Register ==
  /\ At("register", "recheck")
  /\ phy_waker' = TRUE
  /\ UNCHANGED <<owed, due, driver, queues, woken, command_waker, bounds, history>>
\* "re-check after registering"
NoRecheck == pc' = "timers" /\ UNCHANGED driver  \* slip
Recheck ==
  \/ rx > 0 /\ pc' = "frame" /\ Take
  \/ rx = 0 /\ pc' = "timers" /\ UNCHANGED driver
ReceiveAgain ==
  /\ pc = "recheck"
  /\ Recheck
  /\ UNCHANGED <<owed, due, queues, wakers, bounds, history>>

\* The timers in their order; none due leaves their wakers behind.
PollTimers ==
  /\ \/ \E i \in DOMAIN Timers :
          /\ Timers[i] \in due /\ \A j \in 1..i - 1 : Timers[j] \notin due
          /\ At("timers", "timer") /\ due' = due \ {Timers[i]}
     \/ due = {} /\ At("timers", "ready") /\ UNCHANGED due
  /\ UNCHANGED <<owed, driver, queues, wakers, bounds, history>>

\* ready, polled last: it takes a command and resolves, or waits for one.
PollReady ==
  /\ IF next = None /\ commands = <<>>
     THEN At("ready", "pending") /\ command_waker' = TRUE /\ UNCHANGED <<commands, next>>
     ELSE /\ At("ready", "act") /\ UNCHANGED command_waker
          /\ next' = IF next # None THEN next ELSE <<Head(commands)>>
          /\ commands' = IF next # None THEN commands ELSE Tail(commands)
  /\ UNCHANGED <<owed, due, driver, notifications, dropped, woken, phy_waker, bounds, history>>
\* Polled again, with the same futures.
Woken ==
  /\ At("pending", "receive") /\ woken
  /\ woken' = FALSE
  /\ UNCHANGED <<owed, due, driver, queues, phy_waker, command_waker, bounds, history>>

\* notify: an event that is too large, or meets a full queue, is counted; one
\* with no Notification is not.
Owned(events) == Cardinality({i \in DOMAIN events : events[i] = "owned"})
Notable(events) == Cardinality({i \in DOMAIN events : events[i] # "other"})
Notify(events) ==
  LET room == DEPTH - notifications
      taken == IF Owned(events) < room THEN Owned(events) ELSE room
  IN  /\ notifications' = notifications + taken
      /\ dropped' = dropped + Notable(events) - taken
      /\ reported' = reported + Notable(events)
\* on_frame_with, on_tick_with, on_expiry, on_service_expiry and
\* on_neighbor_request_timer: their events, and what they and DFU then send.
Handle ==
  /\ pc \in {"frame", "timer"} /\ pc' = "send"
  /\ owed' \in Owable
  /\ \E events \in Reports : Notify(events)
  /\ UNCHANGED <<due, driver, commands, next, wakers, bounds, sent, acted, read>>
\* act takes the command.
Kept == next  \* slip
Taken == None
Act ==
  /\ At("act", "send")
  /\ next' = Taken
  /\ acted' = acted \o next
  /\ owed' \in Owable
  /\ \E events \in Reports : Notify(events)
  /\ UNCHANGED <<due, driver, commands, wakers, bounds, sent, read>>

\* transmit, deliver, reflood, retransmit and transmit_dfu: frame by frame, and
\* the first that cannot be sent ends the loop.
Alloc ==
  /\ pc = "send"
  /\ pc' = IF owed = 0 THEN "enter" ELSE IF pool = 0 THEN "stopped" ELSE "transmit"
  /\ IF owed > 0 /\ pool > 0 THEN pool' = pool - 1 /\ owed' = owed - 1
     ELSE UNCHANGED <<owed, pool>>
  /\ UNCHANGED <<due, empty, rx, tx, queues, wakers, bounds, history>>
Transmit ==
  /\ \/ tx < N_TX /\ At("transmit", "send") /\ tx' = tx + 1
     \/ tx = N_TX /\ At("transmit", "full") /\ UNCHANGED tx
  /\ UNCHANGED <<owed, due, pool, empty, rx, queues, wakers, bounds, history>>
RegisterFull ==
  /\ At("full", "again")
  /\ phy_waker' = TRUE
  /\ UNCHANGED <<owed, due, driver, queues, woken, command_waker, bounds, history>>
NoRetry == pc' = "blocked" /\ UNCHANGED tx  \* slip
Retry ==
  \/ tx < N_TX /\ pc' = "send" /\ tx' = tx + 1
  \/ tx = N_TX /\ pc' = "blocked" /\ UNCHANGED tx
TransmitAgain ==
  /\ pc = "again"
  /\ Retry
  /\ UNCHANGED <<owed, due, pool, empty, rx, queues, wakers, bounds, history>>
Unblocked ==
  /\ At("blocked", "transmit") /\ woken
  /\ woken' = FALSE
  /\ UNCHANGED <<owed, due, driver, queues, phy_waker, command_waker, bounds, history>>

Loop ==
  \/ Enter \/ Receive \/ Register \/ ReceiveAgain \/ PollTimers \/ PollReady \/ Woken
  \/ Handle \/ Act \/ Alloc \/ Transmit \/ RegisterFull \/ TransmitAgain \/ Unblocked

------------------------------------------------------------------------------
(* The other tasks. *)

WakePhy == woken' = (woken \/ phy_waker) /\ phy_waker' = FALSE

\* The driver's runner (external): a frame comes in if there is a buffer for
\* it, and a frame goes out and gives its buffer back.
FrameArrives ==
  /\ frames < MaxFrames /\ frames' = frames + 1
  /\ IF empty > 0
     THEN empty' = empty - 1 /\ rx' = rx + 1 /\ WakePhy
     ELSE UNCHANGED <<empty, rx, woken, phy_waker>>
  /\ UNCHANGED <<pc, owed, due, pool, tx, queues, command_waker, fired, history>>
FrameLeaves ==
  /\ tx > 0
  /\ tx' = tx - 1 /\ pool' = pool + 1
  /\ WakePhy
  /\ UNCHANGED <<pc, owed, due, empty, rx, queues, command_waker, bounds, history>>

TimerDue(t) ==
  /\ fired < MaxTimers /\ fired' = fired + 1
  /\ due' = due \cup {t} /\ woken' = (woken \/ pc \in {"ready", "pending"})
  /\ UNCHANGED <<pc, owed, driver, queues, phy_waker, command_waker, frames, history>>

\* NodeHandle::send waits for room; NodeHandle::notification takes the oldest.
By(a, list) == Cardinality({i \in DOMAIN list : list[i][1] = a})
Queued(a) == By(a, sent)
SendCommand(a) ==
  /\ Queued(a) < MaxCommands /\ Len(commands) < DEPTH
  /\ LET c == <<a, Queued(a)>> IN commands' = Append(commands, c) /\ sent' = Append(sent, c)
  /\ woken' = (woken \/ command_waker) /\ command_waker' = FALSE
  /\ UNCHANGED <<pc, owed, due, driver, notifications, dropped, next, phy_waker, bounds,
                 acted, reported, read>>
ReadNotification ==
  /\ notifications > 0
  /\ notifications' = notifications - 1 /\ read' = read + 1
  /\ UNCHANGED <<pc, owed, due, driver, commands, dropped, next, wakers, bounds, sent, acted,
                 reported>>

------------------------------------------------------------------------------
\* run_app first sends what DFU has to.
Init ==
  /\ pc = "send" /\ owed \in Owable /\ next = None
  /\ woken = FALSE /\ phy_waker = FALSE /\ command_waker = FALSE
  /\ due = {}
  /\ pool = COUNT /\ empty = 0 /\ rx = 0 /\ tx = 0
  /\ commands = <<>> /\ notifications = 0 /\ dropped = 0
  /\ frames = 0 /\ fired = 0
  /\ sent = <<>> /\ acted = <<>> /\ reported = 0 /\ read = 0

Next ==
  \/ Loop \/ FrameArrives \/ FrameLeaves
  \/ \E i \in DOMAIN Timers : TimerDue(Timers[i])
  \/ \E a \in Tasks : SendCommand(a)
  \/ ReadNotification

Spec == Init /\ [][Next]_vars

\* The executors poll a task that was woken, and the driver sends what it is
\* given.  Nothing is assumed of the application's tasks but that one that is
\* waiting to send does so when there is room.
FairSpec ==
  /\ Spec
  /\ WF_vars(Loop) /\ WF_vars(FrameLeaves)
  /\ \A a \in Tasks : WF_vars(SendCommand(a))

------------------------------------------------------------------------------
Held == IF pc \in {"transmit", "full", "again", "blocked"} THEN 1 ELSE 0

\* Phy::send "the packet pool is empty", the one way out of the loop that the
\* node's own traffic could take: refill_rx, send and receive leave every
\* buffer accounted for, and one for the next frame, so the loop never ends.
LoopGoesOn ==
  /\ pc # "stopped"
  /\ pool + empty + rx + tx + Held = COUNT
  /\ empty + rx <= N_RX

\* The wakers of send, receive and ready: a loop that waits, and that nobody
\* has woken, has nothing to do, and the driver has every buffer to receive
\* with.  A frame that comes or leaves, or a command that is queued, between
\* a poll and the registration of its waker is not slept on.
NoLostWakeup ==
  /\ pc = "pending" /\ ~woken => rx = 0 /\ due = {} /\ commands = <<>> /\ empty = N_RX
  /\ pc = "blocked" /\ ~woken => tx = N_TX

\* ready takes one command, act the one it carries out, and notify counts what
\* it drops, while the tasks go on queueing and reading: each command is carried
\* out once, in the order they were queued, and each event is read, queued or
\* counted.  (ready is the last arm, so no other arm wins once it has a command.)
NothingIsLost ==
  /\ acted \o next \o commands = sent
  /\ reported = read + notifications + dropped

\* Every task gets to send all its commands and has them carried out, also if
\* none of them ever reads a notification.
CommandsAreActed ==
  \A a \in Tasks : <>(By(a, acted) = MaxCommands)
=============================================================================
