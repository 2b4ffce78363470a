-------------------------- MODULE NodeLoopProofs --------------------------
(***************************************************************************)
(* The tasks of a running node, for every size of the pool and the queues  *)
(* and any number of application tasks: the loop never runs out of         *)
(* buffers, never sleeps on work, and loses no command and no event.       *)
(*                                                                         *)
(* None of the three is inductive.  BufferInv adds that the transmit queue *)
(* keeps to its length and that the driver has all its receive buffers     *)
(* while the loop polls; WakeInv, that a waker is registered, or was       *)
(* called, from the registration on.                                       *)
(***************************************************************************)
EXTENDS NodeLoop, TLAPS, SequenceTheorems, FiniteSetTheorems

Polling == {"receive", "register", "recheck", "timers", "ready", "pending"}
Sending == {"transmit", "full", "again", "blocked"}
Command == Tasks \X Nat

TypeInv ==
  /\ pc \in Polling \cup Sending \cup {"enter", "frame", "timer", "act", "send", "stopped"}
  /\ owed \in Nat /\ pool \in Nat /\ empty \in Nat /\ rx \in Nat /\ tx \in Nat
  /\ notifications \in 0..DEPTH /\ dropped \in Int /\ reported \in Nat /\ read \in Nat
  /\ woken \in BOOLEAN /\ phy_waker \in BOOLEAN /\ command_waker \in BOOLEAN
  /\ next \in Seq(Command) /\ commands \in Seq(Command)
  /\ sent \in Seq(Command) /\ acted \in Seq(Command)

\* Every buffer is in one place; the driver has all it receives with while the
\* loop polls.
BufferInv ==
  /\ pc # "stopped"
  /\ pool + empty + rx + tx + Held = COUNT
  /\ empty + rx <= N_RX /\ tx <= N_TX
  /\ pc \in Polling => empty + rx = N_RX

\* Where the phy's waker is registered.
Waiting == {"recheck", "timers", "ready", "pending", "again", "blocked"}
\* What was looked at stays as it was, or the loop is woken for it.
WakeInv ==
  /\ pc \in Waiting => phy_waker \/ woken
  /\ pc \in {"timers", "ready", "pending"} => rx = 0 \/ woken
  /\ pc \in {"ready", "pending"} => due = {} \/ woken
  /\ pc = "pending" => command_waker \/ woken
  /\ pc = "pending" => commands = <<>> \/ woken
  /\ pc = "blocked" => tx = N_TX \/ woken

------------------------------------------------------------------------------
\* The counts notify adds are numbers (channel.rs notify).
LEMMA CountType ==
  ASSUME NEW events \in Reports
  PROVE  Owned(events) \in Nat /\ Notable(events) \in Nat
<1>1. events \in Seq({"owned", "large", "other"})
  BY NodeLoopAssumption
<1>2. IsFiniteSet(1..Len(events)) /\ DOMAIN events = 1..Len(events)
  BY <1>1, FS_Interval, LenProperties
<1>3. /\ IsFiniteSet({i \in DOMAIN events : events[i] = "owned"})
      /\ IsFiniteSet({i \in DOMAIN events : events[i] # "other"})
  BY <1>2, FS_Subset
<1> QED
  BY <1>3, FS_CardinalityType DEF Owned, Notable

\* What a task has queued is a number (channel.rs NodeHandle::send).
LEMMA QueuedType ==
  ASSUME sent \in Seq(Command), NEW a
  PROVE  Queued(a) \in Nat
<1>1. IsFiniteSet(1..Len(sent)) /\ DOMAIN sent = 1..Len(sent)
  BY FS_Interval, LenProperties
<1>2. IsFiniteSet({i \in DOMAIN sent : sent[i][1] = a})
  BY <1>1, FS_Subset
<1> QED
  BY <1>2, FS_CardinalityType DEF Queued, By

\* What notify adds to one count of the events it takes from another.
LEMMA Conserved ==
  ASSUME reported \in Int, read \in Int, notifications \in Int, dropped \in Int,
         reported' \in Int, notifications' \in Int, dropped' \in Int, read' = read,
         reported = read + notifications + dropped,
         reported' - notifications' - dropped' = reported - notifications - dropped
  PROVE  reported' = read' + notifications' + dropped'
<1>1. PICK e : e = reported'
  OBVIOUS
<1>2. PICK f : f = notifications'
  OBVIOUS
<1>3. PICK g : g = dropped'
  OBVIOUS
<1>4. PICK k : k = reported
  OBVIOUS
<1>5. e \in Int /\ f \in Int /\ g \in Int /\ k \in Int
  BY <1>1, <1>2, <1>3, <1>4
<1>6. k = read + notifications + dropped /\ e - f - g = k - notifications - dropped
  BY <1>1, <1>2, <1>3, <1>4
<1>7. e = read + f + g
  BY <1>5, <1>6
<1> QED
  BY <1>1, <1>2, <1>3, <1>7

\* A frame that comes in moves a buffer from one of the driver's lists to the
\* other.
LEMMA Moved ==
  ASSUME NEW p \in Nat, NEW e \in Nat, NEW r \in Nat, NEW t \in Nat, NEW h \in Nat,
         NEW f \in Nat, NEW s \in Nat, f + s = e + r
  PROVE  p + f + s + t + h = p + e + r + t + h
OBVIOUS

\* notify accounts for every event (channel.rs notify).
NotifyOk ==
  /\ notifications' \in 0..DEPTH /\ dropped' \in Int /\ reported' \in Nat
  /\ reported' - notifications' - dropped' = reported - notifications - dropped
LEMMA NotifyCounts ==
  ASSUME TypeInv, NEW events \in Reports, Notify(events)
  PROVE  NotifyOk
<1> DEFINE o == Owned(events)
           n == Notable(events)
           taken == IF o < DEPTH - notifications THEN o ELSE DEPTH - notifications
<1>1. o \in Nat /\ n \in Nat
  BY CountType
<1>2. /\ notifications' = notifications + taken
      /\ dropped' = dropped + n - taken /\ reported' = reported + n
  BY DEF Notify
<1> HIDE DEF o, n
<1>3. DEPTH \in Nat /\ notifications \in 0..DEPTH /\ dropped \in Int /\ reported \in Nat
  BY NodeLoopAssumption DEF TypeInv
<1> QED
  BY <1>1, <1>2, <1>3 DEF NotifyOk

------------------------------------------------------------------------------
(* What a step preserves: one lemma per part of the invariant. *)

\* Every step keeps the variables in their sets.
LEMMA TypeStep ==
  ASSUME TypeInv, BufferInv, [Next]_vars
  PROVE  TypeInv'
<1> USE NodeLoopAssumption
<1>1. CASE UNCHANGED vars
  BY <1>1 DEF TypeInv, vars, driver, queues, wakers, bounds, history
<1>2. CASE Enter
  BY <1>2 DEF TypeInv, BufferInv, Enter, At, Refill, Held, Polling, Sending, queues, wakers,
              bounds, history
<1>3. CASE Receive
  BY <1>3 DEF TypeInv, Receive, At, Take, driver, Polling, Sending, queues, wakers, bounds, history
<1>4. CASE Register
  BY <1>4 DEF TypeInv, Register, At, driver, Polling, Sending, queues, bounds, history
<1>5. CASE ReceiveAgain
  BY <1>5 DEF TypeInv, ReceiveAgain, Recheck, Take, driver, Polling, Sending, queues, wakers,
              bounds, history
<1>6. CASE PollTimers
  BY <1>6 DEF TypeInv, PollTimers, At, driver, Polling, Sending, queues, wakers, bounds, history
<1>7. CASE PollReady
  <2>1. CASE next = None /\ commands = <<>>
    BY <1>7, <2>1 DEF TypeInv, PollReady, At, driver, Polling, Sending, bounds, history
  <2>2. CASE ~(next = None /\ commands = <<>>)
    <3>1. next = None => Head(commands) \in Command /\ Tail(commands) \in Seq(Command)
      BY <2>2, HeadTailProperties DEF TypeInv
    <3>2. next = None => <<Head(commands)>> \in Seq(Command)
      BY <3>1
    <3> QED
      BY <1>7, <2>2, <3>1, <3>2 DEF TypeInv, PollReady, At, driver, Polling, Sending, bounds,
                                    history
  <2> QED
    BY <2>1, <2>2
<1>8. CASE Woken
  BY <1>8 DEF TypeInv, Woken, At, driver, Polling, Sending, queues, bounds, history
<1>9. CASE Handle
  <2>1. NotifyOk
    BY <1>9, NotifyCounts DEF Handle
  <2> QED
    BY <1>9, <2>1 DEF TypeInv, Handle, NotifyOk, driver, Polling, Sending, wakers, bounds
<1>10. CASE Act
  <2>1. NotifyOk
    BY <1>10, NotifyCounts DEF Act
  <2>2. acted' \in Seq(Command) /\ next' \in Seq(Command)
    BY <1>10, ConcatProperties, EmptySeq DEF TypeInv, Act, Taken, None
  <2> QED
    BY <1>10, <2>1, <2>2 DEF TypeInv, Act, At, NotifyOk, driver, Polling, Sending, wakers, bounds
<1>11. CASE Alloc
  BY <1>11 DEF TypeInv, Alloc, Polling, Sending, queues, wakers, bounds, history
<1>12. CASE Transmit
  <2>1. tx' \in Nat /\ pc' \in {"send", "full"}
    BY <1>12 DEF TypeInv, Transmit, At
  <2> QED
    BY <1>12, <2>1 DEF TypeInv, Transmit, Polling, Sending, queues, wakers, bounds, history
<1>13. CASE TransmitAgain
  <2>1. tx' \in Nat /\ pc' \in {"send", "blocked"}
    BY <1>13 DEF TypeInv, TransmitAgain, Retry
  <2> QED
    BY <1>13, <2>1 DEF TypeInv, TransmitAgain, Polling, Sending, queues, wakers, bounds, history
<1>14. CASE RegisterFull \/ Unblocked
  BY <1>14 DEF TypeInv, RegisterFull, Unblocked, At, driver, Polling, Sending, queues, bounds,
               history
<1>15. CASE FrameArrives
  <2>1. empty' \in Nat /\ rx' \in Nat
    BY <1>15 DEF TypeInv, FrameArrives
  <2>2. woken' \in BOOLEAN /\ phy_waker' \in BOOLEAN
    BY <1>15 DEF TypeInv, FrameArrives, WakePhy
  <2> QED
    BY <1>15, <2>1, <2>2 DEF TypeInv, FrameArrives, queues, history
<1>16. CASE FrameLeaves
  <2>1. pool' \in Nat /\ tx' \in Nat
    BY <1>16 DEF TypeInv, FrameLeaves
  <2>2. woken' \in BOOLEAN /\ phy_waker' \in BOOLEAN
    BY <1>16 DEF TypeInv, FrameLeaves, WakePhy
  <2> QED
    BY <1>16, <2>1, <2>2 DEF TypeInv, FrameLeaves, queues, history
<1>17. CASE \E i \in DOMAIN Timers : TimerDue(Timers[i])
  BY <1>17 DEF TypeInv, TimerDue, driver, queues, history
<1>18. ASSUME NEW a \in Tasks, SendCommand(a)
       PROVE  TypeInv'
  <2>1. <<a, Queued(a)>> \in Command
    BY QueuedType DEF TypeInv, Command
  <2>2. commands' \in Seq(Command) /\ sent' \in Seq(Command)
    BY <1>18, <2>1, AppendProperties DEF TypeInv, SendCommand
  <2> QED
    BY <1>18, <2>2 DEF TypeInv, SendCommand, driver, bounds
<1>19. CASE ReadNotification
  BY <1>19 DEF TypeInv, ReadNotification, driver, wakers, bounds
<1> QED
  BY <1>1, <1>2, <1>3, <1>4, <1>5, <1>6, <1>7, <1>8, <1>9, <1>10, <1>11, <1>12, <1>13, <1>14,
     <1>15, <1>16, <1>17, <1>18, <1>19 DEF Next, Loop

\* Every step keeps each buffer in one place: refill_rx and send take from the
\* pool, receive and the driver give back to it.
LEMMA BufferStep ==
  ASSUME TypeInv, BufferInv, [Next]_vars
  PROVE  BufferInv'
<1> USE NodeLoopAssumption
<1>1. CASE UNCHANGED vars
  BY <1>1 DEF BufferInv, Held, vars, driver
<1>2. CASE Enter
  BY <1>2 DEF TypeInv, BufferInv, Enter, At, Refill, Held, Polling
<1>3. CASE Receive
  <2>1. Held = 0 /\ Held' = 0 /\ pc = "receive"
    BY <1>3 DEF Receive, At, Held
  <2>2. CASE rx > 0 /\ pc' = "frame" /\ Take
    BY <2>1, <2>2 DEF TypeInv, BufferInv, Take, Polling
  <2>3. CASE rx = 0 /\ pc' = "register" /\ UNCHANGED driver
    BY <2>1, <2>3 DEF TypeInv, BufferInv, driver, Polling
  <2> QED
    BY <1>3, <2>2, <2>3 DEF Receive, At
<1>4. CASE Register \/ PollTimers \/ PollReady \/ Woken
  BY <1>4 DEF BufferInv, Register, PollTimers, PollReady, Woken, At, driver, Held, Polling
<1>5. CASE ReceiveAgain
  <2>1. Held = 0 /\ Held' = 0 /\ pc = "recheck"
    BY <1>5 DEF ReceiveAgain, Recheck, Held
  <2>2. CASE rx > 0 /\ pc' = "frame" /\ Take
    BY <2>1, <2>2 DEF TypeInv, BufferInv, Take, Polling
  <2>3. CASE rx = 0 /\ pc' = "timers" /\ UNCHANGED driver
    BY <2>1, <2>3 DEF TypeInv, BufferInv, driver, Polling
  <2> QED
    BY <1>5, <2>2, <2>3 DEF ReceiveAgain, Recheck
<1>6. CASE Handle \/ Act
  BY <1>6 DEF BufferInv, Handle, Act, At, driver, Held, Polling
<1>7. CASE Alloc
  <2>1. Held = 0 /\ pool > 0
    BY <1>7 DEF TypeInv, BufferInv, Alloc, Held
  <2>2. CASE owed = 0
    BY <1>7, <2>1, <2>2 DEF TypeInv, BufferInv, Alloc, Held, Polling
  <2>3. CASE owed # 0
    <3>1. pc' = "transmit" /\ Held' = 1 /\ pool' = pool - 1
      BY <1>7, <2>1, <2>3 DEF TypeInv, Alloc, Held
    <3> QED
      BY <1>7, <2>1, <3>1 DEF TypeInv, BufferInv, Alloc, Polling
  <2> QED
    BY <2>2, <2>3
<1>8. CASE Transmit
  <2>1. CASE tx < N_TX
    <3>1. Held = 1 /\ Held' = 0 /\ pc' = "send" /\ tx' = tx + 1
      BY <1>8, <2>1 DEF TypeInv, Transmit, At, Held
    <3> QED
      BY <1>8, <2>1, <3>1 DEF TypeInv, BufferInv, Transmit, Polling
  <2>2. CASE ~(tx < N_TX)
    BY <1>8, <2>2 DEF BufferInv, Transmit, At, Held, Polling
  <2> QED
    BY <2>1, <2>2
<1>9. CASE RegisterFull \/ Unblocked
  BY <1>9 DEF BufferInv, RegisterFull, Unblocked, At, driver, Held, Polling
<1>10. CASE TransmitAgain
  <2>1. CASE tx < N_TX
    <3>1. Held = 1 /\ Held' = 0 /\ pc' = "send" /\ tx' = tx + 1
      BY <1>10, <2>1 DEF TypeInv, TransmitAgain, Retry, Held
    <3> QED
      BY <1>10, <2>1, <3>1 DEF TypeInv, BufferInv, TransmitAgain, Polling
  <2>2. CASE ~(tx < N_TX)
    BY <1>10, <2>2 DEF BufferInv, TransmitAgain, Retry, Held, Polling
  <2> QED
    BY <2>1, <2>2
<1>11. CASE FrameArrives
  <2>1. Held' = Held /\ pc' = pc /\ Held \in Nat
    BY <1>11 DEF FrameArrives, Held
  <2> QED
    <3>1. \/ empty > 0 /\ empty' = empty - 1 /\ rx' = rx + 1
          \/ empty' = empty /\ rx' = rx
      BY <1>11 DEF FrameArrives
    <3>2. pool' = pool /\ tx' = tx
      BY <1>11 DEF FrameArrives
    <3>3. empty \in Nat /\ rx \in Nat /\ pool \in Nat /\ tx \in Nat
      BY DEF TypeInv
    <3>4. empty' \in Nat /\ rx' \in Nat /\ empty' + rx' = empty + rx
      <4>1. CASE empty > 0 /\ empty' = empty - 1 /\ rx' = rx + 1
        BY <3>3, <4>1
      <4>2. CASE empty' = empty /\ rx' = rx
        BY <3>3, <4>2
      <4> QED
        BY <3>1, <4>1, <4>2
    <3>5. pool + empty' + rx' + tx + Held = pool + empty + rx + tx + Held
      <4>1. PICK f, s : f = empty' /\ s = rx'
        OBVIOUS
      <4>2. f \in Nat /\ s \in Nat /\ f + s = empty + rx
        BY <3>4, <4>1
      <4>3. pool + f + s + tx + Held = pool + empty + rx + tx + Held
        BY <2>1, <3>3, <4>2, Moved
      <4> QED
        BY <4>1, <4>3
    <3> QED
      BY <2>1, <3>2, <3>4, <3>5 DEF BufferInv
<1>12. CASE FrameLeaves
  <2>1. Held' = Held /\ pc' = pc /\ Held \in Nat
    BY <1>12 DEF FrameLeaves, Held
  <2> QED
    BY <1>12, <2>1 DEF TypeInv, BufferInv, FrameLeaves
<1>13. CASE \/ \E i \in DOMAIN Timers : TimerDue(Timers[i])
            \/ \E a \in Tasks : SendCommand(a)
            \/ ReadNotification
  BY <1>13 DEF BufferInv, TimerDue, SendCommand, ReadNotification, driver, Held
<1> QED
  BY <1>1, <1>2, <1>3, <1>4, <1>5, <1>6, <1>7, <1>8, <1>9, <1>10, <1>11, <1>12, <1>13
     DEF Next, Loop

\* Whatever comes between a poll and its waker is seen by the second look, or
\* calls the waker: receive, send and ready.
LEMMA WakeStep ==
  ASSUME TypeInv, BufferInv, WakeInv, [Next]_vars
  PROVE  WakeInv'
<1>1. CASE UNCHANGED vars
  BY <1>1 DEF WakeInv, Waiting, vars, driver, queues, wakers
<1>2. CASE Enter \/ Handle \/ Act \/ Alloc \/ Woken \/ Unblocked
  BY <1>2 DEF WakeInv, Waiting, Enter, Handle, Act, Alloc, Woken, Unblocked, At
<1>3. CASE Receive \/ Register
  BY <1>3 DEF WakeInv, Waiting, Receive, Register, At
<1>4. CASE ReceiveAgain
  BY <1>4 DEF WakeInv, Waiting, ReceiveAgain, Recheck, driver, wakers
<1>5. CASE PollTimers
  BY <1>5 DEF WakeInv, Waiting, PollTimers, At, driver, wakers
<1>6. CASE PollReady
  BY <1>6 DEF WakeInv, Waiting, PollReady, At, driver
<1>7. CASE Transmit \/ RegisterFull
  BY <1>7 DEF WakeInv, Waiting, Transmit, RegisterFull, At
<1>8. CASE TransmitAgain
  BY <1>8 DEF WakeInv, Waiting, TransmitAgain, Retry, wakers
<1>9. CASE FrameArrives
  <2>1. CASE empty > 0
    <3>1. pc \in Waiting => woken'
      BY <1>9, <2>1 DEF WakeInv, Waiting, FrameArrives, WakePhy
    <3> QED
      BY <1>9, <3>1 DEF WakeInv, Waiting, FrameArrives
  <2>2. CASE ~(empty > 0)
    BY <1>9, <2>2 DEF WakeInv, Waiting, FrameArrives, queues
  <2> QED
    BY <2>1, <2>2
<1>10. CASE FrameLeaves
  <2>1. pc \in Waiting => woken'
    BY <1>10 DEF WakeInv, Waiting, FrameLeaves, WakePhy
  <2> QED
    BY <1>10, <2>1 DEF WakeInv, Waiting, FrameLeaves
<1>11. CASE \E i \in DOMAIN Timers : TimerDue(Timers[i])
  <2>1. (woken => woken') /\ (pc \in {"ready", "pending"} => woken')
    BY <1>11 DEF TimerDue
  <2> QED
    BY <1>11, <2>1 DEF WakeInv, Waiting, TimerDue, driver, queues
<1>12. CASE \E a \in Tasks : SendCommand(a)
  <2>1. (woken => woken') /\ (pc = "pending" => woken')
    BY <1>12 DEF WakeInv, SendCommand
  <2> QED
    BY <1>12, <2>1 DEF WakeInv, Waiting, SendCommand, driver
<1>13. CASE ReadNotification
  BY <1>13 DEF WakeInv, Waiting, ReadNotification, driver, wakers
<1> QED
  BY <1>1, <1>2, <1>3, <1>4, <1>5, <1>6, <1>7, <1>8, <1>9, <1>10, <1>11, <1>12, <1>13
     DEF Next, Loop

\* ready moves a command and act removes it; notify and notification move an
\* event from one count to another.
LEMMA LossStep ==
  ASSUME TypeInv, NothingIsLost, [Next]_vars
  PROVE  NothingIsLost'
<1> DEFINE Commands == acted \o next \o commands = sent
           Events == reported = read + notifications + dropped
<1>1. CASE \/ Enter \/ Receive \/ Register \/ ReceiveAgain \/ PollTimers \/ Woken \/ Alloc
           \/ Transmit \/ RegisterFull \/ TransmitAgain \/ Unblocked
           \/ FrameArrives \/ FrameLeaves \/ UNCHANGED vars
           \/ \E i \in DOMAIN Timers : TimerDue(Timers[i])
  BY <1>1 DEF NothingIsLost, Enter, Receive, Register, ReceiveAgain, PollTimers, Woken, Alloc,
              Transmit, RegisterFull, TransmitAgain, Unblocked, FrameArrives, FrameLeaves,
              TimerDue, queues, history, vars
<1>2. CASE PollReady
  <2>1. CASE next = None /\ commands # <<>>
    <3>1. commands = <<Head(commands)>> \o Tail(commands)
      <4> DEFINE h == <<Head(commands)>>
                 t == Tail(commands)
      <4>1. commands \in Seq(Command) /\ commands # <<>>
        BY <2>1 DEF TypeInv
      <4>2. /\ Head(commands) \in Command /\ t \in Seq(Command) /\ Len(t) = Len(commands) - 1
            /\ \A i \in 1..Len(t) : t[i] = commands[i + 1]
        BY <4>1, HeadTailProperties
      <4>3. h \in Seq(Command) /\ Len(h) = 1 /\ h[1] = commands[1]
        BY <4>1, <4>2
      <4> HIDE DEF h, t
      <4>4. /\ h \o t \in Seq(Command) /\ Len(h \o t) = Len(h) + Len(t)
            /\ \A i \in 1..Len(h) + Len(t) :
                 (h \o t)[i] = IF i <= Len(h) THEN h[i] ELSE t[i - Len(h)]
        BY <4>2, <4>3, ConcatProperties
      <4>5. Len(commands) \in Nat
        BY <4>1, LenProperties
      <4>6. \A i \in 1..Len(commands) : (h \o t)[i] = commands[i]
        <5> TAKE i \in 1..Len(commands)
        <5>1. CASE i = 1
          BY <4>2, <4>3, <4>4, <4>5, <5>1
        <5>2. CASE i # 1
          <6>1. i - 1 \in 1..Len(t) /\ (i - 1) + 1 = i
            BY <4>2, <4>5, <5>2
          <6>2. (h \o t)[i] = t[i - 1]
            BY <4>2, <4>3, <4>4, <4>5, <5>2
          <6> QED
            BY <4>2, <6>1, <6>2
        <5> QED
          BY <5>1, <5>2
      <4>7. Len(h \o t) = Len(commands)
        BY <4>2, <4>3, <4>4, <4>5
      <4>8. commands = h \o t
        BY <4>1, <4>4, <4>6, <4>7, SeqEqual
      <4> QED
        BY <4>8 DEF h, t
    <3>2. acted \o None = acted
      BY ConcatEmptySeq DEF TypeInv, None
    <3>3. (acted \o <<Head(commands)>>) \o Tail(commands) = acted \o commands
      BY <2>1, <3>1, HeadTailProperties, ConcatAssociative DEF TypeInv
    <3> QED
      <4>1. next' = <<Head(commands)>> /\ commands' = Tail(commands)
        BY <1>2, <2>1 DEF PollReady
      <4>2. UNCHANGED <<acted, sent, reported, read, notifications, dropped>>
        BY <1>2 DEF PollReady, history
      <4>3. acted \o commands = sent /\ reported = read + notifications + dropped
        BY <2>1, <3>2 DEF NothingIsLost
      <4> QED
        BY <3>3, <4>1, <4>2, <4>3 DEF NothingIsLost
  <2>2. CASE ~(next = None /\ commands # <<>>)
    BY <1>2, <2>2 DEF NothingIsLost, PollReady, history
  <2> QED
    BY <2>1, <2>2
<1>3. CASE Handle
  <2>1. NotifyOk
    BY <1>3, NotifyCounts DEF Handle
  <2>2. Events'
    <3>1. /\ reported \in Int /\ read \in Int /\ notifications \in Int /\ dropped \in Int
          /\ reported = read + notifications + dropped
      BY NodeLoopAssumption DEF TypeInv, NothingIsLost
    <3>2. /\ reported' \in Int /\ notifications' \in Int /\ dropped' \in Int
          /\ reported' - notifications' - dropped' = reported - notifications - dropped
      BY <2>1, NodeLoopAssumption DEF NotifyOk
    <3>3. read' = read
      BY <1>3 DEF Handle
    <3> QED
      BY <3>1, <3>2, <3>3, Conserved
  <2> QED
    BY <1>3, <2>2 DEF NothingIsLost, Handle
<1>4. CASE Act
  <2>1. NotifyOk
    BY <1>4, NotifyCounts DEF Act
  <2>2. Events'
    <3>1. /\ reported \in Int /\ read \in Int /\ notifications \in Int /\ dropped \in Int
          /\ reported = read + notifications + dropped
      BY NodeLoopAssumption DEF TypeInv, NothingIsLost
    <3>2. /\ reported' \in Int /\ notifications' \in Int /\ dropped' \in Int
          /\ reported' - notifications' - dropped' = reported - notifications - dropped
      BY <2>1, NodeLoopAssumption DEF NotifyOk
    <3>3. read' = read
      BY <1>4 DEF Act
    <3> QED
      BY <3>1, <3>2, <3>3, Conserved
  <2>3. acted \o next \in Seq(Command)
    BY ConcatProperties DEF TypeInv
  <2>4. (acted \o next) \o None = acted \o next
    BY <2>3, ConcatEmptySeq DEF None
  <2> QED
    BY <1>4, <2>2, <2>4 DEF NothingIsLost, Act, Taken
<1>5. ASSUME NEW a \in Tasks, SendCommand(a)
      PROVE  NothingIsLost'
  <2> DEFINE c == <<a, Queued(a)>>
             before == acted \o next
  <2>1. c \in Command /\ before \in Seq(Command)
    BY QueuedType, ConcatProperties DEF TypeInv, Command
  <2>2. commands' = Append(commands, c) /\ sent' = Append(sent, c)
    BY <1>5 DEF SendCommand
  <2> HIDE DEF c, before
  <2>3. before \o Append(commands, c) = Append(before \o commands, c)
    <3>1. <<c>> \in Seq(Command) /\ commands \in Seq(Command)
      BY <2>1 DEF TypeInv
    <3>2. before \o commands \in Seq(Command)
      BY <2>1, <3>1, ConcatProperties
    <3>3. Append(commands, c) = commands \o <<c>>
      BY <2>1, <3>1, AppendIsConcat
    <3>4. Append(before \o commands, c) = (before \o commands) \o <<c>>
      BY <2>1, <3>2, AppendIsConcat
    <3> QED
      BY <2>1, <3>1, <3>3, <3>4, ConcatAssociative
  <2>4. before \o commands = sent
    BY DEF NothingIsLost, before
  <2>5. before' = before
    BY <1>5 DEF SendCommand, before
  <2> QED
    BY <1>5, <2>2, <2>3, <2>4, <2>5 DEF NothingIsLost, SendCommand, before
<1>6. CASE ReadNotification
  <2>1. Events'
    BY <1>6, NodeLoopAssumption DEF TypeInv, NothingIsLost, ReadNotification
  <2>2. Commands'
    BY <1>6 DEF NothingIsLost, ReadNotification
  <2> QED
    BY <2>1, <2>2 DEF NothingIsLost
<1> QED
  BY <1>1, <1>2, <1>3, <1>4, <1>5, <1>6 DEF Next, Loop

------------------------------------------------------------------------------
LoopInv == TypeInv /\ BufferInv /\ WakeInv /\ NothingIsLost

\* The invariant holds as run_app is entered.
LEMMA InitInv == Init => LoopInv
<1> SUFFICES ASSUME Init PROVE LoopInv
  OBVIOUS
<1> USE NodeLoopAssumption
<1>1. TypeInv
  <2>1. /\ next \in Seq(Command) /\ commands \in Seq(Command)
        /\ sent \in Seq(Command) /\ acted \in Seq(Command)
    BY EmptySeq DEF Init, None
  <2>2. owed \in Nat /\ pool \in Nat /\ notifications \in 0..DEPTH
    BY DEF Init
  <2>3. woken \in BOOLEAN /\ phy_waker \in BOOLEAN /\ command_waker \in BOOLEAN
    BY DEF Init
  <2>4. pc = "send" /\ empty = 0 /\ rx = 0 /\ tx = 0 /\ dropped = 0 /\ reported = 0 /\ read = 0
    BY DEF Init
  <2> QED
    BY <2>1, <2>2, <2>3, <2>4 DEF TypeInv
<1>2. BufferInv
  BY DEF Init, BufferInv, Held, Polling
<1>3. WakeInv
  BY DEF Init, WakeInv, Waiting
<1>4. <<>> \o <<>> = <<>>
  BY ConcatEmptySeq, EmptySeq
<1>5. NothingIsLost
  BY <1>4 DEF Init, NothingIsLost, None
<1> QED
  BY <1>1, <1>2, <1>3, <1>5 DEF LoopInv

\* The four parts together are inductive.
LEMMA StepInv == LoopInv /\ [Next]_vars => LoopInv'
BY TypeStep, BufferStep, WakeStep, LossStep DEF LoopInv

\* The invariant holds of every behaviour of the node's tasks: the loop of
\* run_app, the driver, the timers and the application tasks.
THEOREM Invariant == Spec => []LoopInv
BY InitInv, StepInv, PTL DEF Spec

\* Phy::send "the packet pool is empty": a pool of more buffers than the two
\* queues together never runs out, whatever arrives and whatever the node
\* has to send.
THEOREM GoesOn == Spec => []LoopGoesOn
<1>1. LoopInv => LoopGoesOn
  BY DEF LoopInv, BufferInv, LoopGoesOn
<1> QED
  BY <1>1, Invariant, PTL

\* The wakers of send, receive and ready, under every interleaving with the
\* driver, the timers and any number of tasks.
THEOREM NeverSleepsOnWork == Spec => []NoLostWakeup
<1>1. LoopInv => NoLostWakeup
  <2> SUFFICES ASSUME LoopInv PROVE NoLostWakeup
    OBVIOUS
  <2>1. pc = "pending" /\ ~woken => rx = 0 /\ due = {} /\ commands = <<>>
    BY DEF LoopInv, WakeInv
  <2>2. pc = "pending" => empty + rx = N_RX
    BY DEF LoopInv, BufferInv, Polling
  <2>3. pc = "blocked" /\ ~woken => tx = N_TX
    BY DEF LoopInv, WakeInv
  <2> QED
    BY <2>1, <2>2, <2>3 DEF LoopInv, TypeInv, NoLostWakeup
<1> QED
  BY <1>1, Invariant, PTL

\* ChannelApp::ready and act, and notify: each command is carried out once and
\* in order, and each event is read, queued or counted.
THEOREM LosesNothing == Spec => []NothingIsLost
<1>1. LoopInv => NothingIsLost
  BY DEF LoopInv
<1> QED
  BY <1>1, Invariant, PTL
=============================================================================
