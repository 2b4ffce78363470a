--------------------------- MODULE PacketsProofs ---------------------------
(***************************************************************************)
(* Proofs about Packets, for every value of its constants.                 *)
(***************************************************************************)
EXTENDS Packets, ListsProofs, FiniteSetTheorems

\* A value of the wrapping clock is in its range.
LEMMA ClockFacts ==
  /\ \A x \in Int : x % ClockWrap \in Clock
  /\ \A x \in Int : x % PERIOD \in 0..PERIOD - 1
  /\ 0 \in Clock /\ PERIOD \in Clock
BY PacketsAssumption, ClockAssumption DEF Clock

\* NextSweep is a time of the clock.
LEMMA NextSweepFacts ==
  ASSUME next_sweep \in Clock, now \in Clock
  PROVE  NextSweep \in Clock
<1>1. SinceDue \in Nat
  BY ClockFacts, ClockAssumption DEF SinceDue, Clock
<1>2. SinceDue \div PERIOD + 1 \in Int
  BY <1>1, PacketsAssumption
<1>3. PERIOD * (SinceDue \div PERIOD + 1) \in Int
  BY <1>2, PacketsAssumption
<1> DEFINE x == next_sweep + PERIOD * (SinceDue \div PERIOD + 1)
<1>4. x \in Int
  BY <1>3, PacketsAssumption DEF Clock
<1> HIDE DEF x
<1>5. x % ClockWrap \in Clock
  BY <1>4, ClockFacts
<1> QED BY <1>5 DEF NextSweep, x

------------------------------------------------------------------------------
(* The inductive invariant. *)

\* No two outstanding requests share a number, and each was issued.
Numbered ==
  /\ \A i \in DOMAIN pending : pending[i].seq < count
  /\ \A i, j \in DOMAIN pending : pending[i].seq = pending[j].seq => i = j

\* A re-send is queued once, and its frame is there to be sent.
DueHeld ==
  /\ \A k \in DOMAIN due : SlotsOf(due[k]) # {}
  /\ \A k, l \in DOMAIN due : due[k] = due[l] => k = l

\* What is held and due, besides its type.
FrameInv == Numbered /\ HeldIsOutstanding /\ DueHeld

\* What TypeOK says of the lists, for use in leaves.
LEMMA TypeFacts ==
  ASSUME TypeOK
  PROVE  /\ pending \in Seq(Request) /\ Len(pending) \in Nat
         /\ DOMAIN pending = 1..Len(pending) /\ Len(pending) <= PENDING
         /\ due \in Seq(Ids) /\ DOMAIN due = 1..Len(due) /\ Len(due) \in Nat
         /\ \A i \in DOMAIN pending :
              /\ pending[i] \in Request /\ pending[i].seq \in Ids
              /\ pending[i].type \in MessageType /\ pending[i].retries \in 0..RETRIES
         /\ \A k \in DOMAIN due : due[k] \in Ids
         /\ slots \in [1..PENDING -> Frame \cup {Free}]
         /\ \A i \in 1..PENDING : slots[i] # Free =>
              slots[i].seq \in Ids /\ slots[i].type \in MessageType
         /\ Ids \subseteq Nat /\ count \in Nat /\ index \in Nat
<1>1. pending \in Seq(Request) /\ Len(pending) <= PENDING /\ due \in Seq(Ids)
      /\ slots \in [1..PENDING -> Frame \cup {Free}] /\ count \in Nat /\ index \in Nat
  BY PacketsAssumption DEF TypeOK
<1>2. \A r \in Request : r.seq \in Ids /\ r.type \in MessageType /\ r.retries \in 0..RETRIES
  BY DEF Request
<1>3. \A f \in Frame : f.seq \in Ids /\ f.type \in MessageType
  BY DEF Frame
<1>4. Ids \subseteq Nat
  BY PacketsAssumption DEF Ids
<1> QED BY <1>1, <1>2, <1>3, <1>4

\* HeldRequests::release frees the one slot that holds s, and no other.
LEMMA ReleaseSlots ==
  ASSUME TypeOK, FrameInv, NEW s \in Ids, Release(s)
  PROVE  /\ slots' \in [1..PENDING -> Frame \cup {Free}]
         /\ \A i \in 1..PENDING :
              slots'[i] = IF slots[i] # Free /\ slots[i].seq = s THEN Free ELSE slots[i]
<1>t. slots \in [1..PENDING -> Frame \cup {Free}]
  BY TypeFacts
<1>1. CASE SlotsOf(s) = {}
  <2>1. slots' = slots
    BY <1>1 DEF Release
  <2> QED BY <1>1, <1>t, <2>1 DEF SlotsOf
<1>2. CASE SlotsOf(s) # {}
  <2> DEFINE n == First(SlotsOf(s))
  <2>1. SlotsOf(s) \in SUBSET Nat
    BY DEF SlotsOf
  <2>2. n \in SlotsOf(s)
    BY <1>2, <2>1, FirstFacts
  <2>3. slots' = [slots EXCEPT ![n] = Free]
    BY <1>2 DEF Release
  <2> HIDE DEF n
  <2>4. n \in 1..PENDING /\ slots[n] # Free /\ slots[n].seq = s
    BY <2>2 DEF SlotsOf
  <2>5. \A i \in 1..PENDING : slots[i] # Free /\ slots[i].seq = s => i = n
    BY <2>4 DEF FrameInv, HeldIsOutstanding
  <2> QED BY <1>t, <2>3, <2>4, <2>5
<1> QED BY <1>1, <1>2

\* HeldRequests::undue takes s off the queue of re-sends, and nothing else.
LEMMA UndueFacts ==
  ASSUME TypeOK, FrameInv, NEW s \in Ids, due' = Undue(s)
  PROVE  /\ due' \in Seq(Ids) /\ Len(due') <= Len(due)
         /\ \A k \in DOMAIN due' : due'[k] # s /\ \E l \in DOMAIN due : due[l] = due'[k]
         /\ \A l \in DOMAIN due : due[l] # s => \E k \in DOMAIN due' : due'[k] = due[l]
         /\ \A k, l \in DOMAIN due' : due'[k] = due'[l] => k = l
<1>t. due \in Seq(Ids) /\ DOMAIN due = 1..Len(due) /\ Len(due) \in Nat
  BY TypeFacts
<1>u. \A k, l \in DOMAIN due : due[k] = due[l] => k = l
  BY DEF FrameInv, DueHeld
<1>1. CASE DueAt(s) = {}
  <2>1. due' = due
    BY <1>1 DEF Undue
  <2> QED BY <1>1, <1>t, <1>u, <2>1 DEF DueAt
<1>2. CASE DueAt(s) # {}
  <2> DEFINE n == First(DueAt(s))
  <2>1. DueAt(s) \in SUBSET Nat
    BY <1>t DEF DueAt
  <2>2. n \in DueAt(s)
    BY <1>2, <2>1, FirstFacts
  <2>3. due' = Without(due, n)
    BY <1>2 DEF Undue
  <2> HIDE DEF n
  <2>4. n \in DOMAIN due /\ due[n] = s
    BY <2>2 DEF DueAt
  <2>5. /\ due' \in Seq(Ids) /\ Len(due') = Len(due) - 1
        /\ \A j \in DOMAIN due' : /\ Before(n, j) \in DOMAIN due /\ Before(n, j) # n
                                  /\ due'[j] = due[Before(n, j)]
        /\ \A k \in DOMAIN due : k # n => \E j \in DOMAIN due' : Before(n, j) = k
    <3>1. Shortened(due', due, n, Ids)
      BY <1>t, <2>3, <2>4, WithoutFacts
    <3> QED BY <3>1 DEF Shortened
  <2>6. \A k \in DOMAIN due' : due'[k] # s /\ \E l \in DOMAIN due : due[l] = due'[k]
    BY <1>u, <2>4, <2>5
  <2>7. \A l \in DOMAIN due : due[l] # s => \E k \in DOMAIN due' : due'[k] = due[l]
    BY <2>4, <2>5
  <2>8. ASSUME NEW k \in DOMAIN due', NEW l \in DOMAIN due', due'[k] = due'[l]
        PROVE  k = l
    <3>1. Before(n, k) = Before(n, l)
      BY <1>u, <2>5, <2>8
    <3>2. k \in Nat /\ l \in Nat /\ n \in Nat
      BY <1>t, <2>4, <2>5
    <3> QED BY <3>1, <3>2 DEF Before
  <2> QED BY <1>t, <2>5, <2>6, <2>7, <2>8
<1> QED BY <1>1, <1>2

\* Two of m positions share one of fewer.
LEMMA Pigeons ==
  ASSUME NEW m \in Nat, NEW n \in Nat, n < m, NEW f \in [1..m -> 1..n]
  PROVE  \E x, y \in 1..m : x # y /\ f[x] = f[y]
<1>1. IsFiniteSet(1..m) /\ Cardinality(1..m) = m
  BY FS_Interval
<1>2. IsFiniteSet(1..n) /\ Cardinality(1..n) = n
  BY FS_Interval
<1> QED BY <1>1, <1>2, FS_PigeonHole

\* While a request more can be tracked, a slot is free for its frame.
LEMMA FreeSlot ==
  ASSUME TypeOK, FrameInv, HasRoom
  PROVE  FreeSlots # {}
<1> SUFFICES ASSUME FreeSlots = {} PROVE FALSE
  OBVIOUS
<1>1. \A i \in 1..PENDING : \E j \in 1..Len(pending) : pending[j].seq = slots[i].seq
  BY TypeFacts DEF FreeSlots, FrameInv, HeldIsOutstanding
<1> DEFINE f == [i \in 1..PENDING |->
                   CHOOSE j \in 1..Len(pending) : pending[j].seq = slots[i].seq]
<1>2. \A i \in 1..PENDING : f[i] \in 1..Len(pending) /\ pending[f[i]].seq = slots[i].seq
  BY <1>1
<1>3. f \in [1..PENDING -> 1..Len(pending)]
  BY <1>2
<1> HIDE DEF f
<1>4. Len(pending) \in Nat /\ PENDING \in Nat /\ Len(pending) < PENDING
  BY TypeFacts, PacketsAssumption DEF HasRoom
<1>5. PICK x, y \in 1..PENDING : x # y /\ f[x] = f[y]
  BY <1>3, <1>4, Pigeons
<1>6. slots[x].seq = slots[y].seq /\ slots[x] # Free /\ slots[y] # Free
  BY <1>2, <1>5 DEF FreeSlots
<1> QED BY <1>5, <1>6 DEF FrameInv, HeldIsOutstanding

\* An answered or abandoned request leaves the registry, its slot and the queue
\* of re-sends, and takes nothing else along.
LEMMA DropFacts ==
  ASSUME TypeOK, FrameInv, NEW i \in DOMAIN pending, NEW s \in Ids,
         pending[i].seq = s, pending' = Without(pending, i), Release(s), count' = count
  PROVE  /\ Shortened(pending', pending, i, Request)
         /\ \A j \in DOMAIN pending' : pending'[j].seq # s
         /\ \A r \in Ids : Outstanding(r)' <=> Outstanding(r) /\ r # s
         /\ \A r \in Ids : DueAt(r)' = {} <=> DueAt(r) = {} \/ r = s
         /\ due' \in Seq(Ids) /\ Len(due') <= Len(due)
         /\ slots' \in [1..PENDING -> Frame \cup {Free}]
         /\ FrameInv'
<1>t. /\ pending \in Seq(Request) /\ due \in Seq(Ids)
      /\ \A j \in DOMAIN pending : pending[j].seq \in Ids
  BY TypeFacts
<1>1. Shortened(pending', pending, i, Request)
  BY <1>t, WithoutFacts
<1>2. /\ \A j \in DOMAIN pending' : /\ Before(i, j) \in DOMAIN pending /\ Before(i, j) # i
                                    /\ pending'[j] = pending[Before(i, j)]
      /\ \A k \in DOMAIN pending : k # i => \E j \in DOMAIN pending' : Before(i, j) = k
      /\ DOMAIN pending' \subseteq Nat
  BY <1>1 DEF Shortened
<1>3. \A j \in DOMAIN pending' : pending'[j].seq # s
  BY <1>2 DEF FrameInv, Numbered
<1>4. \A k \in DOMAIN pending : pending[k].seq # s =>
        \E j \in DOMAIN pending' : pending'[j] = pending[k]
  BY <1>2
<1>5. \A j \in DOMAIN pending' : \E k \in DOMAIN pending : pending[k] = pending'[j]
  BY <1>2
<1>6. \A r \in Ids : Outstanding(r)' <=> Outstanding(r) /\ r # s
  BY <1>3, <1>4, <1>5 DEF Outstanding
<1>7. /\ due' \in Seq(Ids) /\ Len(due') <= Len(due)
      /\ \A k \in DOMAIN due' : due'[k] # s /\ \E l \in DOMAIN due : due[l] = due'[k]
      /\ \A l \in DOMAIN due : due[l] # s => \E k \in DOMAIN due' : due'[k] = due[l]
      /\ \A k, l \in DOMAIN due' : due'[k] = due'[l] => k = l
  BY UndueFacts DEF Release
<1>8. \A r \in Ids : DueAt(r)' = {} <=> DueAt(r) = {} \/ r = s
  BY <1>7 DEF DueAt
<1>9. /\ slots' \in [1..PENDING -> Frame \cup {Free}]
      /\ \A k \in 1..PENDING :
           slots'[k] = IF slots[k] # Free /\ slots[k].seq = s THEN Free ELSE slots[k]
  BY ReleaseSlots
<1>10. Numbered'
  <2>1. \A j \in DOMAIN pending' : pending'[j].seq < count'
    BY <1>5 DEF FrameInv, Numbered
  <2>2. ASSUME NEW j \in DOMAIN pending', NEW k \in DOMAIN pending',
               pending'[j].seq = pending'[k].seq
        PROVE  j = k
    <3>1. Before(i, j) = Before(i, k)
      BY <1>2, <2>2 DEF FrameInv, Numbered
    <3>2. j \in Nat /\ k \in Nat /\ i \in Nat
      BY <1>2, TypeFacts
    <3> QED BY <3>1, <3>2 DEF Before
  <2> QED BY <2>1, <2>2 DEF Numbered
<1>11. HeldIsOutstanding'
  <2>1. ASSUME NEW k \in 1..PENDING, slots'[k] # Free
        PROVE  \E j \in DOMAIN pending' : /\ pending'[j].seq = slots'[k].seq
                                          /\ pending'[j].type = slots'[k].type
    <3>1. slots'[k] = slots[k] /\ slots[k] # Free /\ slots[k].seq # s
      BY <1>9, <2>1
    <3>2. PICK l \in DOMAIN pending : /\ pending[l].seq = slots[k].seq
                                      /\ pending[l].type = slots[k].type
      BY <3>1 DEF FrameInv, HeldIsOutstanding
    <3> QED BY <1>4, <3>1, <3>2
  <2>2. \A k, l \in 1..PENDING :
          slots'[k] # Free /\ slots'[l] # Free /\ slots'[k].seq = slots'[l].seq => k = l
    BY <1>9 DEF FrameInv, HeldIsOutstanding
  <2>3. ASSUME Unencodable = {}, NEW j \in DOMAIN pending'
        PROVE  SlotsOf(pending[j].seq)' # {}
    <3>1. PICK k \in DOMAIN pending : pending[k] = pending'[j]
      BY <1>5
    <3>2. PICK l \in SlotsOf(pending[k].seq) : TRUE
      BY <2>3 DEF FrameInv, HeldIsOutstanding
    <3>3. l \in 1..PENDING /\ slots[l] # Free /\ slots[l].seq = pending'[j].seq
      BY <3>1, <3>2 DEF SlotsOf
    <3>4. slots'[l] = slots[l]
      BY <1>3, <1>9, <3>3
    <3> QED BY <3>3, <3>4 DEF SlotsOf
  <2> QED BY <2>1, <2>2, <2>3 DEF HeldIsOutstanding
<1>12. DueHeld'
  <2>1. ASSUME NEW k \in DOMAIN due'
        PROVE  SlotsOf(due[k])' # {}
    <3>1. PICK l \in DOMAIN due : due[l] = due'[k] /\ due[l] # s
      BY <1>7
    <3>2. PICK m \in SlotsOf(due[l]) : TRUE
      BY DEF FrameInv, DueHeld
    <3>3. m \in 1..PENDING /\ slots[m] # Free /\ slots[m].seq = due'[k]
      BY <3>1, <3>2 DEF SlotsOf
    <3>4. slots'[m] = slots[m]
      BY <1>9, <3>1, <3>3
    <3> QED BY <3>3, <3>4 DEF SlotsOf
  <2> QED BY <1>7, <2>1 DEF DueHeld
<1> QED BY <1>1, <1>3, <1>6, <1>7, <1>8, <1>9, <1>10, <1>11, <1>12 DEF FrameInv

------------------------------------------------------------------------------
(* Each action preserves the types and FrameInv. *)

\* A request that is sent: tracked where there is room, its frame held if built.
LEMMA SendFacts ==
  ASSUME TypeOK, FrameInv, NEW t \in MessageType, SendRequest(t)
  PROVE  /\ TypeOK' /\ FrameInv'
         /\ count \in Ids /\ count' = count + 1
         /\ \A r \in Ids : Outstanding(r)' <=> Outstanding(r) \/ (HasRoom /\ r = count)
         /\ HasRoom => pending' = Append(pending, [type |-> t, seq |-> count,
                                                   timestamp |-> now, retries |-> 0])
         /\ ~HasRoom => pending' = pending
         /\ \E n \in {0, 1} : /\ sends' = [sends EXCEPT ![count] = n]
                              /\ Unencodable = {} => n = 1
<1> DEFINE new == [type |-> t, seq |-> count, timestamp |-> now, retries |-> 0]
<1>1. count \in Ids /\ count' \in 0..MaxRequests /\ count' = count + 1 /\ count \in Nat
  BY PacketsAssumption DEF SendRequest, TypeOK, Ids
<1>2. new \in Request /\ new.seq = count /\ new.type = t
  BY <1>1, PacketsAssumption DEF TypeOK, Request
<1>3. PICK built \in BOOLEAN :
        /\ IF HasRoom
           THEN /\ pending' = Append(pending, new)
                /\ IF built THEN Hold(count, t) ELSE UNCHANGED slots
           ELSE UNCHANGED <<pending, slots>>
        /\ sends' = [sends EXCEPT ![count] = IF built THEN 1 ELSE 0]
        /\ t \notin Unencodable => built
  BY DEF SendRequest
<1> HIDE DEF new
<1>4. /\ types' = types /\ next_sweep' = next_sweep /\ due' = due /\ now' = now
      /\ index' = index /\ told' = told /\ age' = age /\ phase' = phase
  BY DEF SendRequest
<1>5. sends' \in [Ids -> Nat]
  BY <1>1, <1>3 DEF TypeOK
<1>6. /\ pending \in Seq(Request) /\ DOMAIN pending = 1..Len(pending) /\ Len(pending) \in Nat
      /\ Len(pending) <= PENDING /\ slots \in [1..PENDING -> Frame \cup {Free}]
  BY TypeFacts
<1>7. \A j \in DOMAIN pending : pending[j].seq # count /\ pending[j].seq < count'
  <2>1. \A j \in DOMAIN pending : pending[j].seq \in Nat
    BY TypeFacts
  <2> QED BY <1>1, <2>1 DEF FrameInv, Numbered
<1>s. \E n \in {0, 1} : /\ sends' = [sends EXCEPT ![count] = n]
                        /\ Unencodable = {} => n = 1
  BY <1>3
<1>8. CASE HasRoom
  <2>1. pending' = Append(pending, new)
    BY <1>3, <1>8
  <2>2. /\ pending' \in Seq(Request) /\ Len(pending') = Len(pending) + 1
        /\ DOMAIN pending' = 1..Len(pending) + 1
        /\ \A j \in DOMAIN pending : pending'[j] = pending[j]
        /\ pending'[Len(pending) + 1] = new
    BY <1>2, <1>6, <2>1
  <2>3. Len(pending') <= PENDING
    BY <1>6, <1>8, <2>2, PacketsAssumption DEF HasRoom
  <2>4. PICK n \in 1..PENDING :
          /\ slots[n] = Free
          /\ slots' = IF built THEN [slots EXCEPT ![n] = [seq |-> count, type |-> t]]
                      ELSE slots
    <3>1. First(FreeSlots) \in FreeSlots /\ FreeSlots # {}
      BY <1>8, FreeSlot, FirstFacts DEF FreeSlots
    <3> QED BY <1>3, <1>8, <3>1 DEF Hold, FreeSlots
  <2> DEFINE frame == [seq |-> count, type |-> t]
  <2>5. frame \in Frame /\ frame # Free /\ frame.seq = count /\ frame.type = t
    BY <1>1, PacketsAssumption DEF Frame, Free
  <2> HIDE DEF frame
  <2>6. /\ slots' \in [1..PENDING -> Frame \cup {Free}]
        /\ \A i \in 1..PENDING : slots'[i] = IF i = n /\ built THEN frame ELSE slots[i]
    BY <1>6, <2>4, <2>5 DEF frame
  <2>7. TypeOK'
    BY <1>1, <1>4, <1>5, <2>2, <2>3, <2>6 DEF TypeOK
  <2>8. \A i \in 1..PENDING : slots[i] # Free => slots[i].seq # count
    BY <1>7 DEF FrameInv, HeldIsOutstanding
  <2>9. Numbered'
    BY SMTT(30), <1>1, <1>2, <1>6, <1>7, <2>2 DEF FrameInv, Numbered
  <2>10. HeldIsOutstanding'
    <3>1. ASSUME NEW i \in 1..PENDING, slots'[i] # Free
          PROVE  \E j \in DOMAIN pending' : /\ pending'[j].seq = slots'[i].seq
                                            /\ pending'[j].type = slots'[i].type
      <4>1. CASE i = n /\ built
        BY <1>2, <1>6, <2>2, <2>5, <2>6, <4>1
      <4>2. CASE ~(i = n /\ built)
        <5>1. slots'[i] = slots[i]
          BY <2>6, <4>2
        <5>2. PICK j \in DOMAIN pending : /\ pending[j].seq = slots[i].seq
                                          /\ pending[j].type = slots[i].type
          BY <3>1, <5>1 DEF FrameInv, HeldIsOutstanding
        <5> QED BY <1>6, <2>2, <5>1, <5>2
      <4> QED BY <4>1, <4>2
    <3>2. \A i, j \in 1..PENDING :
            slots'[i] # Free /\ slots'[j] # Free /\ slots'[i].seq = slots'[j].seq => i = j
      BY <2>5, <2>6, <2>8 DEF FrameInv, HeldIsOutstanding
    <3>3. ASSUME Unencodable = {}, NEW j \in DOMAIN pending'
          PROVE  SlotsOf(pending[j].seq)' # {}
      <4>1. CASE j = Len(pending) + 1
        <5>1. slots'[n] = frame /\ pending'[j].seq = count
          BY <1>2, <1>3, <2>2, <2>6, <3>3, <4>1
        <5> QED BY <2>5, <5>1 DEF SlotsOf
      <4>2. CASE j # Len(pending) + 1
        <5>1. j \in DOMAIN pending /\ pending'[j] = pending[j]
          BY <1>6, <2>2, <4>2
        <5>2. PICK l \in SlotsOf(pending[j].seq) : TRUE
          BY <3>3, <5>1 DEF FrameInv, HeldIsOutstanding
        <5>3. l \in 1..PENDING /\ slots[l] # Free /\ slots[l].seq = pending'[j].seq
          BY <5>1, <5>2 DEF SlotsOf
        <5>4. slots'[l] = slots[l]
          BY <2>4, <2>6, <5>3
        <5> QED BY <5>3, <5>4 DEF SlotsOf
      <4> QED BY <4>1, <4>2
    <3> QED BY <3>1, <3>2, <3>3 DEF HeldIsOutstanding
  <2>11. DueHeld'
    <3>1. ASSUME NEW k \in DOMAIN due'
          PROVE  SlotsOf(due[k])' # {}
      <4>1. PICK m \in SlotsOf(due[k]) : TRUE
        BY <1>4 DEF FrameInv, DueHeld
      <4>2. m \in 1..PENDING /\ slots[m] # Free /\ slots[m].seq = due'[k]
        BY <1>4, <4>1 DEF SlotsOf
      <4>3. slots'[m] = slots[m]
        BY <2>4, <2>6, <4>2
      <4> QED BY <4>2, <4>3 DEF SlotsOf
    <3> QED BY <1>4, <3>1 DEF FrameInv, DueHeld
  <2>12. \A r \in Ids : Outstanding(r)' <=> Outstanding(r) \/ r = count
    BY <1>2, <1>6, <2>2 DEF Outstanding
  <2> QED BY <1>1, <1>8, <1>s, <2>1, <2>7, <2>9, <2>10, <2>11, <2>12 DEF FrameInv, new
<1>9. CASE ~HasRoom
  <2>1. pending' = pending /\ slots' = slots
    BY <1>3, <1>9
  <2>2. TypeOK'
    BY <1>1, <1>4, <1>5, <2>1 DEF TypeOK
  <2>3. Numbered'
    BY <1>7, <2>1 DEF FrameInv, Numbered
  <2>4. HeldIsOutstanding' /\ DueHeld'
    BY <1>4, <2>1 DEF FrameInv, HeldIsOutstanding, DueHeld, SlotsOf
  <2>5. \A r \in Ids : Outstanding(r)' <=> Outstanding(r)
    BY <2>1 DEF Outstanding
  <2> QED BY <1>1, <1>9, <1>s, <2>1, <2>2, <2>3, <2>4, <2>5 DEF FrameInv
<1> QED BY <1>8, <1>9

\* Another attempt changes the number of them and the time, and nothing else.
LEMMA Restamped ==
  ASSUME NEW r \in Request, NEW n \in Clock, NEW m \in 0..RETRIES
  PROVE  LET new == [r EXCEPT !.retries = m, !.timestamp = n]
         IN new \in Request /\ new.seq = r.seq /\ new.type = r.type /\ new.retries = m
<1> DEFINE new == [r EXCEPT !.retries = m, !.timestamp = n]
<1>1. new \in Request
  BY DEF Request
<1>2. new.seq = r.seq /\ new.type = r.type /\ new.retries = m
  BY DEF Request
<1> QED BY <1>1, <1>2

\* A sweep that counts another attempt leaves every number and type in place and
\* queues the frame that is held, if any, once.
LEMMA RetryFacts ==
  ASSUME TypeOK, FrameInv, SweepRetry, NEW s \in Ids, s = pending[index].seq
  PROVE  /\ TypeOK' /\ FrameInv'
         /\ index \in DOMAIN pending /\ DOMAIN pending' = DOMAIN pending
         /\ \A j \in DOMAIN pending :
              /\ pending'[j].seq = pending[j].seq
              /\ pending'[j].retries = IF j = index THEN pending[j].retries + 1
                                       ELSE pending[j].retries
         /\ \A r \in Ids : Outstanding(r)' <=> Outstanding(r)
         /\ \A r \in Ids : DueAt(r) # {} => DueAt(r)' # {}
         /\ \A r \in Ids : DueAt(r)' # {} => DueAt(r) # {} \/ r = s
         /\ DueAt(s) = {} /\ Len(due) < PENDING /\ Unencodable = {} => DueAt(s)' # {}
<1>t. /\ pending \in Seq(Request) /\ DOMAIN pending = 1..Len(pending) /\ Len(pending) \in Nat
      /\ Len(pending) <= PENDING /\ due \in Seq(Ids) /\ DOMAIN due = 1..Len(due)
      /\ \A j \in DOMAIN pending : pending[j] \in Request /\ pending[j].seq \in Ids
  BY TypeFacts
<1>1. index \in DOMAIN pending /\ index \in Nat /\ index + 1 \in 0..PENDING + 1
  <2>1. index > 0 /\ index <= Len(pending) /\ index \in Nat
    BY DEF SweepRetry, Sweeping, TypeOK
  <2> QED BY <1>t, <2>1, PacketsAssumption
<1> DEFINE old == pending[index]
           new == [old EXCEPT !.retries = @ + 1, !.timestamp = now]
<1>2. pending' = [pending EXCEPT ![index] = new]
  BY DEF SweepRetry
<1>3. /\ new \in Request /\ new.seq = old.seq /\ new.type = old.type
      /\ new.retries = old.retries + 1
  <2>1. old \in Request
    BY <1>1, <1>t
  <2>2. old.retries < RETRIES /\ old.retries \in Nat /\ RETRIES \in Nat /\ now \in Clock
    BY SMTT(30), <2>1, PacketsAssumption DEF SweepRetry, RetriesLeft, Request, TypeOK
  <2>3. old.retries + 1 \in 0..RETRIES
    BY <2>2
  <2> QED BY ZenonT(30), <2>1, <2>2, <2>3, Restamped
<1> HIDE DEF new
<1>4. /\ pending' \in Seq(Request) /\ Len(pending') = Len(pending)
      /\ DOMAIN pending' = DOMAIN pending
      /\ \A j \in DOMAIN pending : pending'[j] = IF j = index THEN new ELSE pending[j]
  BY <1>1, <1>2, <1>3, <1>t
<1>5. \A j \in DOMAIN pending :
        /\ pending'[j].seq = pending[j].seq /\ pending'[j].type = pending[j].type
        /\ pending'[j].retries = IF j = index THEN pending[j].retries + 1
                                 ELSE pending[j].retries
  BY <1>3, <1>4
<1>6. /\ types' = types /\ next_sweep' = next_sweep /\ now' = now /\ slots' = slots
      /\ count' = count /\ index' = index + 1
      /\ sends' = sends /\ told' = told /\ age' = age /\ phase' = phase
  BY DEF SweepRetry, history
<1>8. due' = IF SlotsOf(s) # {} /\ DueAt(s) = {} /\ Len(due) < PENDING
             THEN Append(due, s) ELSE due
  BY DEF SweepRetry, MarkDue
<1>9. /\ due' \in Seq(Ids) /\ Len(due') <= PENDING
      /\ \A k \in DOMAIN due' : due'[k] = s \/ \E l \in DOMAIN due : due[l] = due'[k]
      /\ \A k \in DOMAIN due' : SlotsOf(due[k])' # {}
      /\ \A k, l \in DOMAIN due' : due'[k] = due'[l] => k = l
      /\ \A l \in DOMAIN due : l \in DOMAIN due' /\ due'[l] = due[l]
  <2>0. Len(due) \in Nat /\ Len(due) <= PENDING /\ PENDING \in Nat
    BY PacketsAssumption DEF TypeOK
  <2>a. /\ \A k \in DOMAIN due : SlotsOf(due[k]) # {}
        /\ \A k, l \in DOMAIN due : due[k] = due[l] => k = l
    BY DEF FrameInv, DueHeld
  <2>1. CASE SlotsOf(s) # {} /\ DueAt(s) = {} /\ Len(due) < PENDING
    <3>1. due' = Append(due, s)
      BY <1>8, <2>1
    <3>2. /\ due' \in Seq(Ids) /\ Len(due') = Len(due) + 1 /\ DOMAIN due' = 1..Len(due) + 1
          /\ \A k \in DOMAIN due : due'[k] = due[k]
          /\ due'[Len(due) + 1] = s
      BY <1>t, <3>1
    <3>3. \A k \in DOMAIN due : due[k] # s
      BY <2>1 DEF DueAt
    <3>4. \A k \in DOMAIN due' : k \in DOMAIN due \/ k = Len(due) + 1
      BY <1>t, <2>0, <3>2
    <3>5. ASSUME NEW k \in DOMAIN due'
          PROVE  SlotsOf(due[k])' # {}
      <4>1. SlotsOf(due'[k]) # {}
        BY <2>1, <2>a, <3>2, <3>4
      <4> QED BY <1>6, <4>1 DEF SlotsOf
    <3>6. \A k, l \in DOMAIN due' : due'[k] = due'[l] => k = l
      BY <2>a, <3>2, <3>3, <3>4
    <3>7. \A k \in DOMAIN due' : due'[k] = s \/ \E l \in DOMAIN due : due[l] = due'[k]
      BY <3>2, <3>4
    <3>8. \A l \in DOMAIN due : l \in DOMAIN due' /\ due'[l] = due[l]
      BY <1>t, <2>0, <3>2
    <3>9. Len(due') <= PENDING
      BY <2>0, <2>1, <3>2
    <3> QED BY <3>2, <3>5, <3>6, <3>7, <3>8, <3>9
  <2>2. CASE ~(SlotsOf(s) # {} /\ DueAt(s) = {} /\ Len(due) < PENDING)
    <3>1. due' = due
      BY <1>8, <2>2
    <3>2. ASSUME NEW k \in DOMAIN due'
          PROVE  SlotsOf(due[k])' # {}
      BY <1>6, <2>a, <3>1 DEF SlotsOf
    <3> QED BY <1>t, <2>0, <2>a, <3>1, <3>2
  <2> QED BY <2>1, <2>2
<1>10. TypeOK'
  BY <1>1, <1>4, <1>6, <1>9, <1>t DEF TypeOK
<1>11. Numbered'
  BY <1>4, <1>5, <1>6 DEF FrameInv, Numbered
<1>12. HeldIsOutstanding'
  <2>1. \A i \in 1..PENDING : slots'[i] # Free =>
          \E j \in DOMAIN pending' : /\ pending'[j].seq = slots'[i].seq
                                     /\ pending'[j].type = slots'[i].type
    BY <1>4, <1>5, <1>6 DEF FrameInv, HeldIsOutstanding
  <2>2. \A i, j \in 1..PENDING :
          slots'[i] # Free /\ slots'[j] # Free /\ slots'[i].seq = slots'[j].seq => i = j
    BY <1>6 DEF FrameInv, HeldIsOutstanding
  <2>3. Unencodable = {} => \A j \in DOMAIN pending' : SlotsOf(pending[j].seq)' # {}
    BY <1>4, <1>5, <1>6 DEF FrameInv, HeldIsOutstanding, SlotsOf
  <2> QED BY <2>1, <2>2, <2>3 DEF HeldIsOutstanding
<1>13. DueHeld'
  BY <1>9 DEF DueHeld
<1>14. \A r \in Ids : Outstanding(r)' <=> Outstanding(r)
  BY <1>4, <1>5 DEF Outstanding
<1>15. \A r \in Ids : DueAt(r) # {} => DueAt(r)' # {}
  BY <1>9 DEF DueAt
<1>16. \A r \in Ids : DueAt(r)' # {} => DueAt(r) # {} \/ r = s
  BY <1>9 DEF DueAt
<1>17. ASSUME DueAt(s) = {}, Len(due) < PENDING, Unencodable = {}
       PROVE  DueAt(s)' # {}
  <2>1. SlotsOf(s) # {}
    BY <1>1, <1>17 DEF FrameInv, HeldIsOutstanding
  <2>2. due' = Append(due, s)
    BY <1>8, <1>17, <2>1
  <2>3. Len(due) + 1 \in DOMAIN due' /\ due'[Len(due) + 1] = s
    BY <1>t, <2>2
  <2> QED BY <2>3 DEF DueAt
<1> QED BY <1>1, <1>4, <1>5, <1>10, <1>11, <1>12, <1>13, <1>14, <1>15, <1>16, <1>17 DEF FrameInv

\* A re-send puts the frame of an outstanding request on the wire once more and
\* takes it off the queue.
LEMMA ResendFacts ==
  ASSUME TypeOK, FrameInv, Retransmit, NEW s \in Ids, s = due[1]
  PROVE  /\ TypeOK' /\ FrameInv'
         /\ Outstanding(s) /\ DueAt(s) # {}
         /\ sends' = [sends EXCEPT ![s] = @ + 1]
         /\ \A r \in Ids : DueAt(r)' = {} <=> DueAt(r) = {} \/ r = s
<1>t. /\ due \in Seq(Ids) /\ DOMAIN due = 1..Len(due) /\ Len(due) \in Nat
      /\ Len(due) <= PENDING /\ PENDING \in Nat
  BY PacketsAssumption DEF TypeOK
<1>1. 1 \in DOMAIN due
  BY <1>t DEF Retransmit
<1>2. /\ types' = types /\ pending' = pending /\ count' = count /\ next_sweep' = next_sweep
      /\ slots' = slots /\ now' = now /\ index' = index /\ told' = told /\ age' = age
      /\ phase' = phase
  BY DEF Retransmit, registryVars
<1>3. due' = Undue(s)
  BY DEF Retransmit
<1>4. /\ due' \in Seq(Ids) /\ Len(due') <= Len(due)
      /\ \A k \in DOMAIN due' : due'[k] # s /\ \E l \in DOMAIN due : due[l] = due'[k]
      /\ \A l \in DOMAIN due : due[l] # s => \E k \in DOMAIN due' : due'[k] = due[l]
      /\ \A k, l \in DOMAIN due' : due'[k] = due'[l] => k = l
  BY <1>3, UndueFacts
<1>5. \A r \in Ids : DueAt(r)' = {} <=> DueAt(r) = {} \/ r = s
  BY <1>4 DEF DueAt
<1>6. SlotsOf(s) # {} /\ DueAt(s) # {}
  BY <1>1 DEF FrameInv, DueHeld, DueAt
<1> DEFINE n == First(SlotsOf(s))
<1>7. n \in 1..PENDING /\ slots[n] # Free /\ slots[n].seq = s
  <2>1. SlotsOf(s) \in SUBSET Nat
    BY DEF SlotsOf
  <2>2. n \in SlotsOf(s)
    BY <1>6, <2>1, FirstFacts
  <2> QED BY <2>2 DEF SlotsOf
<1>8. sends' = [sends EXCEPT ![s] = @ + 1]
  BY <1>6, <1>7 DEF Retransmit
<1>9. Outstanding(s)
  BY <1>7 DEF FrameInv, HeldIsOutstanding, Outstanding
<1>10. TypeOK'
  <2>1. sends' \in [Ids -> Nat]
    BY <1>8 DEF TypeOK
  <2>2. Len(due') <= PENDING /\ due' \in Seq(Ids)
    BY <1>4, <1>t
  <2> QED BY <1>2, <2>1, <2>2 DEF TypeOK
<1>11. Numbered' /\ HeldIsOutstanding'
  BY <1>2 DEF FrameInv, Numbered, HeldIsOutstanding, SlotsOf
<1>12. DueHeld'
  <2>1. ASSUME NEW k \in DOMAIN due'
        PROVE  SlotsOf(due[k])' # {}
    <3>1. PICK l \in DOMAIN due : due[l] = due'[k]
      BY <1>4
    <3>2. SlotsOf(due'[k]) # {}
      BY <3>1 DEF FrameInv, DueHeld
    <3> QED BY <1>2, <3>2 DEF SlotsOf
  <2> QED BY <1>4, <2>1 DEF DueHeld
<1> QED BY <1>5, <1>6, <1>8, <1>9, <1>10, <1>11, <1>12 DEF FrameInv

\* A reply or a sweep that gives up ends one request, s, and tells of it.
Ends(s, i, told_) ==
  /\ i \in DOMAIN pending /\ pending[i].seq = s
  /\ pending' = Without(pending, i)
  /\ Release(s)
  /\ told' = [told EXCEPT ![s] = Append(@, told_)]
  /\ age' = [age EXCEPT ![s] = 0]
  /\ UNCHANGED <<types, count, next_sweep, now, index, sends, phase>>

\* A reply is such a step.
LEMMA ReplyEnds ==
  ASSUME TypeOK, NEW t, NEW s \in Ids, ReceiveReply(t, s)
  PROVE  \E i \in DOMAIN pending : Ends(s, i, "Reply")
<1> DEFINE S == {i \in DOMAIN pending : pending[i].seq = s}
<1>1. S # {} /\ S \in SUBSET Nat
  BY TypeFacts DEF ReceiveReply
<1>2. First(S) \in S
  BY <1>1, FirstFacts
<1>3. pending' = Without(pending, First(S))
  BY DEF ReceiveReply
<1>4. PICK i \in DOMAIN pending : pending[i].seq = s /\ pending' = Without(pending, i)
  BY <1>2, <1>3
<1>5. Ends(s, i, "Reply")
  BY <1>4 DEF Ends, ReceiveReply
<1> QED BY <1>5

\* A sweep that gives up is such a step, on the request it looks at.
LEMMA TimeoutEnds ==
  ASSUME TypeOK, SweepTimedOut, NEW s \in Ids, s = pending[index].seq
  PROVE  Ends(s, index, "Timeout") /\ index \in DOMAIN pending
<1>1. index > 0 /\ index <= Len(pending) /\ index \in Nat
  BY DEF SweepTimedOut, Sweeping, TypeOK
<1>2. index \in DOMAIN pending
  BY <1>1, TypeFacts
<1> QED BY <1>2 DEF Ends, SweepTimedOut

\* Such a step preserves the types and FrameInv.
LEMMA EndFacts ==
  ASSUME TypeOK, FrameInv, NEW s \in Ids, NEW i, NEW out \in {"Reply", "Timeout"},
         Ends(s, i, out)
  PROVE  TypeOK' /\ FrameInv'
<1>1. /\ Shortened(pending', pending, i, Request)
      /\ due' \in Seq(Ids) /\ Len(due') <= Len(due)
      /\ slots' \in [1..PENDING -> Frame \cup {Free}]
      /\ FrameInv'
  BY DropFacts DEF Ends
<1>2. pending' \in Seq(Request) /\ Len(pending') = Len(pending) - 1
  BY <1>1 DEF Shortened
<1>3. Len(pending') <= PENDING /\ Len(due') <= PENDING
  BY <1>1, <1>2, TypeFacts, PacketsAssumption DEF TypeOK
<1>4. told' \in [Ids -> Seq({"Reply", "Timeout"})] /\ age' \in [Ids -> Nat]
  BY DEF Ends, TypeOK
<1>5. TypeOK'
  BY <1>1, <1>2, <1>3, <1>4 DEF TypeOK, Ends
<1> QED BY <1>1, <1>5

\* Whatever leaves the requests and the frames alone preserves FrameInv.
LEMMA FrameSame ==
  ASSUME FrameInv, UNCHANGED <<pending, count, slots, due>>
  PROVE  FrameInv'
BY DEF FrameInv, Numbered, HeldIsOutstanding, DueHeld, SlotsOf

\* The types of what the other actions change.
LEMMA OtherFacts ==
  ASSUME TypeOK, FrameInv
  PROVE  /\ (\E r \in Registrations : Register(r) \/ Unregister(r.type)) => TypeOK' /\ FrameInv'
         /\ BeginSweep \/ SweepUnexpired \/ EndSweep \/ Tick => TypeOK' /\ FrameInv'
<1>0. UNCHANGED <<pending, count, slots, due>> => FrameInv'
  BY FrameSame
<1>1. ASSUME NEW r \in Registrations, Register(r)
      PROVE  TypeOK' /\ FrameInv'
  <2>1. types' \in Seq(Registration) /\ Len(types') <= TYPES
    <3>1. r \in Registration
      BY PacketsAssumption
    <3>2. types \in Seq(Registration) /\ Len(types) < TYPES /\ types' = Append(types, r)
      BY <1>1 DEF TypeOK, Register
    <3> QED BY <3>1, <3>2, PacketsAssumption
  <2> QED BY <1>0, <1>1, <2>1 DEF Register, TypeOK, heldVars, history
<1>2. ASSUME NEW t, Unregister(t)
      PROVE  TypeOK' /\ FrameInv'
  <2> DEFINE n == First(Registered(t))
  <2>1. types \in Seq(Registration) /\ DOMAIN types = 1..Len(types) /\ Len(types) \in Nat
    BY DEF TypeOK
  <2>2. Registered(t) # {} /\ Registered(t) \in SUBSET Nat
    BY <1>2, <2>1 DEF Unregister, Registered
  <2>3. n \in Registered(t)
    BY <2>2, FirstFacts
  <2>4. types' = Without(types, n)
    BY <1>2 DEF Unregister
  <2> HIDE DEF n
  <2>5. n \in DOMAIN types
    BY <2>3 DEF Registered
  <2>6. Shortened(types', types, n, Registration)
    BY <2>1, <2>4, <2>5, WithoutFacts
  <2>7. types' \in Seq(Registration) /\ Len(types') = Len(types) - 1
    BY <2>6 DEF Shortened
  <2>8. Len(types') <= TYPES
    BY <2>1, <2>7, PacketsAssumption DEF TypeOK
  <2> QED BY <1>0, <1>2, <2>7, <2>8 DEF Unregister, TypeOK, heldVars, history
<1>3. ASSUME BeginSweep
      PROVE  TypeOK' /\ FrameInv'
  <2>1. next_sweep' \in Clock
    BY <1>3, NextSweepFacts DEF BeginSweep, TypeOK
  <2>2. index' \in 0..PENDING + 1
    BY <1>3, PacketsAssumption DEF BeginSweep
  <2> QED BY <1>0, <1>3, <2>1, <2>2 DEF BeginSweep, TypeOK, heldVars, history
<1>4. ASSUME SweepUnexpired
      PROVE  TypeOK' /\ FrameInv'
  <2>1. index' \in 0..PENDING + 1
    <3>1. index \in Nat /\ index <= Len(pending) /\ index' = index + 1
      BY <1>4 DEF SweepUnexpired, Sweeping, TypeOK
    <3> QED BY <3>1, TypeFacts, PacketsAssumption
  <2> QED BY <1>0, <1>4, <2>1 DEF SweepUnexpired, TypeOK, registryVars, heldVars, history
<1>5. ASSUME EndSweep
      PROVE  TypeOK' /\ FrameInv'
  <2>1. index' \in 0..PENDING + 1
    BY <1>5, PacketsAssumption DEF EndSweep
  <2> QED BY <1>0, <1>5, <2>1 DEF EndSweep, TypeOK, registryVars, heldVars, history
<1>6. ASSUME Tick
      PROVE  TypeOK' /\ FrameInv'
  <2>1. now' \in Clock /\ phase' \in 0..PERIOD - 1
    <3>1. now + 1 \in Int /\ phase + 1 \in Int
      BY PacketsAssumption DEF TypeOK, Clock
    <3> QED BY <1>6, <3>1, ClockFacts DEF Tick
  <2>2. age' \in [Ids -> Nat]
    BY <1>6 DEF Tick, TypeOK
  <2> QED BY <1>0, <1>6, <2>1, <2>2 DEF Tick, TypeOK, registryVars, heldVars
<1> QED BY <1>1, <1>2, <1>3, <1>4, <1>5, <1>6

\* The first part of the inductive invariant.
FramesInv == TypeOK /\ FrameInv

\* It holds of a node that starts.
LEMMA FramesInit == Init => FramesInv
<1> SUFFICES ASSUME Init PROVE TypeOK /\ FrameInv
  BY DEF FramesInv
<1>1. /\ types = InitTypes /\ pending = <<>> /\ count = 0 /\ now = 0 /\ next_sweep = PERIOD
      /\ index = 0 /\ slots = [i \in 1..PENDING |-> Free] /\ due = <<>>
      /\ sends = [i \in Ids |-> 0] /\ told = [i \in Ids |-> <<>>]
      /\ age = [i \in Ids |-> 0] /\ phase = 0
  BY DEF Init
<1>2. types \in Seq(Registration) /\ Len(types) <= TYPES
  BY <1>1, PacketsAssumption
<1>3. pending \in Seq(Request) /\ Len(pending) <= PENDING /\ due \in Seq(Ids)
      /\ Len(due) <= PENDING /\ DOMAIN pending = {} /\ DOMAIN due = {}
  BY <1>1, PacketsAssumption
<1>4. /\ count \in 0..MaxRequests /\ index \in 0..PENDING + 1 /\ phase \in 0..PERIOD - 1
      /\ now \in Clock /\ next_sweep \in Clock
  BY <1>1, PacketsAssumption, ClockFacts
<1>5. /\ slots \in [1..PENDING -> Frame \cup {Free}] /\ sends \in [Ids -> Nat]
      /\ told \in [Ids -> Seq({"Reply", "Timeout"})] /\ age \in [Ids -> Nat]
  BY <1>1
<1>6. TypeOK
  BY <1>2, <1>3, <1>4, <1>5 DEF TypeOK
<1>7. \A i \in 1..PENDING : slots[i] = Free
  BY <1>1
<1>8. FrameInv
  BY <1>3, <1>7 DEF FrameInv, Numbered, HeldIsOutstanding, DueHeld
<1> QED BY <1>6, <1>8

\* Every step preserves it.
LEMMA FramesStep == FramesInv /\ [Next]_vars => FramesInv'
<1> SUFFICES ASSUME TypeOK, FrameInv, [Next]_vars PROVE TypeOK' /\ FrameInv'
  BY DEF FramesInv
<1>t. /\ \A j \in DOMAIN pending : pending[j].seq \in Ids
      /\ \A k \in DOMAIN due : due[k] \in Ids
  BY TypeFacts
<1>1. CASE \E r \in Registrations : Register(r) \/ Unregister(r.type)
  BY <1>1, OtherFacts
<1>2. CASE \E t \in MessageType : SendRequest(t)
  BY <1>2, SendFacts
<1>3. ASSUME NEW t \in MessageType, NEW s \in Ids, ReceiveReply(t, s)
      PROVE  TypeOK' /\ FrameInv'
  BY <1>3, ReplyEnds, EndFacts
<1>4. CASE BeginSweep \/ SweepUnexpired \/ EndSweep \/ Tick
  BY <1>4, OtherFacts
<1>5. CASE SweepRetry
  <2>1. index \in DOMAIN pending
    <3>1. index > 0 /\ index <= Len(pending) /\ index \in Nat
      BY <1>5 DEF SweepRetry, Sweeping, TypeOK
    <3> QED BY <3>1, TypeFacts
  <2>2. PICK s \in Ids : s = pending[index].seq
    BY <1>t, <2>1
  <2> QED BY <1>5, <2>2, RetryFacts
<1>6. CASE SweepTimedOut
  <2>1. index \in DOMAIN pending
    <3>1. index > 0 /\ index <= Len(pending) /\ index \in Nat
      BY <1>6 DEF SweepTimedOut, Sweeping, TypeOK
    <3> QED BY <3>1, TypeFacts
  <2>2. PICK s \in Ids : s = pending[index].seq
    BY <1>t, <2>1
  <2>3. Ends(s, index, "Timeout")
    BY <1>6, <2>2, TimeoutEnds
  <2>4. PICK i \in DOMAIN pending : i = index
    BY <2>1
  <2> QED BY <2>3, <2>4, EndFacts
<1>7. CASE Retransmit
  <2>1. 1 \in DOMAIN due
    BY <1>7, TypeFacts DEF Retransmit
  <2>2. PICK s \in Ids : s = due[1]
    BY <1>t, <2>1
  <2> QED BY <1>7, <2>2, ResendFacts
<1>8. CASE UNCHANGED vars
  <2>1. FrameInv'
    BY <1>8, FrameSame DEF vars, registryVars, heldVars
  <2> QED BY <1>8, <2>1 DEF vars, registryVars, heldVars, history, TypeOK
<1> QED BY <1>1, <1>2, <1>3, <1>4, <1>5, <1>6, <1>7, <1>8 DEF Next, Sweep

\* The registry, the slots and the queues stay within their types and capacities,
\* whatever is called in whatever order.
THEOREM TypeCorrect == Spec => []TypeOK
<1>1. FramesInv => TypeOK
  BY DEF FramesInv
<1> QED BY <1>1, FramesInit, FramesStep, PTL DEF Spec

\* A frame is held for exactly the outstanding requests, each in one slot: no order
\* of replies, timeouts and re-sends leaks a slot of HeldRequests or loses one.
THEOREM HeldIsExact == Spec => []HeldIsOutstanding
<1>1. FramesInv => HeldIsOutstanding
  BY DEF FramesInv, FrameInv
<1> QED BY <1>1, FramesInit, FramesStep, PTL DEF Spec

\* A re-send is queued only for an outstanding request, and once.
THEOREM DueIsExact == Spec => []DueIsOutstanding
<1>1. FramesInv => DueIsOutstanding
  <2> SUFFICES ASSUME FramesInv PROVE DueIsOutstanding
    OBVIOUS
  <2>1. ASSUME NEW k \in DOMAIN due PROVE Outstanding(due[k])
    <3>1. PICK i \in 1..PENDING : slots[i] # Free /\ slots[i].seq = due[k]
      BY DEF FramesInv, FrameInv, DueHeld, SlotsOf
    <3> QED BY <3>1 DEF FramesInv, FrameInv, HeldIsOutstanding, Outstanding
  <2> QED BY <2>1 DEF DueIsOutstanding, FramesInv, FrameInv, DueHeld
<1> QED BY <1>1, FramesInit, FramesStep, PTL DEF Spec

\* HeldRequests and Registry agree, for every capacity, retry count, timeout and
\* period, in whatever order they are called.
THEOREM FramesMatch == Spec => []FramesMatchRequests
<1>1. HeldIsOutstanding /\ DueIsOutstanding => FramesMatchRequests
  BY DEF FramesMatchRequests
<1> QED BY <1>1, HeldIsExact, DueIsExact, PTL

------------------------------------------------------------------------------
(* Packets implements Exchange. *)

Exactly == Prompt /\ Unencodable = {}
DueCount(s) == IF DueAt(s) = {} THEN 0 ELSE 1

\* A request was sent as often as it was tried, but for the one re-send that may
\* be queued; where none is skipped, exactly as often.
SendsInv ==
  /\ \A s \in Ids : s >= count => sends[s] = 0
  /\ \A i \in DOMAIN pending :
       LET s == pending[i].seq IN
       /\ sends[s] + DueCount(s) <= 1 + pending[i].retries
       /\ Exactly => sends[s] + DueCount(s) = 1 + pending[i].retries

\* Node::run_app starts a sweep with no re-send queued, so what the sweep has not
\* reached yet is not queued.
SweepInv ==
  Prompt /\ index > 0 => \A i \in DOMAIN pending : i >= index => DueAt(pending[i].seq) = {}

\* Nothing was told of a request that is still open or not yet sent.
ToldInv == \A s \in Ids : s >= count \/ Outstanding(s) => told[s] = <<>>

\* The inductive invariant of the refinement.
OutcomeInv == FramesInv /\ SendsInv /\ SweepInv /\ ToldInv

\* A request that is outstanding and not queued leaves room in the queue.
LEMMA DueRoom ==
  ASSUME TypeOK, FrameInv, NEW i \in DOMAIN pending, DueAt(pending[i].seq) = {}
  PROVE  Len(due) < PENDING
<1>t. /\ Len(due) \in Nat /\ DOMAIN due = 1..Len(due) /\ Len(pending) \in Nat
      /\ DOMAIN pending = 1..Len(pending) /\ Len(pending) <= PENDING /\ PENDING \in Nat
  BY TypeFacts, PacketsAssumption
<1> SUFFICES ASSUME ~(Len(due) < PENDING) PROVE FALSE
  OBVIOUS
<1> DEFINE m == Len(due) + 1
           g(k) == IF k = m THEN pending[i].seq ELSE due[k]
<1>1. \A k \in 1..m : k = m \/ k \in DOMAIN due
  BY <1>t
<1>2. \A k \in DOMAIN due : \E j \in DOMAIN pending : pending[j].seq = due[k]
  <2>1. ASSUME NEW k \in DOMAIN due
        PROVE  \E j \in DOMAIN pending : pending[j].seq = due[k]
    <3>1. PICK n \in 1..PENDING : slots[n] # Free /\ slots[n].seq = due[k]
      BY DEF FrameInv, DueHeld, SlotsOf
    <3> QED BY <3>1 DEF FrameInv, HeldIsOutstanding
  <2> QED BY <2>1
<1>3. \A k \in 1..m : \E j \in 1..Len(pending) : pending[j].seq = g(k)
  BY <1>1, <1>2, <1>t
<1> DEFINE f == [k \in 1..m |-> CHOOSE j \in 1..Len(pending) : pending[j].seq = g(k)]
<1>4. \A k \in 1..m : f[k] \in 1..Len(pending) /\ pending[f[k]].seq = g(k)
  BY <1>3
<1>5. f \in [1..m -> 1..Len(pending)]
  BY <1>4
<1>6. m \in Nat /\ Len(pending) < m
  BY <1>t
<1> HIDE DEF f
<1>7. PICK x, y \in 1..m : x # y /\ f[x] = f[y]
  <2> HIDE DEF m
  <2> QED BY <1>5, <1>6, <1>t, Pigeons
<1>8. g(x) = g(y)
  BY <1>4, <1>7
<1>9. \A k, l \in DOMAIN due : due[k] = due[l] => k = l
  BY DEF FrameInv, DueHeld
<1>10. \A k \in DOMAIN due : due[k] # pending[i].seq
  BY DEF DueAt
<1> QED BY <1>1, <1>7, <1>8, <1>9, <1>10

\* The counts are numbers.
LEMMA CountFacts ==
  ASSUME TypeOK
  PROVE  /\ \A s \in Ids : sends[s] \in Nat
         /\ \A s : DueCount(s) \in {0, 1}
         /\ \A i \in DOMAIN pending : /\ pending[i].retries \in Nat /\ pending[i].seq \in Ids
                                      /\ pending[i].retries <= RETRIES
         /\ RETRIES \in Nat /\ Ids \subseteq Nat /\ count \in Nat
BY TypeFacts, PacketsAssumption DEF TypeOK, DueCount

\* Whatever leaves the requests, the queue and the history alone preserves the rest.
LEMMA OutcomeSame ==
  ASSUME SendsInv, ToldInv, UNCHANGED <<pending, count, due, sends, told>>
  PROVE  SendsInv' /\ ToldInv'
<1>1. \A s : DueCount(s)' = DueCount(s) /\ (Outstanding(s)' <=> Outstanding(s))
  BY DEF DueCount, DueAt, Outstanding
<1>2. SendsInv'
  BY <1>1 DEF SendsInv
<1>3. ToldInv'
  BY <1>1 DEF ToldInv
<1> QED BY <1>2, <1>3

------------------------------------------------------------------------------
(* Each action preserves the counts and the history. *)

\* What a request that ends leaves of the others.
LEMMA EndKeeps ==
  ASSUME OutcomeInv, NEW s \in Ids, NEW i, NEW out \in {"Reply", "Timeout"}, Ends(s, i, out)
  PROVE  SendsInv' /\ ToldInv' /\ (index <= i => SweepInv')
<1> USE DEF OutcomeInv, FramesInv
<1>1. /\ Shortened(pending', pending, i, Request)
      /\ \A j \in DOMAIN pending' : pending'[j].seq # s
      /\ \A r \in Ids : Outstanding(r)' <=> Outstanding(r) /\ r # s
      /\ \A r \in Ids : DueAt(r)' = {} <=> DueAt(r) = {} \/ r = s
  BY DropFacts DEF Ends
<1>2. /\ \A j \in DOMAIN pending' : /\ Before(i, j) \in DOMAIN pending
                                    /\ pending'[j] = pending[Before(i, j)]
      /\ DOMAIN pending' \subseteq Nat
  BY <1>1 DEF Shortened
<1>3. /\ count' = count /\ sends' = sends /\ index' = index /\ i \in DOMAIN pending
      /\ told' = [told EXCEPT ![s] = Append(@, out)]
  BY DEF Ends
<1>4. \A j \in DOMAIN pending : pending[j].seq \in Ids
  BY TypeFacts
<1>5. SendsInv'
  <2>1. \A r \in Ids : r >= count' => sends'[r] = 0
    BY <1>3 DEF SendsInv
  <2>2. ASSUME NEW j \in DOMAIN pending'
        PROVE  LET r == pending'[j].seq
                   c == IF DueAt(pending[j].seq)' = {} THEN 0 ELSE 1
               IN /\ sends'[r] + c <= 1 + pending'[j].retries
                  /\ Exactly => sends'[r] + c = 1 + pending'[j].retries
    <3>1. PICK k \in DOMAIN pending : pending'[j] = pending[k]
      BY <1>2
    <3>2. PICK r \in Ids : r = pending[k].seq
      BY <1>4
    <3>3. r # s /\ pending'[j].seq = r
      BY <1>1, <3>1, <3>2
    <3>4. DueAt(pending[j].seq)' = {} <=> DueAt(r) = {}
      <4>1. DueAt(pending[j].seq)' = DueAt(r)'
        BY <3>3 DEF DueAt
      <4> QED BY <1>1, <3>3, <4>1
    <3>5. /\ sends[r] + DueCount(r) <= 1 + pending[k].retries
          /\ Exactly => sends[r] + DueCount(r) = 1 + pending[k].retries
      BY <3>2 DEF SendsInv
    <3> QED BY <1>3, <3>1, <3>3, <3>4, <3>5 DEF DueCount
  <2> QED BY <2>1, <2>2 DEF SendsInv, DueCount
<1>6. ToldInv'
  <2>1. ASSUME NEW r \in Ids, r >= count' \/ Outstanding(r)'
        PROVE  told'[r] = <<>>
    <3>1. s < count /\ s \in Nat /\ r \in Nat /\ count \in Nat
      BY <1>3, TypeFacts DEF Ends, FrameInv, Numbered
    <3>2. r # s
      BY <1>1, <1>3, <2>1, <3>1
    <3>3. told'[r] = told[r]
      BY <1>3, <3>2 DEF TypeOK
    <3> QED BY <1>1, <1>3, <2>1, <3>3 DEF ToldInv
  <2> QED BY <2>1 DEF ToldInv
<1>7. ASSUME index <= i
      PROVE  SweepInv'
  <2>1. ASSUME Prompt, index' > 0, NEW j \in DOMAIN pending', j >= index'
        PROVE  DueAt(pending[j].seq)' = {}
    <3>1. PICK k \in DOMAIN pending : k = Before(i, j) /\ pending'[j] = pending[k]
      BY <1>2
    <3>2. k >= index
      <4>1. i \in Nat /\ j \in Nat /\ index \in Nat
        BY <1>2, <1>3, TypeFacts
      <4> QED BY <1>3, <2>1, <3>1, <4>1 DEF Before
    <3>3. PICK r \in Ids : r = pending[k].seq
      BY <1>4
    <3>4. DueAt(r) = {}
      BY <1>3, <2>1, <3>2, <3>3 DEF SweepInv
    <3>5. DueAt(pending[j].seq)' = DueAt(r)'
      BY <3>1, <3>3 DEF DueAt
    <3> QED BY <1>1, <3>4, <3>5
  <2> QED BY <2>1 DEF SweepInv
<1> QED BY <1>5, <1>6, <1>7

\* A request sent starts with one send, or none if it could not be built.
LEMMA SendKeeps ==
  ASSUME OutcomeInv, NEW t \in MessageType, SendRequest(t)
  PROVE  SendsInv' /\ ToldInv' /\ SweepInv'
<1> USE DEF OutcomeInv, FramesInv
<1>1. /\ count \in Ids /\ count' = count + 1
      /\ \A r \in Ids : Outstanding(r)' <=> Outstanding(r) \/ (HasRoom /\ r = count)
      /\ HasRoom => pending' = Append(pending, [type |-> t, seq |-> count,
                                                timestamp |-> now, retries |-> 0])
      /\ ~HasRoom => pending' = pending
  BY SendFacts
<1>2. PICK n \in {0, 1} : /\ sends' = [sends EXCEPT ![count] = n]
                          /\ Unencodable = {} => n = 1
  BY SendFacts
<1>3. index' = 0 /\ due' = due /\ told' = told /\ Callable
  BY DEF SendRequest, Callable
<1>4. SweepInv'
  BY <1>3 DEF SweepInv
<1>5. \A r \in Ids : r \in Nat /\ sends[r] \in Nat
  BY CountFacts
<1>6. ToldInv'
  BY <1>1, <1>3, <1>5 DEF ToldInv
<1>7. \A r : DueAt(r)' = DueAt(r)
  BY <1>3 DEF DueAt
<1>8. DueAt(count) = {}
  <2> SUFFICES ASSUME NEW k \in DOMAIN due, due[k] = count PROVE FALSE
    BY DEF DueAt
  <2>1. PICK m \in 1..PENDING : slots[m] # Free /\ slots[m].seq = due[k]
    BY DEF FrameInv, DueHeld, SlotsOf
  <2>2. PICK j \in DOMAIN pending : pending[j].seq = count
    BY <2>1 DEF FrameInv, HeldIsOutstanding
  <2> QED BY <1>1, <1>5, <2>2 DEF FrameInv, Numbered
<1>9. \A r \in Ids : r >= count' => sends'[r] = 0
  <2>1. ASSUME NEW r \in Ids, r >= count' PROVE sends'[r] = 0
    <3>1. r # count /\ r >= count
      BY <1>1, <1>5, <2>1
    <3> QED BY <1>2, <3>1 DEF SendsInv, TypeOK
  <2> QED BY <2>1
<1>10. ASSUME NEW j \in DOMAIN pending'
       PROVE  LET r == pending'[j].seq
                  c == IF DueAt(pending[j].seq)' = {} THEN 0 ELSE 1
              IN /\ sends'[r] + c <= 1 + pending'[j].retries
                 /\ Exactly => sends'[r] + c = 1 + pending'[j].retries
  <2>1. CASE j \in DOMAIN pending /\ pending'[j] = pending[j]
    <3>1. PICK r \in Ids : r = pending[j].seq
      BY <2>1, TypeFacts
    <3>2. r # count /\ sends'[r] = sends[r]
      BY SMTT(30), <1>1, <1>2, <1>5, <2>1, <3>1 DEF FrameInv, Numbered, TypeOK
    <3>3. DueAt(pending[j].seq)' = DueAt(r)
      BY <1>3, <2>1, <3>1 DEF DueAt
    <3>4. /\ sends[r] + DueCount(r) <= 1 + pending[j].retries
          /\ Exactly => sends[r] + DueCount(r) = 1 + pending[j].retries
      BY <2>1, <3>1 DEF SendsInv
    <3> QED BY <2>1, <3>1, <3>2, <3>3, <3>4 DEF DueCount
  <2>2. CASE pending'[j].seq = count /\ pending'[j].retries = 0
    <3>1. DueAt(pending[j].seq)' = {}
      BY <1>3, <1>8, <2>2 DEF DueAt
    <3>2. sends'[count] = n
      BY <1>1, <1>2 DEF TypeOK
    <3> QED BY <1>2, <2>2, <3>1, <3>2 DEF Exactly
  <2>3. (j \in DOMAIN pending /\ pending'[j] = pending[j])
        \/ (pending'[j].seq = count /\ pending'[j].retries = 0)
    <3>1. CASE HasRoom
      <4> DEFINE new == [type |-> t, seq |-> count, timestamp |-> now, retries |-> 0]
      <4>1. pending' = Append(pending, new) /\ new.seq = count /\ new.retries = 0
        BY <1>1, <3>1
      <4> HIDE DEF new
      <4> QED BY <4>1, TypeFacts
    <3>2. CASE ~HasRoom
      BY <1>1, <3>2
    <3> QED BY <3>1, <3>2
  <2> QED BY <2>1, <2>2, <2>3
<1>11. SendsInv'
  BY <1>9, <1>10 DEF SendsInv, DueCount
<1> QED BY <1>4, <1>6, <1>11

\* A sweep's further attempt queues one more re-send.
LEMMA RetryKeeps ==
  ASSUME OutcomeInv, SweepRetry
  PROVE  SendsInv' /\ ToldInv' /\ SweepInv'
<1> USE DEF OutcomeInv, FramesInv
<1>0. index > 0 /\ index <= Len(pending) /\ index \in Nat /\ index \in DOMAIN pending
  BY TypeFacts DEF SweepRetry, Sweeping
<1>1. PICK s \in Ids : s = pending[index].seq
  BY <1>0, TypeFacts
<1>2. /\ DOMAIN pending' = DOMAIN pending
      /\ \A j \in DOMAIN pending :
           /\ pending'[j].seq = pending[j].seq
           /\ pending'[j].retries = IF j = index THEN pending[j].retries + 1
                                    ELSE pending[j].retries
      /\ \A r \in Ids : Outstanding(r)' <=> Outstanding(r)
      /\ \A r \in Ids : DueAt(r) # {} => DueAt(r)' # {}
      /\ \A r \in Ids : DueAt(r)' # {} => DueAt(r) # {} \/ r = s
      /\ DueAt(s) = {} /\ Len(due) < PENDING /\ Unencodable = {} => DueAt(s)' # {}
  BY <1>1, RetryFacts
<1>3. count' = count /\ sends' = sends /\ told' = told /\ index' = index + 1
  BY DEF SweepRetry, history
<1>4. \A j \in DOMAIN pending : pending[j].seq \in Ids /\ (pending[j].seq = s => j = index)
  BY <1>0, <1>1, TypeFacts DEF FrameInv, Numbered
<1>5. \A j \in DOMAIN pending : DueAt(pending[j].seq)' = {} <=>
        \A k \in DOMAIN due' : due'[k] # pending[j].seq
  BY <1>2 DEF DueAt
<1>6. \A r \in Ids : DueAt(r)' = {} <=> \A k \in DOMAIN due' : due'[k] # r
  BY DEF DueAt
<1>7. Prompt => DueAt(s) = {}
  BY <1>0, <1>1 DEF SweepInv
<1>8. ToldInv'
  BY <1>2, <1>3 DEF ToldInv
<1>9. SweepInv'
  <2>1. ASSUME Prompt, NEW j \in DOMAIN pending', j >= index'
        PROVE  DueAt(pending[j].seq)' = {}
    <3>1. j # index /\ j >= index /\ j \in DOMAIN pending
      BY <1>0, <1>2, <1>3, <2>1, TypeFacts
    <3>2. PICK r \in Ids : r = pending[j].seq
      BY <1>4, <3>1
    <3>3. r # s /\ DueAt(r) = {}
      BY <1>0, <1>4, <2>1, <3>1, <3>2 DEF SweepInv
    <3>4. DueAt(r)' = {}
      BY <1>2, <3>3
    <3> QED BY <1>5, <1>6, <3>1, <3>2, <3>4
  <2> QED BY <2>1 DEF SweepInv
<1>10. ASSUME NEW j \in DOMAIN pending'
       PROVE  LET r == pending'[j].seq
                  c == IF DueAt(pending[j].seq)' = {} THEN 0 ELSE 1
              IN /\ sends'[r] + c <= 1 + pending'[j].retries
                 /\ Exactly => sends'[r] + c = 1 + pending'[j].retries
  <2>1. PICK r \in Ids : r = pending[j].seq /\ j \in DOMAIN pending
    BY <1>2, <1>4
  <2>2. DueAt(pending[j].seq)' = {} <=> DueAt(r)' = {}
    BY <1>5, <1>6, <2>1
  <2>3. /\ sends[r] + DueCount(r) <= 1 + pending[j].retries
        /\ Exactly => sends[r] + DueCount(r) = 1 + pending[j].retries
    BY <2>1 DEF SendsInv
  <2>4. sends[r] \in Nat /\ pending[j].retries \in Nat
    BY <2>1, CountFacts
  <2>5. CASE j = index
    <3>1. r = s /\ pending'[j].retries = pending[j].retries + 1
      BY <1>1, <1>2, <2>1, <2>5
    <3>2. Exactly => DueAt(r) = {} /\ DueAt(r)' # {}
      <4>1. DueAt(pending[index].seq) = {} => Len(due) < PENDING
        BY <1>0, DueRoom
      <4> QED BY <1>1, <1>2, <1>7, <3>1, <4>1 DEF Exactly
    <3>3. pending'[j].seq = r /\ sends'[r] = sends[r]
      BY <1>2, <1>3, <2>1
    <3> DEFINE c == IF DueAt(pending[j].seq)' = {} THEN 0 ELSE 1
    <3>4. c \in {0, 1} /\ DueCount(r) \in {0, 1} /\ (Exactly => c = 1 /\ DueCount(r) = 0)
      BY <2>2, <3>2 DEF DueCount
    <3> HIDE DEF c
    <3>5. /\ sends[r] + c <= 1 + pending'[j].retries
          /\ Exactly => sends[r] + c = 1 + pending'[j].retries
      BY <2>3, <2>4, <3>1, <3>4
    <3> QED BY <3>3, <3>5 DEF c
  <2>6. CASE j # index
    <3>1. r # s /\ pending'[j].retries = pending[j].retries
      BY <1>2, <1>4, <2>1, <2>6
    <3>2. DueAt(r)' = {} <=> DueAt(r) = {}
      BY <1>2, <3>1
    <3> QED BY <1>2, <1>3, <2>1, <2>2, <2>3, <3>1, <3>2 DEF DueCount
  <2> QED BY <2>5, <2>6
<1>11. SendsInv'
  <2>1. \A r \in Ids : r >= count' => sends'[r] = 0
    BY <1>3 DEF SendsInv
  <2> QED BY <1>10, <2>1 DEF SendsInv, DueCount
<1> QED BY <1>8, <1>9, <1>11

\* A re-send moves one from the queue to the wire.
LEMMA ResendKeeps ==
  ASSUME OutcomeInv, Retransmit
  PROVE  SendsInv' /\ ToldInv' /\ SweepInv'
<1> USE DEF OutcomeInv, FramesInv
<1>0. 1 \in DOMAIN due
  BY TypeFacts DEF Retransmit
<1>1. PICK s \in Ids : s = due[1]
  BY <1>0, TypeFacts
<1>2. /\ Outstanding(s) /\ DueAt(s) # {}
      /\ sends' = [sends EXCEPT ![s] = @ + 1]
      /\ \A r \in Ids : DueAt(r)' = {} <=> DueAt(r) = {} \/ r = s
  BY <1>1, ResendFacts
<1>3. pending' = pending /\ count' = count /\ told' = told /\ index' = 0
  BY DEF Retransmit, registryVars
<1>4. SweepInv'
  BY <1>3 DEF SweepInv
<1>5. ToldInv'
  BY <1>3 DEF ToldInv, Outstanding
<1>6. s < count /\ s \in Nat /\ count \in Nat
  BY <1>2, CountFacts DEF Outstanding, FrameInv, Numbered
<1>7. \A r \in Ids : r >= count' => sends'[r] = 0
  BY <1>2, <1>3, <1>6, CountFacts DEF SendsInv, TypeOK
<1>8. ASSUME NEW j \in DOMAIN pending'
      PROVE  LET r == pending'[j].seq
                 c == IF DueAt(pending[j].seq)' = {} THEN 0 ELSE 1
             IN /\ sends'[r] + c <= 1 + pending'[j].retries
                /\ Exactly => sends'[r] + c = 1 + pending'[j].retries
  <2>1. PICK r \in Ids : r = pending[j].seq /\ j \in DOMAIN pending
    BY <1>3, CountFacts
  <2> DEFINE c == IF DueAt(pending[j].seq)' = {} THEN 0 ELSE 1
  <2>2. DueAt(pending[j].seq)' = DueAt(r)'
    BY <1>3, <2>1 DEF DueAt
  <2>3. /\ sends[r] + DueCount(r) <= 1 + pending[j].retries
        /\ Exactly => sends[r] + DueCount(r) = 1 + pending[j].retries
    BY <2>1 DEF SendsInv
  <2>4. sends[r] \in Nat /\ pending[j].retries \in Nat
    BY <2>1, CountFacts
  <2>5. sends'[r] + c = sends[r] + DueCount(r)
    <3>1. CASE r = s
      <4>1. c = 0 /\ DueCount(r) = 1 /\ sends'[r] = sends[r] + 1
        BY <1>2, <2>2, <3>1 DEF DueCount, TypeOK
      <4> QED BY <2>4, <4>1
    <3>2. CASE r # s
      <4>1. c = DueCount(r) /\ sends'[r] = sends[r]
        BY <1>2, <2>2, <3>2 DEF DueCount, TypeOK
      <4> QED BY <4>1
    <3> QED BY <3>1, <3>2
  <2> HIDE DEF c
  <2>6. /\ sends'[r] + c <= 1 + pending'[j].retries
        /\ Exactly => sends'[r] + c = 1 + pending'[j].retries
    BY <1>3, <2>3, <2>5
  <2> QED BY <1>3, <2>1, <2>6 DEF c
<1>9. SendsInv'
  BY <1>7, <1>8 DEF SendsInv, DueCount
<1> QED BY <1>4, <1>5, <1>9

\* The inductive invariant holds of a node that starts.
LEMMA OutcomeInit == Init => OutcomeInv
<1> SUFFICES ASSUME Init PROVE OutcomeInv
  OBVIOUS
<1>1. FramesInv
  BY FramesInit
<1>2. /\ pending = <<>> /\ index = 0 /\ sends = [i \in Ids |-> 0]
      /\ told = [i \in Ids |-> <<>>] /\ DOMAIN pending = {}
  BY DEF Init
<1>3. SendsInv
  BY <1>2 DEF SendsInv
<1>4. SweepInv /\ ToldInv
  BY <1>2 DEF SweepInv, ToldInv
<1> QED BY <1>1, <1>3, <1>4 DEF OutcomeInv

\* Every step preserves it.
LEMMA OutcomeStep == OutcomeInv /\ [Next]_vars => OutcomeInv'
<1> SUFFICES ASSUME OutcomeInv, [Next]_vars PROVE OutcomeInv'
  OBVIOUS
<1>f. TypeOK /\ FrameInv /\ SendsInv /\ SweepInv /\ ToldInv
  BY DEF OutcomeInv, FramesInv
<1>0. FramesInv'
  BY FramesStep DEF OutcomeInv
<1> SUFFICES SendsInv' /\ SweepInv' /\ ToldInv'
  BY <1>0 DEF OutcomeInv
<1>1. CASE \E r \in Registrations : Register(r) \/ Unregister(r.type)
  <2>1. UNCHANGED <<pending, count, due, sends, told, index>>
    BY <1>1 DEF Register, Unregister, heldVars, history
  <2>2. SweepInv'
    BY <1>f, <2>1 DEF SweepInv, DueAt
  <2> QED BY <1>f, <2>1, <2>2, OutcomeSame
<1>2. CASE \E t \in MessageType : SendRequest(t)
  BY <1>2, SendKeeps
<1>3. ASSUME NEW t \in MessageType, NEW s \in Ids, ReceiveReply(t, s)
      PROVE  SendsInv' /\ SweepInv' /\ ToldInv'
  <2>1. PICK i \in DOMAIN pending : Ends(s, i, "Reply")
    BY <1>3, <1>f, ReplyEnds
  <2>2. index <= i
    BY <1>3, <1>f, <2>1, TypeFacts DEF ReceiveReply, Callable
  <2> QED BY <2>1, <2>2, EndKeeps
<1>4. CASE BeginSweep
  <2>1. UNCHANGED <<pending, count, due, sends, told>> /\ Callable
    BY <1>4 DEF BeginSweep, heldVars, history
  <2>2. SweepInv'
    BY <2>1 DEF SweepInv, DueAt, Callable
  <2> QED BY <1>f, <2>1, <2>2, OutcomeSame
<1>5. CASE SweepUnexpired
  <2>1. UNCHANGED <<pending, count, due, sends, told>> /\ index' = index + 1 /\ index > 0
    BY <1>5 DEF SweepUnexpired, Sweeping, registryVars, heldVars, history
  <2>2. index \in Nat /\ DOMAIN pending \subseteq Nat
    BY <1>f, TypeFacts
  <2>3. SweepInv'
    BY <1>f, <2>1, <2>2 DEF SweepInv, DueAt
  <2> QED BY <1>f, <2>1, <2>3, OutcomeSame
<1>6. CASE SweepRetry
  BY <1>6, RetryKeeps
<1>7. CASE SweepTimedOut
  <2>1. index \in DOMAIN pending
    <3>1. index > 0 /\ index <= Len(pending) /\ index \in Nat
      BY <1>7, <1>f DEF SweepTimedOut, Sweeping, TypeOK
    <3> QED BY <1>f, <3>1, TypeFacts
  <2>2. PICK s \in Ids : s = pending[index].seq
    BY <1>f, <2>1, TypeFacts
  <2>3. Ends(s, index, "Timeout")
    BY <1>7, <1>f, <2>2, TimeoutEnds
  <2>4. PICK i \in DOMAIN pending : i = index
    BY <2>1
  <2>5. index <= i
    BY <1>f, <2>4 DEF TypeOK
  <2> QED BY <2>3, <2>4, <2>5, EndKeeps
<1>8. CASE EndSweep
  <2>1. UNCHANGED <<pending, count, due, sends, told>> /\ index' = 0
    BY <1>8 DEF EndSweep, registryVars, heldVars, history
  <2>2. SweepInv'
    BY <2>1 DEF SweepInv
  <2> QED BY <1>f, <2>1, <2>2, OutcomeSame
<1>9. CASE Retransmit
  BY <1>9, ResendKeeps
<1>10. CASE Tick \/ UNCHANGED vars
  <2>1. UNCHANGED <<pending, count, due, sends, told, index>>
    BY <1>10 DEF Tick, vars, registryVars, heldVars, history
  <2>2. SweepInv'
    BY <1>f, <2>1 DEF SweepInv, DueAt
  <2> QED BY <1>f, <2>1, <2>2, OutcomeSame
<1> QED BY <1>1, <1>2, <1>3, <1>4, <1>5, <1>6, <1>7, <1>8, <1>9, <1>10 DEF Next, Sweep

------------------------------------------------------------------------------
(* The refinement. *)

\* What Exchange sees of each request.
Status == [s \in Ids |-> StatusOf(s)]

\* A step that changes what is seen of one request at most, s.
LEMMA StatusMoves ==
  ASSUME NEW s \in Ids, NEW new, StatusOf(s)' = new,
         \A r \in Ids : r # s => StatusOf(r)' = StatusOf(r)
  PROVE  Status' = [Status EXCEPT ![s] = new]
BY DEF Status

\* What is not told, sent, opened or ended is not seen.
LEMMA StatusStays ==
  ASSUME \A r \in Ids : Outstanding(r)' <=> Outstanding(r), UNCHANGED <<count, told>>
  PROVE  Status' = Status
<1>1. \A r \in Ids : StatusOf(r)' = StatusOf(r)
  BY DEF StatusOf
<1> QED BY <1>1 DEF Status

\* The node starts as Exchange does.
LEMMA RefineInit == Init => Promised!Init
<1> SUFFICES ASSUME Init PROVE Promised!Init
  OBVIOUS
<1>1. count = 0 /\ sends = [i \in Ids |-> 0] /\ Ids \subseteq Nat
  BY PacketsAssumption DEF Init, Ids
<1>2. \A s \in Ids : StatusOf(s) = "new"
  BY <1>1 DEF StatusOf
<1> QED BY <1>1, <1>2 DEF Promised!Init

\* Sending a request opens it, tracked or not.
LEMMA SendRefines ==
  ASSUME OutcomeInv, NEW t \in MessageType, SendRequest(t)
  PROVE  Promised!Next
<1>f. TypeOK /\ FrameInv /\ ToldInv
  BY DEF OutcomeInv, FramesInv
<1>1. /\ count \in Ids /\ count' = count + 1
      /\ \A r \in Ids : Outstanding(r)' <=> Outstanding(r) \/ (HasRoom /\ r = count)
  BY <1>f, SendFacts
<1>2. PICK n \in {0, 1} : /\ sends' = [sends EXCEPT ![count] = n]
                          /\ Unencodable = {} => n = 1
  BY <1>f, SendFacts
<1>3. told' = told
  BY DEF SendRequest
<1>4. PICK c \in Ids : c = count
  BY <1>1
<1>5. Ids \subseteq Nat
  BY <1>f, CountFacts
<1>6. StatusOf(c) = "new" /\ told[c] = <<>> /\ ~Outstanding(c)
  <2>1. \A j \in DOMAIN pending : pending[j].seq # c
    BY <1>4, <1>5, <1>f, CountFacts DEF FrameInv, Numbered
  <2> QED BY <1>4, <1>5, <1>f, <2>1 DEF StatusOf, ToldInv, Outstanding
<1>7. StatusOf(c)' = IF HasRoom THEN "open" ELSE "untracked"
  <2>1. ~(c >= count')
    BY <1>1, <1>4, <1>5
  <2>2. Outstanding(c)' <=> HasRoom
    BY <1>1, <1>4, <1>6
  <2>3. told'[c] # <<"Reply">> /\ told'[c] # <<"Timeout">>
    BY <1>3, <1>6
  <2> QED BY <2>1, <2>2, <2>3 DEF StatusOf
<1>8. \A r \in Ids : r # c => StatusOf(r)' = StatusOf(r)
  <2>1. ASSUME NEW r \in Ids, r # c PROVE StatusOf(r)' = StatusOf(r)
    <3>1. r >= count' <=> r >= count
      BY <1>1, <1>4, <1>5, <2>1
    <3>2. Outstanding(r)' <=> Outstanding(r)
      BY <1>1, <1>4, <2>1
    <3> QED BY <1>3, <3>1, <3>2 DEF StatusOf
  <2> QED BY <2>1
<1> DEFINE to == IF HasRoom THEN "open" ELSE "untracked"
<1>9. Status' = [Status EXCEPT ![c] = to] /\ Status[c] = "new"
  BY <1>6, <1>7, <1>8, StatusMoves DEF Status
<1>10. sends' = [sends EXCEPT ![c] = 1] \/ (~Exactly /\ sends' = sends)
  <2>1. sends \in [Ids -> Nat] /\ sends[c] = 0
    BY <1>4, <1>5 DEF OutcomeInv, FramesInv, SendsInv, TypeOK
  <2>2. CASE n = 1
    BY <1>2, <1>4, <2>2
  <2>3. CASE n = 0
    BY <1>2, <1>4, <2>1, <2>3 DEF Exactly
  <2> QED BY <2>2, <2>3
<1>11. Promised!Open(c)
  BY <1>9, <1>10 DEF Promised!Open, Promised!Move, Status, Exactly
<1> QED BY <1>11 DEF Promised!Next

\* The end of a request answers it or gives it up.
LEMMA EndMoves ==
  ASSUME OutcomeInv, NEW s \in Ids, NEW i, NEW out \in {"Reply", "Timeout"}, Ends(s, i, out)
  PROVE  /\ Status[s] = "open" /\ sends' = sends
         /\ Status' = [Status EXCEPT ![s] = IF out = "Reply" THEN "answered" ELSE "timedout"]
<1>f. TypeOK /\ FrameInv /\ ToldInv
  BY DEF OutcomeInv, FramesInv
<1>1. \A r \in Ids : Outstanding(r)' <=> Outstanding(r) /\ r # s
  BY <1>f, DropFacts DEF Ends
<1>2. /\ count' = count /\ sends' = sends /\ told' = [told EXCEPT ![s] = Append(@, out)]
      /\ Outstanding(s)
  BY DEF Ends, Outstanding
<1>3. ~(s >= count)
  BY <1>2, <1>f, CountFacts DEF Outstanding, FrameInv, Numbered
<1>4. StatusOf(s) = "open"
  BY <1>2, <1>3 DEF StatusOf
<1>5. told'[s] = <<out>>
  <2>1. told[s] = <<>> /\ told'[s] = Append(told[s], out)
    BY <1>2, <1>f DEF ToldInv, TypeOK
  <2> QED BY <2>1
<1>6. StatusOf(s)' = IF out = "Reply" THEN "answered" ELSE "timedout"
  <2>1. told'[s] = <<"Reply">> <=> out = "Reply"
    BY <1>5
  <2>2. told'[s] = <<"Timeout">> <=> out = "Timeout"
    BY <1>5
  <2> QED BY <1>1, <1>2, <1>3, <2>1, <2>2 DEF StatusOf
<1>7. \A r \in Ids : r # s => StatusOf(r)' = StatusOf(r)
  <2>1. \A r \in Ids : r # s => told'[r] = told[r]
    BY <1>2, <1>f DEF TypeOK
  <2> QED BY <1>1, <1>2, <2>1 DEF StatusOf
<1> QED BY <1>2, <1>4, <1>6, <1>7, StatusMoves DEF Status

\* Every step of the node is a step of Exchange, or leaves what it sees alone.
LEMMA RefineStep == OutcomeInv /\ [Next]_vars => [Promised!Next]_(Promised!vars)
<1> SUFFICES ASSUME OutcomeInv, [Next]_vars
             PROVE  Promised!Next \/ (Status' = Status /\ sends' = sends)
  BY DEF Promised!vars, Status
<1>f. TypeOK /\ FrameInv /\ SendsInv /\ SweepInv /\ ToldInv
  BY DEF OutcomeInv, FramesInv
<1>1. CASE UNCHANGED <<pending, count, told, sends>>
  BY <1>1, StatusStays DEF Outstanding
<1>2. CASE \E t \in MessageType : SendRequest(t)
  BY <1>2, SendRefines
<1>3. ASSUME NEW t \in MessageType, NEW s \in Ids, ReceiveReply(t, s)
      PROVE  Promised!Next
  <2>1. PICK i \in DOMAIN pending : Ends(s, i, "Reply")
    BY <1>3, <1>f, ReplyEnds
  <2>2. Promised!Answer(s)
    BY <2>1, EndMoves DEF Promised!Answer, Promised!Move, Status
  <2> QED BY <2>2 DEF Promised!Next
<1>4. CASE SweepRetry
  <2>1. index \in DOMAIN pending
    <3>1. index > 0 /\ index <= Len(pending) /\ index \in Nat
      BY <1>4, <1>f DEF SweepRetry, Sweeping, TypeOK
    <3> QED BY <1>f, <3>1, TypeFacts
  <2>2. PICK s \in Ids : s = pending[index].seq
    BY <1>f, <2>1, TypeFacts
  <2>3. \A r \in Ids : Outstanding(r)' <=> Outstanding(r)
    BY <1>4, <1>f, <2>2, RetryFacts
  <2>4. UNCHANGED <<count, told, sends>>
    BY <1>4 DEF SweepRetry, history
  <2> QED BY <2>3, <2>4, StatusStays
<1>5. CASE SweepTimedOut
  <2>1. index > 0 /\ index <= Len(pending) /\ index \in Nat
    BY <1>5, <1>f DEF SweepTimedOut, Sweeping, TypeOK
  <2>2. PICK i \in DOMAIN pending : i = index
    BY <1>f, <2>1, TypeFacts
  <2>3. PICK s \in Ids : s = pending[i].seq
    BY <1>f, TypeFacts
  <2>4. Ends(s, i, "Timeout")
    BY <1>5, <1>f, <2>2, <2>3, TimeoutEnds
  <2>5. Exactly => sends[s] = 1 + RETRIES
    <3>1. pending[i].retries = RETRIES
      BY <1>5, <1>f, <2>2, CountFacts DEF SweepTimedOut, RetriesLeft
    <3>2. Exactly => DueCount(s) = 0
      BY <1>f, <2>1, <2>2, <2>3 DEF SweepInv, DueCount, Exactly
    <3>3. Exactly => sends[s] + DueCount(s) = 1 + pending[i].retries
      BY <1>f, <2>3 DEF SendsInv
    <3> QED BY <1>f, <3>1, <3>2, <3>3, CountFacts
  <2>6. Promised!GiveUp(s)
    BY <2>4, <2>5, EndMoves DEF Promised!GiveUp, Promised!Move, Status, Exactly
  <2> QED BY <2>6 DEF Promised!Next
<1>6. CASE Retransmit
  <2>1. 1 \in DOMAIN due
    BY <1>6, <1>f, TypeFacts DEF Retransmit
  <2>2. PICK s \in Ids : s = due[1]
    BY <1>f, <2>1, TypeFacts
  <2>3. /\ Outstanding(s) /\ DueAt(s) # {}
        /\ sends' = [sends EXCEPT ![s] = @ + 1]
    BY <1>6, <1>f, <2>2, ResendFacts
  <2>4. Status' = Status
    BY <1>6, StatusStays DEF Retransmit, registryVars, Outstanding
  <2>5. PICK j \in DOMAIN pending : pending[j].seq = s
    BY <2>3 DEF Outstanding
  <2>6. sends[s] < 1 + RETRIES
    <3>1. DueCount(s) = 1 /\ sends[s] + DueCount(s) <= 1 + pending[j].retries
      BY <1>f, <2>3, <2>5 DEF SendsInv, DueCount
    <3> QED BY <1>f, <3>1, CountFacts
  <2>7. StatusOf(s) = "open"
    BY <1>f, <2>3, <2>5, CountFacts DEF StatusOf, FrameInv, Numbered
  <2>8. Promised!Resend(s)
    BY <2>3, <2>4, <2>6, <2>7 DEF Promised!Resend, Status
  <2> QED BY <2>8 DEF Promised!Next
<1>7. CASE Tick \/ UNCHANGED vars \/ BeginSweep \/ SweepUnexpired \/ EndSweep
          \/ \E r \in Registrations : Register(r) \/ Unregister(r.type)
  BY <1>1, <1>7 DEF Tick, vars, BeginSweep, SweepUnexpired, EndSweep, Register, Unregister,
     registryVars, heldVars, history
<1> QED BY <1>2, <1>3, <1>4, <1>5, <1>6, <1>7 DEF Next, Sweep

\* Packets implements Exchange: whatever the order of sends, replies, sweeps, late
\* ticks, re-sends and registrations, each request is re-sent only while it is open,
\* has one outcome at most, and under Node::run_app is given up on only after all its
\* sends.
THEOREM Refines == Spec => OneOutcomeEach
<1> QED BY OutcomeInit, OutcomeStep, RefineInit, RefineStep, PTL
       DEF Spec, OneOutcomeEach, Promised!Spec

------------------------------------------------------------------------------
(* The sweep and the times of requests.                                    *)
(*                                                                         *)
(* The sweep was due d milliseconds ago, or is due in -d: both the clock,  *)
(* which wraps, and the phase of the grid say so.  A request was last sent *)
(* e milliseconds ago, and the sweeps that saw it leave room for one more  *)
(* before the next; its age is what its retries and e add up to.           *)

Slack == TIMEOUT + PERIOD - 1 + Late
OnGrid(d) == now = (next_sweep + d) % ClockWrap /\ (phase - d) % PERIOD = 0
\* The sweep, if one runs, has been past the i-th request.
Seen(i) == index = 0 \/ i < index
SentAgo(i, e, d) ==
  /\ now = (pending[i].timestamp + e) % ClockWrap
  /\ e <= Slack
  /\ Seen(i) => e - d <= TIMEOUT - 1 + PERIOD
  /\ pending[i].retries * TIMEOUT + e <= age[pending[i].seq]
  /\ age[pending[i].seq] <= pending[i].retries * Slack + e
TimedBy(d) == OnGrid(d) /\ \A i \in DOMAIN pending : \E e \in Nat : SentAgo(i, e, d)
AgeInv == \A s \in Ids : Outstanding(s) \/ age[s] = 0
TimingInv == AgeInv /\ \E d \in -PERIOD..Late : TimedBy(d)

\* The bounds, as numbers.
LEMMA BoundFacts ==
  /\ RETRIES \in Nat /\ TIMEOUT \in Nat /\ TIMEOUT >= 1 /\ PERIOD \in Nat \ {0} /\ Late \in Nat
  /\ Slack \in Nat /\ Slack = TIMEOUT - 1 + PERIOD + Late /\ Slack < ClockWrap
  /\ TIMEOUT <= Slack /\ 2 * PERIOD <= ClockWrap /\ 2 * Late < ClockWrap
  /\ ClockWrap \in Nat \ {0}
BY PacketsAssumption, ClockAssumption DEF Slack

\* What on_tick reads of the clock.
LEMMA DueFacts ==
  ASSUME next_sweep \in Clock, NEW d \in -PERIOD..Late, OnGrid(d)
  PROVE  /\ SweepDue <=> d >= 0
         /\ d >= 0 => SinceDue = d
         /\ d < 0 => (next_sweep - now) % ClockWrap = -d
<1>b. /\ PERIOD \in Nat \ {0} /\ Late \in Nat /\ 2 * PERIOD <= ClockWrap /\ 2 * Late < ClockWrap
      /\ ClockWrap \in Nat \ {0} /\ d \in Int /\ next_sweep \in Int
  BY BoundFacts DEF Clock
<1>1. now = (next_sweep + d) % ClockWrap
  BY DEF OnGrid
<1>2. CASE d >= 0
  <2>1. d \in Clock
    BY <1>b, <1>2 DEF Clock
  <2>2. (((next_sweep + d) % ClockWrap) - next_sweep) % ClockWrap = d
    BY <2>1, ClockSteps
  <2>3. SinceDue = d
    BY <1>1, <2>2 DEF SinceDue
  <2> QED BY <1>b, <1>2, <2>3 DEF SweepDue
<1>3. CASE d < 0
  <2> DEFINE x == d + ClockWrap
             s == next_sweep + d
             one == 1
  <2>1. x \in Clock /\ x \in Int /\ s \in Int /\ one \in Int
    BY <1>b, <1>3 DEF Clock
  <2>2. next_sweep + x = s + ClockWrap * one
    BY <1>b
  <2> HIDE DEF x, s, one
  <2>3. (s + ClockWrap * one) % ClockWrap = s % ClockWrap
    BY <1>b, <2>1, ModWhole
  <2>4. now = (next_sweep + x) % ClockWrap
    BY <1>1, <2>2, <2>3 DEF s
  <2>5. (((next_sweep + x) % ClockWrap) - next_sweep) % ClockWrap = x
    BY <2>1, ClockSteps
  <2>6. SinceDue = d + ClockWrap
    BY <2>4, <2>5 DEF SinceDue, x
  <2>7. (next_sweep - now) % ClockWrap = (next_sweep - s) % ClockWrap
    <3>1. (next_sweep - (s % ClockWrap)) % ClockWrap = (next_sweep - s) % ClockWrap
      BY <1>b, <2>1, ModSub
    <3> QED BY <1>1, <3>1 DEF s
  <2>8. next_sweep - s = -d
    BY <1>b DEF s
  <2>9. (next_sweep - now) % ClockWrap = -d
    BY <1>b, <1>3, <2>7, <2>8
  <2> QED BY <1>b, <1>3, <2>6, <2>9 DEF SweepDue
<1> QED BY <1>b, <1>2, <1>3

\* What sweep reads of a request's timestamp.
LEMMA SentFacts ==
  ASSUME TypeOK, NEW i \in DOMAIN pending, NEW e \in Nat, NEW d, SentAgo(i, e, d)
  PROVE  SinceSent(pending[i]) = e /\ (Expired(pending[i]) <=> e >= TIMEOUT)
<1>1. e \in Clock
  BY BoundFacts DEF SentAgo, Clock
<1>2. pending[i] \in Request
  BY TypeFacts
<1>3. pending[i].timestamp \in Clock
  BY <1>2 DEF Request
<1>t. PICK t \in Clock : t = pending[i].timestamp
  BY <1>3
<1>4. (((t + e) % ClockWrap) - t) % ClockWrap = e
  BY <1>1, ClockSteps
<1>5. now = (t + e) % ClockWrap
  BY <1>t DEF SentAgo
<1>6. SinceSent(pending[i]) = e
  BY <1>t, <1>4, <1>5 DEF SinceSent
<1> QED BY <1>6 DEF Expired

\* NextSweep moves the time of the sweep past now, by whole periods.
LEMMA SweepMoves ==
  ASSUME next_sweep \in Clock, phase \in Int, NEW d \in 0..Late, OnGrid(d), SinceDue = d,
         next_sweep' = NextSweep, UNCHANGED <<now, phase>>
  PROVE  \E f \in -PERIOD..-1 : OnGrid(f)'
<1>b. /\ PERIOD \in Nat \ {0} /\ ClockWrap \in Nat \ {0} /\ d \in Int /\ next_sweep \in Int
  BY BoundFacts DEF Clock
<1> DEFINE q == d \div PERIOD
           f == (d % PERIOD) - PERIOD
           k == PERIOD * (q + 1)
<1>1. q \in Int /\ d % PERIOD \in 0..PERIOD - 1 /\ d = PERIOD * q + (d % PERIOD)
  BY <1>b, DivMod
<1>2. f \in -PERIOD..-1 /\ k \in Int /\ f = d - k
  BY <1>b, <1>1
<1>3. NextSweep = (next_sweep + k) % ClockWrap
  BY DEF NextSweep
<1>f. f \in Int
  BY <1>b, <1>2
<1>k. phase - f = (phase - d) + PERIOD * (q + 1)
  BY <1>b, <1>1, <1>2
<1> HIDE DEF f, k
<1>4. (next_sweep' + f) % ClockWrap = now
  <2> DEFINE x == next_sweep + k
  <2>1. x \in Int /\ x + f = next_sweep + d
    BY <1>b, <1>2, <1>f
  <2> HIDE DEF x
  <2>2. ((x % ClockWrap) + f) % ClockWrap = (x + f) % ClockWrap
    BY <1>b, <1>f, <2>1, ModAdd
  <2> QED BY <1>3, <2>1, <2>2 DEF OnGrid, x
<1>5. (phase - f) % PERIOD = 0
  <2> DEFINE x == phase - d
             y == q + 1
  <2>1. x \in Int /\ y \in Int
    BY <1>b, <1>1
  <2> HIDE DEF x, y, q
  <2>2. (x + PERIOD * y) % PERIOD = x % PERIOD
    BY <1>b, <2>1, ModWhole
  <2> QED BY <1>k, <2>2 DEF x, y, OnGrid
<1>6. OnGrid(f)'
  BY <1>4, <1>5 DEF OnGrid
<1> QED BY <1>2, <1>6

\* A millisecond later.
LEMMA GridMoves ==
  ASSUME next_sweep \in Clock, phase \in Int, NEW d \in Int, OnGrid(d),
         now' = (now + 1) % ClockWrap, phase' = (phase + 1) % PERIOD, UNCHANGED next_sweep
  PROVE  OnGrid(d + 1)'
<1>b. PERIOD \in Nat \ {0}
  BY BoundFacts
<1>1. (((next_sweep + d) % ClockWrap) + 1) % ClockWrap = (next_sweep + (d + 1)) % ClockWrap
  BY ClockSteps
<1> DEFINE x == phase + 1
           y == -(d + 1)
<1>2. x \in Int /\ y \in Int /\ x + y = phase - d
  OBVIOUS
<1>3. (x % PERIOD) \in Int
  BY <1>b, <1>2, DivMod
<1>4. (x % PERIOD) + y = (x % PERIOD) - (d + 1)
  BY <1>3
<1> HIDE DEF x, y
<1>5. ((x % PERIOD) + y) % PERIOD = (x + y) % PERIOD
  BY <1>b, <1>2, ModAdd
<1>6. (phase' - (d + 1)) % PERIOD = 0
  BY <1>2, <1>4, <1>5 DEF x, OnGrid
<1> QED BY <1>1, <1>6 DEF OnGrid

\* The fields of an outstanding request.
LEMMA RequestFacts ==
  ASSUME TypeOK, NEW i \in DOMAIN pending
  PROVE  /\ pending[i].timestamp \in Clock /\ pending[i].seq \in Ids
         /\ pending[i].retries \in Nat /\ pending[i].retries <= RETRIES
         /\ pending[i].retries * TIMEOUT \in Nat /\ pending[i].retries * Slack \in Nat
         /\ age[pending[i].seq] \in Nat
<1>1. pending[i] \in Request
  BY TypeFacts
<1>2. /\ pending[i].timestamp \in Clock /\ pending[i].seq \in Ids
      /\ pending[i].retries \in 0..RETRIES
  BY <1>1 DEF Request
<1> DEFINE r == pending[i].retries
<1>3. r \in Nat /\ r <= RETRIES
  BY <1>2, BoundFacts
<1> HIDE DEF r
<1>4. r * TIMEOUT \in Nat /\ r * Slack \in Nat
  BY <1>3, BoundFacts
<1>5. age[pending[i].seq] \in Nat
  BY <1>2 DEF TypeOK
<1> QED BY <1>2, <1>3, <1>4, <1>5 DEF r

\* A step that leaves the requests, the sweep and the clock alone.
LEMMA TimingSame ==
  ASSUME TimingInv, UNCHANGED <<pending, next_sweep, now, index, age, phase>>
  PROVE  TimingInv'
BY DEF TimingInv, AgeInv, Outstanding, TimedBy, OnGrid, SentAgo, Seen

LEMMA SendTimed ==
  ASSUME FramesInv, TimingInv, NEW t \in MessageType, SendRequest(t)
  PROVE  TimingInv'
<1>1. /\ UNCHANGED <<next_sweep, now, index, age, phase>> /\ index = 0 /\ count \in Ids
      /\ HasRoom => pending' = Append(pending, [type |-> t, seq |-> count,
                                                timestamp |-> now, retries |-> 0])
      /\ ~HasRoom => pending' = pending
  BY SendFacts DEF SendRequest, Callable, FramesInv
<1>2. CASE ~HasRoom
  BY <1>1, <1>2, TimingSame
<1>3. CASE HasRoom
  <2>1. PICK d \in -PERIOD..Late : TimedBy(d)
    BY DEF TimingInv
  <2>t. /\ pending \in Seq(Request) /\ Len(pending) \in Nat /\ DOMAIN pending = 1..Len(pending)
        /\ now \in Clock
    BY TypeFacts DEF FramesInv, TypeOK
  <2> DEFINE r == [type |-> t, seq |-> count, timestamp |-> now, retries |-> 0]
  <2>2. pending' = Append(pending, r)
    BY <1>1, <1>3
  <2>3. r.seq = count /\ r.timestamp = now /\ r.retries = 0
    OBVIOUS
  <2>r. r \in Request
    BY <1>1, <2>t, BoundFacts DEF Request
  <2> HIDE DEF r
  <2>4. /\ DOMAIN pending' = 1..Len(pending) + 1
        /\ \A i \in DOMAIN pending : i \in DOMAIN pending' /\ pending'[i] = pending[i]
        /\ pending'[Len(pending) + 1] = r
    BY <2>t, <2>2, <2>r
  <2>5. age[count] = 0
    <3>1. ~Outstanding(count)
      BY <1>1, <2>t, TypeFacts DEF Outstanding, FramesInv, FrameInv, Numbered
    <3> QED BY <1>1, <3>1 DEF TimingInv, AgeInv
  <2>6. AgeInv'
    BY <1>1, <2>4 DEF AgeInv, TimingInv, Outstanding
  <2>7. ASSUME NEW i \in DOMAIN pending'
        PROVE  \E e \in Nat : SentAgo(i, e, d)'
    <3>1. CASE i \in DOMAIN pending
      <4>1. PICK e \in Nat : SentAgo(i, e, d)
        BY <2>1, <3>1 DEF TimedBy
      <4>2. SentAgo(i, e, d)'
        BY <1>1, <2>4, <3>1, <4>1 DEF SentAgo, Seen
      <4> QED BY <4>2
    <3>2. CASE i \notin DOMAIN pending
      <4>1. i = Len(pending) + 1
        BY <2>t, <2>4, <3>2
      <4>2. pending'[i].seq = count /\ pending'[i].timestamp = now /\ pending'[i].retries = 0
        BY <2>3, <2>4, <4>1
      <4>3. now = (now + 0) % ClockWrap
        BY <2>t, ClockSteps
      <4>4. 0 <= Slack /\ 0 - d <= TIMEOUT - 1 + PERIOD /\ 0 * TIMEOUT = 0 /\ 0 * Slack = 0
        BY BoundFacts
      <4>5. SentAgo(i, 0, d)'
        BY <1>1, <2>5, <4>2, <4>3, <4>4 DEF SentAgo
      <4> QED BY <4>5
    <3> QED BY <3>1, <3>2
  <2>8. OnGrid(d)'
    BY <1>1, <2>1 DEF TimedBy, OnGrid
  <2>9. TimedBy(d)'
    BY <2>7, <2>8 DEF TimedBy
  <2> QED BY <2>6, <2>9 DEF TimingInv
<1> QED BY <1>2, <1>3

\* A request is over; the sweep, if one runs, has yet to see those after it.
LEMMA EndsTimed ==
  ASSUME FramesInv, TimingInv, NEW s \in Ids, NEW k, NEW out, Ends(s, k, out),
         index = 0 \/ k = index
  PROVE  TimingInv'
<1>1. /\ k \in DOMAIN pending /\ pending[k].seq = s /\ pending' = Without(pending, k)
      /\ age' = [age EXCEPT ![s] = 0]
      /\ UNCHANGED <<next_sweep, now, index, phase>>
  BY DEF Ends
<1>2. /\ pending \in Seq(Request) /\ Len(pending) \in Nat /\ DOMAIN pending = 1..Len(pending)
      /\ index \in Nat /\ age \in [Ids -> Nat]
      /\ \A i \in DOMAIN pending : pending[i].seq \in Ids
      /\ \A i, j \in DOMAIN pending : pending[i].seq = pending[j].seq => i = j
  BY TypeFacts DEF FramesInv, TypeOK, FrameInv, Numbered
<1>3. Shortened(pending', pending, k, Request)
  BY <1>1, <1>2, WithoutFacts
<1>4. /\ \A j \in DOMAIN pending' : /\ Before(k, j) \in DOMAIN pending /\ Before(k, j) # k
                                    /\ pending'[j] = pending[Before(k, j)]
      /\ \A i \in DOMAIN pending : i # k => \E j \in DOMAIN pending' : Before(k, j) = i
      /\ DOMAIN pending' = 1..Len(pending) - 1
  BY <1>3 DEF Shortened
<1>5. \A x \in Ids : age'[x] = IF x = s THEN 0 ELSE age[x]
  BY <1>1, <1>2
<1>6. AgeInv'
  <2> SUFFICES ASSUME NEW x \in Ids, age'[x] # 0 PROVE Outstanding(x)'
    BY DEF AgeInv
  <2>1. x # s /\ Outstanding(x)
    BY <1>5 DEF TimingInv, AgeInv
  <2>2. PICK i \in DOMAIN pending : pending[i].seq = x
    BY <2>1 DEF Outstanding
  <2>3. PICK j \in DOMAIN pending' : Before(k, j) = i
    BY <1>1, <1>4, <2>1, <2>2
  <2>4. pending'[j].seq = x
    BY <1>4, <2>2, <2>3
  <2> QED BY <2>4 DEF Outstanding
<1>7. PICK d \in -PERIOD..Late : TimedBy(d)
  BY DEF TimingInv
<1>8. ASSUME NEW j \in DOMAIN pending'
      PROVE  \E e \in Nat : SentAgo(j, e, d)'
  <2> DEFINE i == Before(k, j)
  <2>1. i \in DOMAIN pending /\ i # k /\ pending'[j] = pending[i]
    BY <1>4
  <2>2. PICK e \in Nat : SentAgo(i, e, d)
    BY <1>7, <2>1 DEF TimedBy
  <2>3. Seen(j)' => Seen(i)
    BY <1>1, <1>2, <1>4 DEF Seen, Before
  <2>4. age'[pending'[j].seq] = age[pending[i].seq]
    BY <1>1, <1>2, <1>5, <2>1
  <2> HIDE DEF i
  <2>5. SentAgo(j, e, d)'
    BY <1>1, <2>1, <2>2, <2>3, <2>4 DEF SentAgo
  <2> QED BY <2>5
<1>9. OnGrid(d)'
  BY <1>1, <1>7 DEF TimedBy, OnGrid
<1>10. TimedBy(d)'
  BY <1>8, <1>9 DEF TimedBy
<1> QED BY <1>6, <1>10 DEF TimingInv

\* on_tick: the sweep is due, and no request was left longer than Slack.
LEMMA BeginTimed ==
  ASSUME FramesInv, TimingInv, BeginSweep
  PROVE  TimingInv'
<1>1. /\ index = 0 /\ SweepDue /\ next_sweep' = NextSweep /\ index' = 1
      /\ UNCHANGED <<pending, now, age, phase>>
  BY DEF BeginSweep, Callable, history
<1>2. next_sweep \in Clock /\ phase \in Int /\ DOMAIN pending = 1..Len(pending)
      /\ Len(pending) \in Nat
  BY TypeFacts, BoundFacts DEF FramesInv, TypeOK
<1>3. PICK d \in -PERIOD..Late : TimedBy(d)
  BY DEF TimingInv
<1>4. d \in 0..Late /\ SinceDue = d /\ OnGrid(d)
  BY <1>1, <1>2, <1>3, DueFacts, BoundFacts DEF TimedBy
<1>5. PICK f \in -PERIOD..-1 : OnGrid(f)'
  BY <1>1, <1>2, <1>4, SweepMoves
<1>6. ASSUME NEW i \in DOMAIN pending
      PROVE  \E e \in Nat : SentAgo(i, e, f)'
  <2>1. PICK e \in Nat : SentAgo(i, e, d)
    BY <1>3 DEF TimedBy
  <2>2. ~Seen(i)'
    BY <1>1, <1>2 DEF Seen
  <2>3. SentAgo(i, e, f)'
    BY <1>1, <2>1, <2>2 DEF SentAgo
  <2> QED BY <2>3
<1>7. TimedBy(f)'
  BY <1>1, <1>5, <1>6 DEF TimedBy
<1>8. AgeInv'
  BY <1>1 DEF TimingInv, AgeInv, Outstanding
<1>9. f \in -PERIOD..Late
  BY BoundFacts
<1> QED BY <1>7, <1>8, <1>9 DEF TimingInv

\* A request not yet expired has room until the sweep after this one.
LEMMA UnexpiredTimed ==
  ASSUME FramesInv, TimingInv, SweepUnexpired
  PROVE  TimingInv'
<1>1. /\ index > 0 /\ index <= Len(pending) /\ ~Expired(pending[index]) /\ index' = index + 1
      /\ UNCHANGED <<pending, next_sweep, now, age, phase>>
  BY DEF SweepUnexpired, Sweeping, registryVars, history
<1>2. DOMAIN pending = 1..Len(pending) /\ Len(pending) \in Nat /\ index \in Nat
  BY TypeFacts DEF FramesInv
<1>3. PICK d \in -PERIOD..Late : TimedBy(d)
  BY DEF TimingInv
<1>4. ASSUME NEW i \in DOMAIN pending
      PROVE  \E e \in Nat : SentAgo(i, e, d)'
  <2>1. PICK e \in Nat : SentAgo(i, e, d)
    BY <1>3 DEF TimedBy
  <2>2. Seen(i)' => Seen(i) \/ i = index
    BY <1>1, <1>2 DEF Seen
  <2>3. i = index => e < TIMEOUT
    BY <1>1, <2>1, SentFacts, BoundFacts DEF FramesInv
  <2>4. Seen(i)' => e - d <= TIMEOUT - 1 + PERIOD
    BY <2>1, <2>2, <2>3, BoundFacts DEF SentAgo
  <2>5. SentAgo(i, e, d)'
    BY <1>1, <2>1, <2>4 DEF SentAgo
  <2> QED BY <2>5
<1>5. TimedBy(d)'
  BY <1>1, <1>3, <1>4 DEF TimedBy, OnGrid
<1>6. AgeInv'
  BY <1>1 DEF TimingInv, AgeInv, Outstanding
<1> QED BY <1>5, <1>6 DEF TimingInv

\* One retry more pays for the time since the last send.
LEMMA OneMore ==
  ASSUME NEW r \in Nat, NEW n \in Nat
  PROVE  (r + 1) * n = r * n + n
OBVIOUS

\* With no retry too many, the age stays within one Slack for each send.
LEMMA LastAge ==
  ASSUME NEW r \in Nat, NEW n \in Nat, r <= n, NEW e \in Nat, NEW m \in Nat, e <= m,
         NEW a \in Nat, a <= r * m + e
  PROVE  a <= (n + 1) * m
<1>1. (n + 1) * m = n * m + m
  OBVIOUS
<1>2. r * m <= n * m
  <2>1. n - r \in Nat /\ n = r + (n - r)
    OBVIOUS
  <2>2. PICK k \in Nat : n = r + k
    BY <2>1
  <2>3. (r + k) * m = r * m + k * m /\ k * m \in Nat /\ r * m \in Nat
    OBVIOUS
  <2> QED BY <2>2, <2>3
<1> DEFINE low == r * m
           high == n * m
<1>3. low \in Nat /\ high \in Nat
  OBVIOUS
<1> HIDE DEF low, high
<1> QED BY <1>1, <1>2, <1>3 DEF low, high

LEMMA RetryTimed ==
  ASSUME FramesInv, TimingInv, SweepRetry
  PROVE  TimingInv'
<1>1. /\ index > 0 /\ index <= Len(pending) /\ Expired(pending[index])
      /\ pending' = [pending EXCEPT ![index].retries = @ + 1, ![index].timestamp = now]
      /\ index' = index + 1
      /\ UNCHANGED <<next_sweep, now, age, phase>>
  BY DEF SweepRetry, Sweeping, history
<1>2. /\ DOMAIN pending = 1..Len(pending) /\ Len(pending) \in Nat /\ index \in Nat
      /\ now \in Clock /\ \A i \in DOMAIN pending : pending[i] \in Request
  BY TypeFacts DEF FramesInv, TypeOK
<1>x. index \in DOMAIN pending
  BY <1>1, <1>2
<1>3. PICK d \in -PERIOD..Late : TimedBy(d)
  BY DEF TimingInv
<1>4. /\ DOMAIN pending' = DOMAIN pending
      /\ \A i \in DOMAIN pending : i # index => pending'[i] = pending[i]
      /\ \A i \in DOMAIN pending : pending'[i].seq = pending[i].seq
      /\ pending'[index].retries = pending[index].retries + 1
      /\ pending'[index].timestamp = now
  <2>1. pending[index] \in Request
    BY <1>2, <1>x
  <2>2. PICK r : r = pending[index] /\ r \in Request
    BY <2>1
  <2> QED BY <1>1, <1>2, <1>x, <2>1, <2>2 DEF Request
<1>5. ASSUME NEW i \in DOMAIN pending
      PROVE  \E e \in Nat : SentAgo(i, e, d)'
  <2>1. PICK e \in Nat : SentAgo(i, e, d)
    BY <1>3 DEF TimedBy
  <2>2. CASE i # index
    <3>1. Seen(i)' => Seen(i)
      BY <1>1, <1>2, <2>2 DEF Seen
    <3>2. SentAgo(i, e, d)'
      BY <1>1, <1>4, <2>1, <2>2, <3>1 DEF SentAgo
    <3> QED BY <3>2
  <2>3. CASE i = index
    <3>1. e >= TIMEOUT
      BY <1>1, <2>1, <2>3, SentFacts DEF FramesInv
    <3> DEFINE r == pending[i].retries
               a == age[pending[i].seq]
               old == r * TIMEOUT
               most == r * Slack
    <3>2. r \in Nat /\ a \in Nat /\ old \in Nat /\ most \in Nat
      BY RequestFacts DEF FramesInv
    <3>3. old + e <= a /\ a <= most + e /\ e <= Slack
      BY <2>1 DEF SentAgo
    <3>4. (r + 1) * TIMEOUT = old + TIMEOUT /\ (r + 1) * Slack = most + Slack
      BY <3>2, OneMore, BoundFacts
    <3>5. pending'[i].retries = r + 1 /\ age'[pending'[i].seq] = a
          /\ pending'[i].timestamp = now /\ now' = now
      BY <1>1, <1>4, <2>3
    <3> HIDE DEF r, a, old, most
    <3>6. (r + 1) * TIMEOUT + 0 <= a /\ a <= (r + 1) * Slack + 0
      BY <3>1, <3>2, <3>3, <3>4, BoundFacts
    <3>7. now = (now + 0) % ClockWrap
      BY <1>2, ClockSteps
    <3>8. 0 <= Slack /\ 0 - d <= TIMEOUT - 1 + PERIOD
      BY BoundFacts
    <3>9. SentAgo(i, 0, d)'
      BY <3>5, <3>6, <3>7, <3>8 DEF SentAgo
    <3> QED BY <3>9
  <2> QED BY <2>2, <2>3
<1>6. TimedBy(d)'
  BY <1>1, <1>3, <1>4, <1>5 DEF TimedBy, OnGrid
<1>7. AgeInv'
  BY <1>1, <1>4 DEF TimingInv, AgeInv, Outstanding
<1> QED BY <1>6, <1>7 DEF TimingInv

\* A sweep that is over has seen every request.
LEMMA EndSweepTimed ==
  ASSUME FramesInv, TimingInv, EndSweep
  PROVE  TimingInv'
<1>1. /\ index > Len(pending) /\ index' = 0
      /\ UNCHANGED <<pending, next_sweep, now, age, phase>>
  BY DEF EndSweep, registryVars, history
<1>2. DOMAIN pending = 1..Len(pending) /\ Len(pending) \in Nat /\ index \in Nat
  BY TypeFacts DEF FramesInv
<1>3. \A i \in DOMAIN pending : Seen(i)
  BY <1>1, <1>2 DEF Seen
<1> QED BY <1>1, <1>3 DEF TimingInv, AgeInv, Outstanding, TimedBy, OnGrid, SentAgo, Seen

\* A millisecond passes: a sweep that is due is not later than Late.
LEMMA TickTimed ==
  ASSUME FramesInv, TimingInv, Tick
  PROVE  TimingInv'
<1>1. /\ index = 0
      /\ SweepDue => SinceDue < Late
      /\ now' = (now + 1) % ClockWrap /\ phase' = (phase + 1) % PERIOD
      /\ age' = [s \in Ids |-> IF Outstanding(s) THEN age[s] + 1 ELSE age[s]]
      /\ UNCHANGED <<pending, next_sweep, index>>
  BY DEF Tick, registryVars
<1>2. /\ next_sweep \in Clock /\ phase \in Int /\ age \in [Ids -> Nat]
      /\ DOMAIN pending = 1..Len(pending)
  BY TypeFacts, BoundFacts DEF FramesInv, TypeOK
<1>3. PICK d \in -PERIOD..Late : TimedBy(d)
  BY DEF TimingInv
<1>d. OnGrid(d) /\ d \in Int
  BY <1>3 DEF TimedBy
<1>4. d + 1 \in -PERIOD..Late
  <2>1. SweepDue <=> d >= 0
    BY <1>2, <1>d, DueFacts
  <2>2. d >= 0 => SinceDue = d
    BY <1>2, <1>d, DueFacts
  <2>3. PERIOD \in Nat \ {0} /\ Late \in Nat /\ d >= -PERIOD /\ d <= Late /\ d \in Int
    BY BoundFacts
  <2>4. d + 1 <= Late
    <3>1. d >= 0 => d < Late
      BY <1>1, <2>1, <2>2
    <3> QED BY <2>3, <3>1
  <2> QED BY <2>3, <2>4
<1>5. OnGrid(d + 1)'
  BY <1>1, <1>2, <1>d, GridMoves
<1>6. ASSUME NEW i \in DOMAIN pending
      PROVE  \E e \in Nat : SentAgo(i, e, d + 1)'
  <2>1. PICK e \in Nat : SentAgo(i, e, d)
    BY <1>3 DEF TimedBy
  <2>2. /\ pending[i].timestamp \in Clock /\ pending[i].seq \in Ids
        /\ pending[i].retries * TIMEOUT \in Nat /\ pending[i].retries * Slack \in Nat
        /\ age[pending[i].seq] \in Nat
    BY RequestFacts DEF FramesInv
  <2>3. age'[pending[i].seq] = age[pending[i].seq] + 1
    BY <1>1, <2>2 DEF Outstanding
  <2>t. PICK t \in Clock : t = pending[i].timestamp
    BY <2>2
  <2>4. (((t + e) % ClockWrap) + 1) % ClockWrap = (t + (e + 1)) % ClockWrap
    BY ClockSteps
  <2>5. now' = (pending[i].timestamp + (e + 1)) % ClockWrap
    BY <1>1, <2>1, <2>t, <2>4 DEF SentAgo
  <2>6. e + 1 <= Slack /\ (e + 1) - (d + 1) <= TIMEOUT - 1 + PERIOD
    <3>1. e - d <= TIMEOUT - 1 + PERIOD
      BY <1>1, <2>1 DEF SentAgo, Seen
    <3>2. d + 1 <= Late /\ d \in Int /\ Late \in Nat
      BY <1>4, <1>d, BoundFacts
    <3> QED BY <3>1, <3>2, BoundFacts
  <2> DEFINE a == age[pending[i].seq]
             old == pending[i].retries * TIMEOUT
             most == pending[i].retries * Slack
  <2>7. old + e <= a /\ a <= most + e
    BY <2>1 DEF SentAgo
  <2>8. old + (e + 1) <= a + 1 /\ a + 1 <= most + (e + 1)
    <3> HIDE DEF a, old, most
    <3>1. a \in Nat /\ old \in Nat /\ most \in Nat
      BY <2>2 DEF a, old, most
    <3> QED BY <2>7, <3>1
  <2>9. SentAgo(i, e + 1, d + 1)'
    BY <1>1, <2>3, <2>5, <2>6, <2>8 DEF SentAgo
  <2> QED BY <2>9
<1>7. TimedBy(d + 1)'
  BY <1>1, <1>5, <1>6 DEF TimedBy
<1>8. AgeInv'
  BY <1>1 DEF TimingInv, AgeInv, Outstanding
<1> QED BY <1>4, <1>7, <1>8 DEF TimingInv

LEMMA TimingInit == Init => TimingInv
<1> SUFFICES ASSUME Init PROVE TimingInv
  OBVIOUS
<1>1. pending = <<>> /\ now = 0 /\ next_sweep = PERIOD /\ phase = 0 /\ age = [s \in Ids |-> 0]
  BY DEF Init
<1>2. AgeInv
  BY <1>1 DEF AgeInv
<1> DEFINE d == -PERIOD
<1>3. d \in -PERIOD..Late /\ PERIOD + d = 0 /\ 0 - d = PERIOD
  BY BoundFacts
<1>4. 0 = 0 % ClockWrap /\ PERIOD % PERIOD = 0
  BY BoundFacts
<1>5. OnGrid(d)
  BY <1>1, <1>3, <1>4 DEF OnGrid
<1>6. TimedBy(d)
  BY <1>1, <1>5 DEF TimedBy
<1> QED BY <1>2, <1>3, <1>6 DEF TimingInv

LEMMA TimingStep == FramesInv /\ TimingInv /\ [Next]_vars => TimingInv'
<1> SUFFICES ASSUME FramesInv, TimingInv, [Next]_vars PROVE TimingInv'
  OBVIOUS
<1>1. ASSUME NEW r \in Registrations, Register(r) \/ Unregister(r.type) PROVE TimingInv'
  BY <1>1, TimingSame DEF Register, Unregister, history
<1>2. ASSUME NEW t \in MessageType, SendRequest(t) PROVE TimingInv'
  BY <1>2, SendTimed
<1>3. ASSUME NEW t \in MessageType, NEW s \in Ids, ReceiveReply(t, s) PROVE TimingInv'
  <2>1. PICK k : Ends(s, k, "Reply")
    BY <1>3, ReplyEnds DEF FramesInv
  <2>2. index = 0
    BY <1>3 DEF ReceiveReply, Callable
  <2> QED BY <2>1, <2>2, EndsTimed
<1>4. CASE SweepTimedOut
  <2>1. index \in DOMAIN pending
    BY <1>4, TypeFacts DEF SweepTimedOut, Sweeping, FramesInv
  <2>2. PICK s \in Ids : s = pending[index].seq
    BY <2>1, TypeFacts DEF FramesInv
  <2>3. Ends(s, index, "Timeout")
    BY <1>4, <2>2, TimeoutEnds DEF FramesInv
  <2> QED BY <2>3, EndsTimed
<1>5. CASE BeginSweep
  BY <1>5, BeginTimed
<1>6. CASE SweepUnexpired
  BY <1>6, UnexpiredTimed
<1>7. CASE SweepRetry
  BY <1>7, RetryTimed
<1>8. CASE EndSweep
  BY <1>8, EndSweepTimed
<1>9. CASE Tick
  BY <1>9, TickTimed
<1>10. CASE Retransmit \/ UNCHANGED vars
  BY <1>10, TimingSame DEF Retransmit, vars, registryVars, history
<1> QED BY <1>1, <1>2, <1>3, <1>4, <1>5, <1>6, <1>7, <1>8, <1>9, <1>10 DEF Next, Sweep

\* The sweep keeps to whole periods since the node started, however late each call
\* of Registry::on_tick is and wherever the clock wraps.
THEOREM OnTheGrid == Spec => []SweepsOnGrid
<1>1. FramesInv /\ TimingInv => SweepsOnGrid
  <2> SUFFICES ASSUME FramesInv, TimingInv PROVE SweepsOnGrid
    OBVIOUS
  <2>1. PICK d \in -PERIOD..Late : OnGrid(d)
    BY DEF TimingInv, TimedBy
  <2>2. next_sweep \in Clock /\ phase \in 0..PERIOD - 1 /\ PERIOD \in Nat \ {0}
    BY BoundFacts DEF FramesInv, TypeOK
  <2>3. d \in Int /\ phase \in Int /\ phase % PERIOD = phase
    BY <2>2
  <2>4. (phase - d) % PERIOD = 0
    BY <2>1 DEF OnGrid
  <2>5. CASE SweepDue
    <3>1. SinceDue = d
      BY <2>1, <2>2, <2>5, DueFacts
    <3> DEFINE x == phase - d
    <3>2. x \in Int /\ x + d = phase
      BY <2>3
    <3> HIDE DEF x
    <3>3. ((x % PERIOD) + d) % PERIOD = (x + d) % PERIOD
      BY <2>2, <2>3, <3>2, ModAdd
    <3>4. d % PERIOD = phase
      BY <2>3, <2>4, <3>2, <3>3 DEF x
    <3> QED BY <2>5, <3>1, <3>4 DEF SweepsOnGrid
  <2>6. CASE ~SweepDue
    <3>1. (next_sweep - now) % ClockWrap = -d
      BY <2>1, <2>2, <2>3, <2>6, DueFacts
    <3>2. ((-d) + phase) % PERIOD = 0
      <4>1. (-d) + phase = phase - d
        BY <2>3
      <4> QED BY <2>4, <4>1
    <3> QED BY <2>6, <3>1, <3>2 DEF SweepsOnGrid
  <2> QED BY <2>5, <2>6
<1> QED BY <1>1, FramesInit, FramesStep, TimingInit, TimingStep, PTL DEF Spec

\* A request is answered or given up on within the time its sends and the sweeps
\* between them may take (Registry::on_tick, sweep).
THEOREM OutstandingBounded == Spec => []OutstandingIsBounded
<1>1. FramesInv /\ TimingInv => OutstandingIsBounded
  <2> SUFFICES ASSUME FramesInv, TimingInv, NEW s \in Ids
               PROVE  age[s] <= (RETRIES + 1) * Slack
    BY DEF OutstandingIsBounded, Slack
  <2>1. CASE age[s] = 0
    BY <2>1, BoundFacts
  <2>2. CASE Outstanding(s)
    <3>1. PICK i \in DOMAIN pending : pending[i].seq = s
      BY <2>2 DEF Outstanding
    <3>2. PICK d \in -PERIOD..Late : TimedBy(d)
      BY DEF TimingInv
    <3>3. PICK e \in Nat : SentAgo(i, e, d)
      BY <3>1, <3>2 DEF TimedBy
    <3>4. pending[i].retries \in Nat /\ pending[i].retries <= RETRIES
      BY <3>1, RequestFacts DEF FramesInv
    <3>5. age[s] <= pending[i].retries * Slack + e /\ e <= Slack /\ age[s] \in Nat
      BY <3>1, <3>3, RequestFacts DEF SentAgo, FramesInv
    <3> QED BY <3>4, <3>5, LastAge, BoundFacts
  <2> QED BY <2>1, <2>2 DEF TimingInv, AgeInv
<1> QED BY <1>1, FramesInit, FramesStep, TimingInit, TimingStep, PTL DEF Spec

\* Registry::sweep gives a request up only after the timeout has run once for each of
\* its sends: a retry restamps it, so no retry is cut short.
THEOREM GivenUpLate == Spec => GivenUpInTime
<1> DEFINE Step == \A s \in Ids : told'[s] # told[s] /\ told'[s] = <<"Timeout">> =>
                     age[s] >= (RETRIES + 1) * TIMEOUT
<1>1. FramesInv /\ TimingInv /\ [Next]_vars => [Step]_vars
  <2> SUFFICES ASSUME FramesInv, TimingInv, Next, NEW s \in Ids,
                      told'[s] # told[s], told'[s] = <<"Timeout">>
               PROVE  age[s] >= (RETRIES + 1) * TIMEOUT
    OBVIOUS
  <2>t. told \in [Ids -> Seq({"Reply", "Timeout"})]
    BY DEF FramesInv, TypeOK
  <2>1. ASSUME NEW t \in MessageType, NEW r \in Ids, ReceiveReply(t, r) PROVE FALSE
    <3>1. told' = [told EXCEPT ![r] = Append(@, "Reply")]
      BY <2>1 DEF ReceiveReply
    <3>2. r = s /\ told'[s] = Append(told[s], "Reply")
      BY <2>t, <3>1
    <3>3. PICK q \in Seq({"Reply", "Timeout"}) : q = told[s]
      BY <2>t
    <3>4. Append(q, "Reply") = <<"Timeout">>
      BY <3>2, <3>3
    <3>5. Len(Append(q, "Reply")) = Len(q) + 1 /\ Append(q, "Reply")[Len(q) + 1] = "Reply"
          /\ Len(q) \in Nat
      OBVIOUS
    <3>6. Len(q) + 1 = 1
      BY <3>4, <3>5
    <3>7. Append(q, "Reply")[1] = "Reply"
      BY <3>5, <3>6
    <3>8. <<"Timeout">>[1] = "Timeout"
      OBVIOUS
    <3> QED BY <3>4, <3>7, <3>8
  <2>2. SweepTimedOut
    BY <2>1 DEF Next, Sweep, Register, Unregister, SendRequest, BeginSweep, SweepUnexpired,
       SweepRetry, EndSweep, Retransmit, Tick, history
  <2>3. index \in DOMAIN pending /\ Expired(pending[index]) /\ ~RetriesLeft(pending[index])
    BY <2>2, TypeFacts DEF SweepTimedOut, Sweeping, FramesInv
  <2>4. pending[index].seq = s
    BY <2>2, <2>t DEF SweepTimedOut
  <2>5. PICK d \in -PERIOD..Late : TimedBy(d)
    BY DEF TimingInv
  <2>6. PICK e \in Nat : SentAgo(index, e, d)
    BY <2>3, <2>5 DEF TimedBy
  <2>7. e >= TIMEOUT
    BY <2>3, <2>6, SentFacts DEF FramesInv
  <2>8. pending[index].retries = RETRIES
    BY <2>3, RequestFacts, BoundFacts DEF FramesInv, RetriesLeft
  <2>9. RETRIES * TIMEOUT + e <= age[s]
    BY <2>4, <2>6, <2>8 DEF SentAgo
  <2>10. RETRIES * TIMEOUT \in Nat /\ age[s] \in Nat
    BY <2>3, <2>4, <2>8, RequestFacts DEF FramesInv
  <2>11. (RETRIES + 1) * TIMEOUT = RETRIES * TIMEOUT + TIMEOUT
    BY OneMore, BoundFacts
  <2> DEFINE most == RETRIES * TIMEOUT
  <2> HIDE DEF most
  <2>12. most + e <= age[s] /\ most \in Nat /\ (RETRIES + 1) * TIMEOUT = most + TIMEOUT
    BY <2>9, <2>10, <2>11 DEF most
  <2> QED BY <2>7, <2>10, <2>12, BoundFacts
<1>2. [][Step]_vars => GivenUpInTime
  BY PTL DEF GivenUpInTime
<1> QED BY <1>1, <1>2, FramesInit, FramesStep, TimingInit, TimingStep, PTL DEF Spec
=============================================================================
