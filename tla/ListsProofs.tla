---------------------------- MODULE ListsProofs ----------------------------
(***************************************************************************)
(* Facts about the lists and the wrapping clock that the tables, requests  *)
(* and timers of bm-wire are made of: what a find, a removal and a bounded *)
(* append leave, and what time_remaining says of a timer that is not late  *)
(* by half the range of the clock.                                         *)
(***************************************************************************)
EXTENDS Lists, Clocks, WellFoundedInduction, TLAPS

------------------------------------------------------------------------------
(* Lists. *)

\* The position a find returns is one of those it looks for.
LEMMA FirstFacts ==
  ASSUME NEW S \in SUBSET Nat, S # {}
  PROVE  First(S) \in S
<1>1. PICK x \in S : \A y \in S : ~(<<y, x>> \in OpToRel(<, Nat))
  BY WFMin, NatLessThanWellFounded, Zenon
<1>2. \A y \in S : ~(y < x)
  BY <1>1, Zenon DEF OpToRel
<1>3. \A y \in S : x <= y
  BY <1>2
<1> QED BY <1>3 DEF First

\* The only position there is, is the one found.
LEMMA FirstOfOne ==
  ASSUME NEW x \in Nat
  PROVE  First({x}) = x
BY DEF First

\* Where an element of a shortened list was before.
Before(i, j) == IF j < i THEN j ELSE j + 1

\* w is the list q of elements of S without its i-th, the others in their order.
Shortened(w, q, i, S) ==
  /\ w \in Seq(S) /\ Len(w) = Len(q) - 1 /\ DOMAIN w = 1..Len(q) - 1
  /\ \A j \in DOMAIN w : /\ Before(i, j) \in DOMAIN q /\ Before(i, j) # i
                         /\ w[j] = q[Before(i, j)]
  /\ \A k \in DOMAIN q : k # i => \E j \in DOMAIN w : Before(i, j) = k

\* A list without its i-th element holds the others, in their order.
LEMMA WithoutFacts ==
  ASSUME NEW S, NEW q \in Seq(S), NEW i \in DOMAIN q
  PROVE  Shortened(Without(q, i), q, i, S)
<1> DEFINE w == Without(q, i)
<1>1. /\ Len(q) \in Nat /\ DOMAIN q = 1..Len(q) /\ i \in 1..Len(q)
      /\ \A k \in DOMAIN q : q[k] \in S
  OBVIOUS
<1>2. Len(q) - 1 \in Nat
  BY <1>1
<1>3. ASSUME NEW j \in 1..Len(q) - 1
      PROVE  /\ Before(i, j) \in DOMAIN q /\ Before(i, j) # i
             /\ w[j] = q[Before(i, j)] /\ w[j] \in S
  BY <1>1 DEF Without, Before
<1>4. w \in [1..Len(q) - 1 -> S]
  BY <1>3 DEF Without
<1>5. w \in Seq(S) /\ Len(w) = Len(q) - 1 /\ DOMAIN w = 1..Len(q) - 1
  <2> HIDE DEF w
  <2> QED BY <1>2, <1>4
<1>6. ASSUME NEW k \in DOMAIN q, k # i
      PROVE  \E j \in 1..Len(q) - 1 : Before(i, j) = k
  <2> DEFINE j == IF k < i THEN k ELSE k - 1
  <2>1. j \in 1..Len(q) - 1 /\ Before(i, j) = k
    BY <1>1, <1>6 DEF Before
  <2> QED BY <2>1
<1> HIDE DEF w
<1>7. Shortened(w, q, i, S)
  BY <1>3, <1>5, <1>6 DEF Shortened
<1> QED BY <1>7 DEF w

\* Taking out the first that matches: nothing, or one that does.
LEMMA WithoutFirstFacts ==
  ASSUME NEW S, NEW q \in Seq(S), NEW I \in SUBSET DOMAIN q
  PROVE  /\ WithoutFirst(q, I) \in Seq(S)
         /\ Len(WithoutFirst(q, I)) \in Nat /\ Len(WithoutFirst(q, I)) <= Len(q)
         /\ I = {} => WithoutFirst(q, I) = q
         /\ I # {} => First(I) \in I /\ Shortened(WithoutFirst(q, I), q, First(I), S)
<1>1. CASE I = {}
  BY <1>1 DEF WithoutFirst
<1>2. CASE I # {}
  <2>1. I \in SUBSET Nat
    OBVIOUS
  <2>2. First(I) \in I
    BY <1>2, <2>1, FirstFacts
  <2> DEFINE w == Without(q, First(I))
  <2>3. Shortened(w, q, First(I), S)
    BY <2>2, WithoutFacts
  <2>4. WithoutFirst(q, I) = w
    BY <1>2 DEF WithoutFirst
  <2> HIDE DEF w
  <2>5. w \in Seq(S) /\ Len(w) = Len(q) - 1
    BY <2>3 DEF Shortened
  <2> QED BY <1>2, <2>2, <2>3, <2>4, <2>5
<1> QED BY <1>1, <1>2

\* w is the list q of elements of S with e at its end, where it fits in n.
Appended(w, q, n, e, S) ==
  /\ w \in Seq(S) /\ Len(w) <= n
  /\ Len(w) = (IF Len(q) = n THEN Len(q) ELSE Len(q) + 1)
  /\ \A i \in DOMAIN q : i \in DOMAIN w /\ w[i] = q[i]
  /\ \A i \in DOMAIN w : i \in DOMAIN q \/ (i = Len(q) + 1 /\ w[i] = e)

\* A bounded append keeps what is there, and adds at most the new element.
LEMMA AppendFacts ==
  ASSUME NEW S, NEW q \in Seq(S), NEW n \in Nat, Len(q) <= n, NEW e \in S
  PROVE  Appended(AppendUpTo(q, n, e), q, n, e, S)
BY DEF Appended, AppendUpTo

------------------------------------------------------------------------------
(* Remainders, for a divisor that is not a given number. *)

\* What division is.
LEMMA DivMod ==
  ASSUME NEW n \in Nat \ {0}, NEW a \in Int
  PROVE  a % n \in 0..n - 1 /\ a \div n \in Int /\ a = n * (a \div n) + (a % n)
OBVIOUS

\* A quotient and a remainder are the only ones.
LEMMA ModUnique ==
  ASSUME NEW n \in Nat \ {0}, NEW q \in Int, NEW r \in 0..n - 1
  PROVE  (n * q + r) % n = r
OBVIOUS

\* Whole multiples do not count.
LEMMA ModWhole ==
  ASSUME NEW n \in Nat \ {0}, NEW a \in Int, NEW k \in Int
  PROVE  (a + n * k) % n = a % n
<1> DEFINE q == a \div n
           r == a % n
<1>1. q \in Int /\ r \in 0..n - 1 /\ a = n * q + r
  BY DivMod
<1> HIDE DEF q, r
<1>2. a + n * k = n * (q + k) + r
  BY <1>1
<1>3. (n * (q + k) + r) % n = r
  BY <1>1, ModUnique
<1> QED BY <1>2, <1>3 DEF r

\* A sum may be reduced before it is added to.
LEMMA ModAdd ==
  ASSUME NEW n \in Nat \ {0}, NEW a \in Int, NEW b \in Int
  PROVE  ((a % n) + b) % n = (a + b) % n
<1>1. a \div n \in Int /\ a % n \in Int /\ a = n * (a \div n) + (a % n)
  BY DivMod
<1> DEFINE q == a \div n
           r == a % n
           c == r + b
<1>2. q \in Int /\ c \in Int /\ a + b = c + n * q
  BY <1>1
<1> HIDE DEF q, r, c
<1>3. (c + n * q) % n = c % n
  BY <1>2, ModWhole
<1> QED BY <1>2, <1>3 DEF r, c

\* And before it is taken away.
LEMMA ModSub ==
  ASSUME NEW n \in Nat \ {0}, NEW a \in Int, NEW b \in Int
  PROVE  (b - (a % n)) % n = (b - a) % n
<1>1. a \div n \in Int /\ a % n \in Int /\ a = n * (a \div n) + (a % n)
  BY DivMod
<1> DEFINE q == a \div n
           c == b - a
<1>2. q \in Int /\ c \in Int /\ b - (a % n) = c + n * q
  BY <1>1
<1> HIDE DEF q, c
<1>3. (c + n * q) % n = c % n
  BY <1>2, ModWhole
<1> QED BY <1>2, <1>3 DEF c

------------------------------------------------------------------------------
(* The clock. *)

\* The clock, the time a moment is ago, and the time since it.
LEMMA ClockSteps ==
  ASSUME NEW start \in Clock, NEW e \in Int
  PROVE  /\ (start + e) % ClockWrap \in Clock
         /\ (((start + e) % ClockWrap) + 1) % ClockWrap = (start + (e + 1)) % ClockWrap
         /\ (start + 0) % ClockWrap = start
         /\ e \in Clock => (((start + e) % ClockWrap) - start) % ClockWrap = e
<1> USE ClockAssumption
<1>1. start \in Int /\ start + e \in Int
  BY DEF Clock
<1>2. (start + e) % ClockWrap \in Clock
  BY <1>1, DivMod DEF Clock
<1>3. (((start + e) % ClockWrap) + 1) % ClockWrap = (start + (e + 1)) % ClockWrap
  <2> DEFINE x == start + e
             y == 1
  <2>x. x \in Int /\ y \in Int
    BY <1>1
  <2> HIDE DEF x, y
  <2>y. ((x % ClockWrap) + y) % ClockWrap = (x + y) % ClockWrap
    BY <2>x, ModAdd
  <2>1. (((start + e) % ClockWrap) + 1) % ClockWrap = ((start + e) + 1) % ClockWrap
    BY <2>y DEF x, y
  <2>2. (start + e) + 1 = start + (e + 1)
    BY <1>1
  <2> QED BY <2>1, <2>2
<1>4. ASSUME NEW x \in Clock
      PROVE  x % ClockWrap = x
  BY DEF Clock
<1>5. ASSUME e \in Clock
      PROVE  (((start + e) % ClockWrap) - start) % ClockWrap = e
  <2> DEFINE x == start + e
             y == -start
  <2>x. x \in Int /\ y \in Int
    BY <1>1
  <2> HIDE DEF x, y
  <2>y. ((x % ClockWrap) + y) % ClockWrap = (x + y) % ClockWrap
    BY <2>x, ModAdd
  <2>1. (((start + e) % ClockWrap) + (-start)) % ClockWrap = ((start + e) + (-start)) % ClockWrap
    BY <2>y DEF x, y
  <2>2. (start + e) + (-start) = e
    BY <1>1
  <2>3. ((start + e) % ClockWrap) + (-start) = ((start + e) % ClockWrap) - start
    BY <1>1, <1>2 DEF Clock
  <2> QED BY <1>4, <1>5, <2>1, <2>2, <2>3
<1>6. start + 0 = start
  BY <1>1
<1> QED BY <1>2, <1>3, <1>4, <1>5, <1>6

\* time_remaining is exact until the timer is late by half the range.
LEMMA RemainingFacts ==
  ASSUME NEW start \in Clock, NEW e \in Nat, NEW timeout \in Nat, NEW late \in Nat,
         e <= timeout + late, 2 * (timeout + late + 1) < ClockWrap
  PROVE  TimeRemaining(start, (start + e) % ClockWrap, timeout)
           = IF e < timeout THEN timeout - e ELSE 0
<1> USE ClockAssumption
<1> DEFINE left == (start + timeout - ((start + e) % ClockWrap)) % ClockWrap
<1>1. left = (timeout - e) % ClockWrap
  <2>1. start + e \in Int /\ start + timeout \in Int
    BY DEF Clock
  <2> DEFINE a == start + e
             b == start + timeout
  <2> DEFINE x == a % ClockWrap
  <2>x. x \in Int
    BY <2>1, DivMod
  <2> HIDE DEF x
  <2>y. start + timeout - x = b - x
    BY <2>1, <2>x DEF Clock
  <2>a. left = (b - (a % ClockWrap)) % ClockWrap
    BY <2>y DEF x
  <2> HIDE DEF a, b, left
  <2>b. (b - (a % ClockWrap)) % ClockWrap = (b - a) % ClockWrap
    BY <2>1, ModSub DEF a, b
  <2>2. left = ((start + timeout) - (start + e)) % ClockWrap
    BY <2>a, <2>b DEF a, b
  <2>3. (start + timeout) - (start + e) = timeout - e
    BY DEF Clock
  <2> QED BY <2>2, <2>3
<1>2. TimeRemaining(start, (start + e) % ClockWrap, timeout)
        = IF 2 * left >= ClockWrap THEN 0 ELSE left
  BY DEF TimeRemaining
<1> HIDE DEF left
<1>3. CASE e <= timeout
  <2>1. timeout - e \in 0..ClockWrap - 1
    BY <1>3
  <2>2. left = timeout - e
    BY <1>1, <2>1
  <2>3. 2 * left < ClockWrap
    BY <1>3, <2>2
  <2> QED BY <1>2, <1>3, <2>2, <2>3
<1>4. CASE e > timeout
  <2>1. ClockWrap - (e - timeout) \in 0..ClockWrap - 1
    BY <1>4
  <2>2. timeout - e = ClockWrap * (-1) + (ClockWrap - (e - timeout))
    BY <1>4
  <2>3. left = ClockWrap - (e - timeout)
    BY <1>1, <2>1, <2>2, ModUnique
  <2> QED BY <1>2, <1>4, <2>3
<1> QED BY <1>3, <1>4
=============================================================================
