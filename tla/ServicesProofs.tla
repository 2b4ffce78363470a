--------------------------- MODULE ServicesProofs ---------------------------
(***************************************************************************)
(* The requests to services, for every value of the constants: the power-  *)
(* info callbacks that wait are those of requests that are listed, and a   *)
(* request ends once, in time, by an answer to it or to one its node made  *)
(* before it restarted.  And what carries them, on any tree of nodes: what *)
(* is sent is processed once by everyone it is meant for.                  *)
(***************************************************************************)
EXTENDS Services, ListsProofs

------------------------------------------------------------------------------
(* Lists of nothing in particular. *)

\* A sequence of anything is a list.
LEMMA SeqIsList ==
  ASSUME NEW S, NEW q \in Seq(S)
  PROVE  IsList(q)
<1>1. Len(q) \in Nat /\ DOMAIN q = 1..Len(q)
  OBVIOUS
<1> DEFINE T == {q[i] : i \in DOMAIN q}
<1>2. \A i \in 1..Len(q) : q[i] \in T
  BY <1>1
<1>3. q = [i \in 1..Len(q) |-> q[i]]
  OBVIOUS
<1> HIDE DEF T
<1>4. [i \in 1..Len(q) |-> q[i]] \in [1..Len(q) -> T]
  BY <1>2
<1>5. q \in Seq(T)
  BY <1>1, <1>3, <1>4
<1> QED BY <1>5 DEF IsList, T

\* The elements of a list.
Members(q) == {q[i] : i \in DOMAIN q}

LEMMA ListFacts ==
  ASSUME NEW q, IsList(q)
  PROVE  /\ q \in Seq(Members(q)) /\ Len(q) \in Nat /\ DOMAIN q = 1..Len(q)
         /\ q # <<>> <=> Len(q) # 0
<1>1. q \in Seq(Members(q))
  BY DEF IsList, Members
<1> HIDE DEF Members
<1> QED BY <1>1

\* One more element at the end.
LEMMA AppendList ==
  ASSUME NEW q, IsList(q), NEW e
  PROVE  /\ IsList(Append(q, e)) /\ Len(Append(q, e)) = Len(q) + 1
         /\ DOMAIN Append(q, e) = 1..Len(q) + 1
         /\ \A i \in DOMAIN q : Append(q, e)[i] = q[i]
         /\ Append(q, e)[Len(q) + 1] = e
<1> DEFINE S == Members(q) \cup {e}
<1>1. \A i \in DOMAIN q : q[i] \in S
  BY DEF Members
<1>2. Len(q) \in Nat /\ DOMAIN q = 1..Len(q) /\ q \in Seq(Members(q))
  BY ListFacts
<1>3. q \in Seq(S)
  BY <1>2, Members(q) \subseteq S
<1>4. e \in S
  OBVIOUS
<1> HIDE DEF S
<1>5. /\ Append(q, e) \in Seq(S) /\ Len(Append(q, e)) = Len(q) + 1
      /\ DOMAIN Append(q, e) = 1..Len(q) + 1
      /\ \A i \in DOMAIN q : Append(q, e)[i] = q[i]
      /\ Append(q, e)[Len(q) + 1] = e
  BY <1>3, <1>4
<1>6. IsList(Append(q, e))
  BY <1>5, SeqIsList
<1> QED BY <1>5, <1>6

\* An append to an array that may be full.
GrownTo(w, q, n, e) ==
  /\ IsList(w) /\ Len(w) <= n /\ DOMAIN w = 1..Len(w)
  /\ Len(w) = (IF Len(q) = n THEN Len(q) ELSE Len(q) + 1)
  /\ \A i \in DOMAIN q : i \in DOMAIN w /\ w[i] = q[i]
  /\ \A i \in DOMAIN w : i \in DOMAIN q \/ (i = Len(q) + 1 /\ w[i] = e)
LEMMA AppendUpToList ==
  ASSUME NEW q, IsList(q), NEW e, NEW n \in Nat, Len(q) <= n
  PROVE  GrownTo(AppendUpTo(q, n, e), q, n, e)
<1> DEFINE S == Members(q) \cup {e}
           w == AppendUpTo(q, n, e)
<1>1. q \in Seq(Members(q))
  BY ListFacts
<1>2. q \in Seq(S)
  BY <1>1, Members(q) \subseteq S
<1>3. e \in S
  OBVIOUS
<1> HIDE DEF S
<1>4. Appended(w, q, n, e, S)
  BY <1>2, <1>3, AppendFacts
<1> HIDE DEF w
<1>5. IsList(w)
  BY <1>4, SeqIsList DEF Appended
<1>6. DOMAIN w = 1..Len(w)
  BY <1>4 DEF Appended
<1>7. GrownTo(w, q, n, e)
  BY <1>4, <1>5, <1>6 DEF Appended, GrownTo
<1> QED BY <1>7 DEF w

\* A list without the first of some of its elements.
LEMMA WithoutFirstList ==
  ASSUME NEW q, IsList(q), NEW I \in SUBSET DOMAIN q, I # {}
  PROVE  LET w == WithoutFirst(q, I)
         IN  /\ First(I) \in I /\ IsList(w) /\ Len(w) = Len(q) - 1 /\ DOMAIN w = 1..Len(q) - 1
             /\ \A j \in DOMAIN w : /\ Before(First(I), j) \in DOMAIN q
                                    /\ Before(First(I), j) # First(I)
                                    /\ w[j] = q[Before(First(I), j)]
             /\ \A k \in DOMAIN q : k # First(I) => \E j \in DOMAIN w : Before(First(I), j) = k
<1>1. q \in Seq(Members(q))
  BY ListFacts
<1> DEFINE w == WithoutFirst(q, I)
<1>2. First(I) \in I /\ Shortened(w, q, First(I), Members(q))
  BY <1>1, WithoutFirstFacts
<1> HIDE DEF w
<1>3. IsList(w)
  BY <1>2, SeqIsList DEF Shortened
<1> QED BY <1>2, <1>3 DEF Shortened, w

\* A list without its head.
LEMMA TailList ==
  ASSUME NEW q, IsList(q), q # <<>>
  PROVE  /\ IsList(Tail(q)) /\ Len(Tail(q)) = Len(q) - 1 /\ DOMAIN Tail(q) = 1..Len(q) - 1
         /\ 1 \in DOMAIN q /\ Head(q) = q[1]
         /\ \A i \in DOMAIN Tail(q) : i + 1 \in DOMAIN q /\ Tail(q)[i] = q[i + 1]
<1>1. q \in Seq(Members(q)) /\ Len(q) \in Nat /\ DOMAIN q = 1..Len(q) /\ Len(q) # 0
  BY ListFacts
<1>2. /\ Tail(q) \in Seq(Members(q)) /\ Len(Tail(q)) = Len(q) - 1
      /\ DOMAIN Tail(q) = 1..Len(q) - 1
      /\ \A i \in DOMAIN Tail(q) : i + 1 \in DOMAIN q /\ Tail(q)[i] = q[i + 1]
      /\ Head(q) = q[1] /\ 1 \in DOMAIN q
  BY <1>1
<1>3. IsList(Tail(q))
  BY <1>2, SeqIsList
<1> QED BY <1>2, <1>3

------------------------------------------------------------------------------
(* The power-info callbacks. *)

\* As many callbacks as requests wait for one, each request once.
IsPower(p) ==
  /\ IsList(p.queue) /\ IsList(p.waiting)
  /\ Len(p.queue) = Len(p.waiting) /\ Len(p.waiting) <= SERVICE_REQUESTS
  /\ \A i, j \in DOMAIN p.waiting : p.waiting[i] = p.waiting[j] => i = j

\* push: at most the new id waits besides.
LEMMA PushedFacts ==
  ASSUME NEW p, IsPower(p), NEW id, \A i \in DOMAIN p.waiting : p.waiting[i] # id
  PROVE  /\ IsPower(Pushed(p, id))
         /\ \A i \in DOMAIN Pushed(p, id).waiting :
              \/ Pushed(p, id).waiting[i] = id
              \/ i \in DOMAIN p.waiting /\ Pushed(p, id).waiting[i] = p.waiting[i]
<1> DEFINE q == AppendUpTo(p.queue, SERVICE_REQUESTS, id)
           w == AppendUpTo(p.waiting, SERVICE_REQUESTS, id)
<1>1. /\ IsList(p.queue) /\ IsList(p.waiting)
      /\ Len(p.queue) = Len(p.waiting) /\ Len(p.waiting) <= SERVICE_REQUESTS
  BY DEF IsPower
<1>2. SERVICE_REQUESTS \in Nat
  BY PubSubAssumption
<1>3. GrownTo(q, p.queue, SERVICE_REQUESTS, id) /\ GrownTo(w, p.waiting, SERVICE_REQUESTS, id)
  BY <1>1, <1>2, AppendUpToList
<1>4. Pushed(p, id).queue = q /\ Pushed(p, id).waiting = w
  BY DEF Pushed
<1> HIDE DEF q, w
<1>5. ASSUME NEW i \in DOMAIN w
      PROVE  w[i] = id \/ (i \in DOMAIN p.waiting /\ w[i] = p.waiting[i])
  BY <1>3 DEF GrownTo
<1>6. ASSUME NEW i \in DOMAIN w, NEW j \in DOMAIN w, w[i] = w[j]
      PROVE  i = j
  <2>1. CASE i \in DOMAIN p.waiting /\ j \in DOMAIN p.waiting
    BY <1>3, <1>6, <2>1 DEF GrownTo, IsPower
  <2>2. CASE i \notin DOMAIN p.waiting /\ j \notin DOMAIN p.waiting
    BY <1>3, <2>2 DEF GrownTo
  <2>3. CASE i \in DOMAIN p.waiting <=> j \notin DOMAIN p.waiting
    BY <1>3, <1>6, <2>3 DEF GrownTo
  <2> QED BY <2>1, <2>2, <2>3
<1>7. IsList(q) /\ IsList(w) /\ Len(q) = Len(w) /\ Len(w) <= SERVICE_REQUESTS
  BY <1>1, <1>3 DEF GrownTo
<1>8. IsPower(Pushed(p, id))
  BY <1>4, <1>6, <1>7 DEF IsPower
<1> QED BY <1>4, <1>5, <1>8

\* on_end: id waits no more, the others still do.
LEMMA EndedFacts ==
  ASSUME NEW p, IsPower(p), NEW id
  PROVE  /\ IsPower(EndedFor(p, id))
         /\ \A i \in DOMAIN EndedFor(p, id).waiting :
              /\ EndedFor(p, id).waiting[i] # id
              /\ \E j \in DOMAIN p.waiting : EndedFor(p, id).waiting[i] = p.waiting[j]
<1>1. CASE Waits(p, id) = {}
  BY <1>1 DEF EndedFor, Waits
<1>2. CASE Waits(p, id) # {}
  <2> DEFINE I == Waits(p, id)
             q == Tail(p.queue)
             w == WithoutFirst(p.waiting, I)
             at == First(I)
  <2>1. /\ EndedFor(p, id).queue = q /\ EndedFor(p, id).waiting = w
    BY <1>2 DEF EndedFor
  <2>2. /\ IsList(p.queue) /\ IsList(p.waiting)
        /\ Len(p.queue) = Len(p.waiting) /\ Len(p.waiting) <= SERVICE_REQUESTS
    BY DEF IsPower
  <2>3. I \in SUBSET DOMAIN p.waiting /\ I # {}
    BY <1>2 DEF Waits
  <2>4. /\ at \in I /\ IsList(w) /\ Len(w) = Len(p.waiting) - 1
        /\ \A j \in DOMAIN w : /\ Before(at, j) \in DOMAIN p.waiting /\ Before(at, j) # at
                               /\ w[j] = p.waiting[Before(at, j)]
        /\ DOMAIN w = 1..Len(p.waiting) - 1
    BY <2>2, <2>3, WithoutFirstList
  <2>5. Len(p.waiting) \in Nat
    BY <2>2, ListFacts
  <2>6. p.queue # <<>>
    <3>1. DOMAIN p.waiting = 1..Len(p.waiting)
      BY <2>2, ListFacts
    <3>2. Len(p.waiting) # 0
      BY <2>3, <3>1
    <3>3. Len(p.queue) # 0
      BY <2>2, <3>2
    <3> QED BY <2>2, <3>3, ListFacts
  <2>7. IsList(q) /\ Len(q) = Len(p.queue) - 1
    BY <2>2, <2>6, TailList
  <2>8. p.waiting[at] = id
    BY <2>4 DEF Waits
  <2> HIDE DEF I, q, w, at
  <2>9. Len(q) = Len(w) /\ Len(w) <= SERVICE_REQUESTS
    <3>1. Len(q) = Len(p.waiting) - 1 /\ Len(w) = Len(p.waiting) - 1
      BY <2>2, <2>4, <2>7
    <3> QED BY <2>2, <2>5, <3>1, PubSubAssumption
  <2>10. ASSUME NEW i \in DOMAIN w
         PROVE  /\ w[i] # id
                /\ \E j \in DOMAIN p.waiting : w[i] = p.waiting[j]
    <3>1. at \in DOMAIN p.waiting
      BY <2>3, <2>4
    <3> QED BY <2>4, <2>8, <3>1 DEF IsPower
  <2>11. ASSUME NEW i \in DOMAIN w, NEW j \in DOMAIN w, w[i] = w[j]
         PROVE  i = j
    <3>1. Before(at, i) = Before(at, j)
      BY <2>4, <2>11 DEF IsPower
    <3>2. at \in Int /\ i \in Int /\ j \in Int
      <4>1. DOMAIN p.waiting = 1..Len(p.waiting)
        BY <2>2, ListFacts
      <4> QED BY <2>3, <2>4, <4>1
    <3>3. Before(at, i) # at /\ Before(at, j) # at
      BY <2>4
    <3> QED BY <3>1, <3>2, <3>3 DEF Before
  <2>12. IsPower(EndedFor(p, id))
    BY <2>1, <2>4, <2>7, <2>9, <2>11 DEF IsPower
  <2> QED BY <2>1, <2>10, <2>12
<1> QED BY <1>1, <1>2

------------------------------------------------------------------------------
(* Subscriptions and services. *)

\* What a list of topics with their subscribers is made of.
LEMMA SubsFacts ==
  ASSUME NEW subs, IsSubscriptions(subs), NEW i \in DOMAIN subs
  PROVE  /\ DOMAIN subs[i] = {"topic", "callbacks"} /\ subs[i].callbacks \in Seq(Subscriber)
         /\ Len(subs[i].callbacks) \in 1..CALLBACKS
BY DEF IsSubscriptions

\* The topic is subscribed once.
LEMMA PositionFacts ==
  ASSUME NEW subs, IsList(subs), IsSubscriptions(subs), NEW topic, Position(subs, topic) # {}
  PROVE  /\ First(Position(subs, topic)) \in DOMAIN subs
         /\ subs[First(Position(subs, topic))].topic = topic
         /\ \A i \in DOMAIN subs : subs[i].topic = topic => i = First(Position(subs, topic))
<1> DEFINE P == Position(subs, topic)
<1>1. P \subseteq DOMAIN subs /\ \A i \in P : subs[i].topic = topic
  BY DEF Position
<1>2. DOMAIN subs = 1..Len(subs)
  BY ListFacts
<1>3. P \in SUBSET Nat
  BY <1>1, <1>2
<1> HIDE DEF P
<1>4. P # {}
  BY DEF P
<1>5. First(P) \in P
  BY <1>3, <1>4, FirstFacts
<1>6. ASSUME NEW i \in DOMAIN subs, subs[i].topic = topic
      PROVE  i = First(P)
  BY <1>1, <1>5, <1>6 DEF IsSubscriptions
<1> QED BY <1>1, <1>5, <1>6 DEF P

\* A topic whose subscribers change to others.
LEMMA CallbacksChanged ==
  ASSUME NEW subs, IsList(subs), IsSubscriptions(subs), NEW i \in DOMAIN subs,
         NEW held \in Seq(Subscriber), Len(held) \in 1..CALLBACKS
  PROVE  /\ IsList([subs EXCEPT ![i].callbacks = held])
         /\ IsSubscriptions([subs EXCEPT ![i].callbacks = held])
<1> DEFINE w == [subs EXCEPT ![i].callbacks = held]
           S == Members(subs) \cup {w[i]}
<1>1. subs \in Seq(Members(subs))
  BY ListFacts
<1>2. DOMAIN w = DOMAIN subs /\ \A j \in DOMAIN subs : j # i => w[j] = subs[j]
  OBVIOUS
<1>3. DOMAIN subs[i] = {"topic", "callbacks"}
  BY SubsFacts
<1>4. w[i] = [subs[i] EXCEPT !.callbacks = held]
  OBVIOUS
<1>5. w[i].callbacks = held /\ w[i].topic = subs[i].topic /\ DOMAIN w[i] = {"topic", "callbacks"}
  BY <1>3, <1>4
<1>6. Len(subs) \in Nat /\ DOMAIN subs = 1..Len(subs)
  BY ListFacts
<1>7. w = [j \in 1..Len(subs) |-> w[j]]
  BY <1>6
<1> HIDE DEF w
<1>8. \A j \in 1..Len(subs) : w[j] \in S
  BY <1>2, <1>6 DEF Members
<1> HIDE DEF S
<1>9. w \in [1..Len(subs) -> S]
  BY <1>7, <1>8
<1>10. w \in Seq(S) /\ Len(w) = Len(subs)
  BY <1>6, <1>9
<1>11. IsList(w)
  BY <1>10, SeqIsList
<1>12. ASSUME NEW j \in DOMAIN w
       PROVE  /\ DOMAIN w[j] = {"topic", "callbacks"} /\ w[j].callbacks \in Seq(Subscriber)
              /\ Len(w[j].callbacks) \in 1..CALLBACKS /\ w[j].topic = subs[j].topic
  <2>1. CASE j = i
    BY <1>5, <2>1
  <2>2. CASE j # i
    BY <1>2, <2>2, SubsFacts
  <2> QED BY <2>1, <2>2
<1>13. IsSubscriptions(w)
  BY <1>2, <1>10, <1>12 DEF IsSubscriptions
<1> QED BY <1>11, <1>13 DEF w

\* add: one more topic, or one more subscriber of a topic.
LEMMA SubscribedFacts ==
  ASSUME NEW subs, IsList(subs), IsSubscriptions(subs), NEW topic, NEW who \in Subscriber,
         ~SubscribeRefused(subs, topic, who)
  PROVE  IsList(Subscribed(subs, topic, who)) /\ IsSubscriptions(Subscribed(subs, topic, who))
<1>1. CASE Position(subs, topic) = {}
  <2> DEFINE s == [topic |-> topic, callbacks |-> <<who>>]
             w == AppendUpTo(subs, SUBSCRIPTIONS, s)
  <2>1. Subscribed(subs, topic, who) = w
    BY <1>1 DEF Subscribed
  <2>2. /\ DOMAIN s = {"topic", "callbacks"} /\ s.callbacks \in Seq(Subscriber)
        /\ Len(s.callbacks) = 1 /\ s.topic = topic
    OBVIOUS
  <2>3. Len(subs) <= SUBSCRIPTIONS /\ SUBSCRIPTIONS \in Nat /\ 1 \in 1..CALLBACKS
    BY PubSubAssumption DEF IsSubscriptions
  <2> HIDE DEF s
  <2>4. GrownTo(w, subs, SUBSCRIPTIONS, s)
    BY <2>3, AppendUpToList
  <2> HIDE DEF w
  <2>5. ASSUME NEW i \in DOMAIN w
        PROVE  /\ DOMAIN w[i] = {"topic", "callbacks"} /\ w[i].callbacks \in Seq(Subscriber)
               /\ Len(w[i].callbacks) \in 1..CALLBACKS
    <3>1. CASE i \in DOMAIN subs
      <4>1. w[i] = subs[i]
        BY <2>4, <3>1 DEF GrownTo
      <4> QED BY <3>1, <4>1, SubsFacts
    <3>2. CASE i \notin DOMAIN subs
      <4>1. w[i] = s
        BY <2>4, <3>2 DEF GrownTo
      <4> QED BY <2>2, <2>3, <4>1
    <3> QED BY <3>1, <3>2
  <2>6. ASSUME NEW i \in DOMAIN w, NEW j \in DOMAIN w, w[i].topic = w[j].topic
        PROVE  i = j
    <3>1. \A k \in DOMAIN subs : w[k] = subs[k] /\ subs[k].topic # topic
      BY <1>1, <2>4 DEF GrownTo, Position
    <3>2. \A k \in DOMAIN w : k \notin DOMAIN subs => k = Len(subs) + 1 /\ w[k].topic = topic
      BY <2>2, <2>4 DEF GrownTo
    <3> QED BY <2>6, <3>1, <3>2 DEF IsSubscriptions
  <2>7. IsList(w) /\ Len(w) <= SUBSCRIPTIONS
    BY <2>4 DEF GrownTo
  <2>8. IsSubscriptions(w)
    BY <2>5, <2>6, <2>7 DEF IsSubscriptions
  <2> QED BY <2>1, <2>7, <2>8
<1>2. CASE Position(subs, topic) # {}
  <2> DEFINE i == First(Position(subs, topic))
             held == subs[i].callbacks
             now == IF held[1] = who THEN held ELSE AppendUpTo(held, CALLBACKS, who)
  <2>1. i \in DOMAIN subs
    BY <1>2, PositionFacts
  <2>2. held \in Seq(Subscriber) /\ Len(held) \in 1..CALLBACKS
    BY <2>1, SubsFacts
  <2>3. CALLBACKS \in Nat
    BY PubSubAssumption
  <2>4. Subscribed(subs, topic, who) = [subs EXCEPT ![i].callbacks = now]
    BY <1>2 DEF Subscribed
  <2>5. now \in Seq(Subscriber) /\ Len(now) \in 1..CALLBACKS
    <3> HIDE DEF held
    <3>1. CASE held[1] = who
      BY <2>2, <3>1
    <3>2. CASE held[1] # who
      <4> DEFINE more == AppendUpTo(held, CALLBACKS, who)
      <4>1. Appended(more, held, CALLBACKS, who, Subscriber)
        BY <2>2, <2>3, AppendFacts
      <4> HIDE DEF more
      <4>2. more \in Seq(Subscriber) /\ Len(more) \in 1..CALLBACKS
        BY <2>2, <2>3, <4>1 DEF Appended
      <4> QED BY <3>2, <4>2 DEF more
    <3> QED BY <3>1, <3>2
  <2> HIDE DEF i, held, now
  <2> DEFINE w == [subs EXCEPT ![i].callbacks = now]
  <2>6. IsList(w) /\ IsSubscriptions(w)
    BY <2>1, <2>5, CallbacksChanged
  <2>7. Subscribed(subs, topic, who) = w
    BY <2>4
  <2> HIDE DEF w
  <2> QED BY <2>6, <2>7
<1> QED BY <1>1, <1>2

\* remove: one topic less, or one subscriber of a topic less.
LEMMA UnsubscribedFacts ==
  ASSUME NEW subs, IsList(subs), IsSubscriptions(subs), NEW topic, NEW who,
         Callback(subs, topic, who) # {}
  PROVE  IsList(Unsubscribed(subs, topic, who)) /\ IsSubscriptions(Unsubscribed(subs, topic, who))
<1> DEFINE i == First(Position(subs, topic))
           held == subs[i].callbacks
           I == {c[2] : c \in Callback(subs, topic, who)}
           left == WithoutFirst(held, I)
<1>1. Position(subs, topic) # {}
  BY DEF Callback
<1>2. /\ i \in DOMAIN subs
      /\ \A k \in DOMAIN subs : subs[k].topic = topic => k = i
  BY <1>1, PositionFacts
<1>3. held \in Seq(Subscriber) /\ Len(held) \in 1..CALLBACKS
  BY <1>2, SubsFacts
<1>4. ASSUME NEW c \in Callback(subs, topic, who)
      PROVE  c[2] \in DOMAIN held
  <2>1. /\ c[1] \in Position(subs, topic) /\ c[2] \in 1..CALLBACKS
        /\ c[2] <= Len(subs[c[1]].callbacks)
    BY DEF Callback
  <2>2. c[1] = i
    BY <1>2, <2>1 DEF Position
  <2> HIDE DEF i
  <2>3. c[2] \in 1..Len(held)
    BY <1>3, <2>1, <2>2
  <2> QED BY <1>3, <2>3
<1>5. I \in SUBSET DOMAIN held
  BY <1>4
<1>6. I # {}
  OBVIOUS
<1>7. Unsubscribed(subs, topic, who)
        = IF left = <<>> THEN Without(subs, i) ELSE [subs EXCEPT ![i].callbacks = left]
  BY DEF Unsubscribed
<1> HIDE DEF i, held, I
<1>8. left \in Seq(Subscriber) /\ Len(left) \in Nat /\ Len(left) <= Len(held)
  BY <1>3, <1>5, WithoutFirstFacts
<1>9. CASE left = <<>>
  <2> DEFINE w == Without(subs, i)
  <2>1. subs \in Seq(Members(subs))
    BY ListFacts
  <2>2. Shortened(w, subs, i, Members(subs))
    BY <1>2, <2>1, WithoutFacts
  <2>3. Unsubscribed(subs, topic, who) = w
    BY <1>7, <1>9
  <2> HIDE DEF w
  <2>4. IsList(w) /\ Len(w) = Len(subs) - 1
    BY <2>2, SeqIsList DEF Shortened
  <2>5. Len(w) <= SUBSCRIPTIONS
    BY <2>1, <2>4, PubSubAssumption DEF IsSubscriptions
  <2>6. ASSUME NEW j \in DOMAIN w
        PROVE  /\ DOMAIN w[j] = {"topic", "callbacks"} /\ w[j].callbacks \in Seq(Subscriber)
               /\ Len(w[j].callbacks) \in 1..CALLBACKS
    <3>1. Before(i, j) \in DOMAIN subs /\ w[j] = subs[Before(i, j)]
      BY <2>2 DEF Shortened
    <3> QED BY <3>1, SubsFacts
  <2>7. ASSUME NEW j \in DOMAIN w, NEW k \in DOMAIN w, w[j].topic = w[k].topic
        PROVE  j = k
    <3>1. Before(i, j) = Before(i, k)
      BY <2>2, <2>7 DEF Shortened, IsSubscriptions
    <3>2. i \in Int /\ j \in Int /\ k \in Int
      BY <1>2, <2>1, <2>2 DEF Shortened
    <3>3. Before(i, j) # i /\ Before(i, k) # i
      BY <2>2 DEF Shortened
    <3> QED BY <3>1, <3>2, <3>3 DEF Before
  <2>8. IsSubscriptions(w)
    BY <2>5, <2>6, <2>7 DEF IsSubscriptions
  <2> QED BY <2>3, <2>4, <2>8
<1>10. CASE left # <<>>
  <2> DEFINE w == [subs EXCEPT ![i].callbacks = left]
  <2>1. Unsubscribed(subs, topic, who) = w
    BY <1>7, <1>10
  <2> HIDE DEF left
  <2>2. Len(left) \in 1..CALLBACKS
    BY <1>3, <1>8, <1>10, PubSubAssumption
  <2>3. IsList(w) /\ IsSubscriptions(w)
    BY <1>2, <1>8, <2>2, CallbacksChanged
  <2> HIDE DEF w
  <2> QED BY <2>1, <2>3
<1> QED BY <1>9, <1>10

\* ServiceTable's add and remove.
LEMMA TableFacts ==
  ASSUME NEW table, IsList(table), IsServiceTable(table)
  PROVE  /\ \A service : \A handler \in Handler :
              /\ IsList(ServiceAdded(table, service, handler))
              /\ IsServiceTable(ServiceAdded(table, service, handler))
         /\ \A service :
              /\ IsList(WithoutFirst(table, Listed(table, service)))
              /\ IsServiceTable(WithoutFirst(table, Listed(table, service)))
<1>0. SERVICES \in Nat /\ Len(table) <= SERVICES
  BY PubSubAssumption DEF IsServiceTable
<1>1. ASSUME NEW service, NEW handler \in Handler
      PROVE  /\ IsList(ServiceAdded(table, service, handler))
             /\ IsServiceTable(ServiceAdded(table, service, handler))
  <2> DEFINE e == [name |-> service, handler |-> handler]
             w == AppendUpTo(table, SERVICES, e)
  <2>1. ServiceAdded(table, service, handler) = w
    BY DEF ServiceAdded
  <2>2. e.handler \in Handler
    OBVIOUS
  <2> HIDE DEF e
  <2>3. GrownTo(w, table, SERVICES, e)
    BY <1>0, AppendUpToList
  <2> HIDE DEF w
  <2>4. IsList(w) /\ IsServiceTable(w)
    BY <2>2, <2>3 DEF GrownTo, IsServiceTable
  <2> QED BY <2>1, <2>4
<1>2. ASSUME NEW service
      PROVE  /\ IsList(WithoutFirst(table, Listed(table, service)))
             /\ IsServiceTable(WithoutFirst(table, Listed(table, service)))
  <2> DEFINE I == Listed(table, service)
             w == WithoutFirst(table, I)
  <2>1. I \in SUBSET DOMAIN table
    BY DEF Listed
  <2> HIDE DEF I
  <2>2. CASE I = {}
    BY <2>2 DEF WithoutFirst, I
  <2>3. CASE I # {}
    <3>1. /\ IsList(w) /\ Len(w) = Len(table) - 1
          /\ \A j \in DOMAIN w : /\ Before(First(I), j) \in DOMAIN table
                                 /\ w[j] = table[Before(First(I), j)]
      BY <2>1, <2>3, WithoutFirstList
    <3>2. Len(table) \in Nat
      BY ListFacts
    <3> HIDE DEF w
    <3>3. Len(w) <= SERVICES
      BY <1>0, <3>1, <3>2
    <3>4. IsServiceTable(w)
      BY <3>1, <3>3 DEF IsServiceTable
    <3> QED BY <3>1, <3>4 DEF w, I
  <2> QED BY <2>2, <2>3 DEF I
<1> QED BY <1>1, <1>2

------------------------------------------------------------------------------
(* The inductive invariant.  A node's requests are the questions it asked  *)
(* since it started that have not ended; an id tells apart the questions   *)
(* of a node since it started, because it counts back from the next one;   *)
(* and a publication that asks or answers is about a question its sender,  *)
(* or its target, asked under the id it carries.                           *)

IsNode(nd) ==
  /\ DOMAIN nd = NodeFields
  /\ IsList(nd.subs) /\ IsSubscriptions(nd.subs) /\ IsList(nd.table) /\ IsServiceTable(nd.table)
  /\ nd.request_count \in 0..IdWrap - 1 /\ nd.boots \in Nat
  /\ nd.now \in Clock /\ nd.next_sweep_ms \in Clock

Ending == {"answered", "expired", "forgotten"}
Ask ==
  [from : Node, boots : Nat, id : 0..IdWrap - 1, age : Nat, timeout : Nat,
   ends : Seq([how : Ending, re : Nat])]

\* The request r is of an open question of node n.
Asked(r, n, boots, log) ==
  /\ r.no \in DOMAIN log /\ log[r.no].from = n /\ log[r.no].boots = boots
  /\ log[r.no].id = r.id /\ log[r.no].ends = <<>>
RequestsInv(nd, n, log) ==
  /\ IsList(nd.requests) /\ IsRequests(nd.requests)
  /\ \A i \in DOMAIN nd.requests : Asked(nd.requests[i], n, nd.boots, log)
  /\ \A i, j \in DOMAIN nd.requests : nd.requests[i].id = nd.requests[j].id => i = j
  /\ \A k \in DOMAIN log :
       log[k].from = n /\ log[k].ends = <<>> => \E i \in DOMAIN nd.requests : nd.requests[i].no = k

WaitingInv(nd) ==
  /\ IsPower(nd.power)
  /\ \A i \in DOMAIN nd.power.waiting :
       \E j \in DOMAIN nd.requests : nd.power.waiting[i] = nd.requests[j].id

\* Len(log) is less than the number of ids.
Counted(id, count, asks) == \E d \in 1..asks : id = (count - d) % IdWrap
IdsInv(nd, n, log) ==
  \A k \in DOMAIN log :
    log[k].from = n =>
      /\ log[k].boots <= nd.boots
      /\ log[k].boots = nd.boots => Counted(log[k].id, nd.request_count, Len(log))

NodeInv(nd, n, log) ==
  IsNode(nd) /\ RequestsInv(nd, n, log) /\ WaitingInv(nd) /\ IdsInv(nd, n, log)

EndedRight(log, k, e) ==
  e.how = "answered" =>
    /\ e.re \in DOMAIN log /\ log[e.re].from = log[k].from
    /\ e.re # k => log[e.re].boots < log[k].boots
LogInv(log) ==
  /\ log \in Seq(Ask)
  /\ \A j, k \in DOMAIN log :
       log[j].from = log[k].from /\ log[j].boots = log[k].boots /\ log[j].id = log[k].id => j = k
  /\ \A k \in DOMAIN log :
       /\ Len(log[k].ends) <= 1
       /\ \A i \in DOMAIN log[k].ends : EndedRight(log, k, log[k].ends[i])

\* What a publication of src may say.
About(data, from, log) ==
  data.re \in DOMAIN log /\ log[data.re].from = from /\ log[data.re].id = data.id
Right(topic, data, src, log) ==
  \/ data.type = "plain" /\ ~data.whole
  \/ data.type = "request" /\ About(data, src, log)
  \/ data.type = "reply" /\ topic[2] = "/rep" /\ About(data, data.target, log)
FrameInv(f, log) ==
  /\ DOMAIN f = {"no", "scope", "src", "body"}
  /\ f.body.kind = "pub" => f.scope = "global" /\ Right(f.body.topic, f.body.data, f.src, log)
NetInv(links, log) ==
  /\ DOMAIN links = DOMAIN Peer
  /\ \A l \in DOMAIN links :
       IsList(links[l]) /\ \A i \in DOMAIN links[l] : FrameInv(links[l][i], log)

IInv ==
  /\ mix \in Mixes /\ inputs \in Nat /\ inputs <= mix.max
  /\ Len(asked) <= inputs
  /\ DOMAIN node = Node /\ \A n \in Node : NodeInv(node[n], n, asked)
  /\ LogInv(asked) /\ NetInv(net, asked)

------------------------------------------------------------------------------
(* What stays true while questions are asked and end. *)

\* The same questions, whatever their ages and ends are now.
SameAsk(log, k, other) ==
  /\ other[k].from = log[k].from /\ other[k].boots = log[k].boots
  /\ other[k].id = log[k].id /\ other[k].timeout = log[k].timeout
SameAsks(log, other) ==
  /\ other \in Seq(Ask) /\ Len(other) = Len(log) /\ DOMAIN other = DOMAIN log
  /\ \A k \in DOMAIN log : SameAsk(log, k, other)
\* The same questions of node m, in a log that may have more of others.
KeptFor(m, log, other) ==
  /\ DOMAIN log \subseteq DOMAIN other
  /\ \A k \in DOMAIN log : /\ SameAsk(log, k, other)
                           /\ log[k].from = m => other[k].ends = log[k].ends
  /\ \A k \in DOMAIN other : k \notin DOMAIN log => other[k].from # m

LEMMA AskFacts ==
  ASSUME NEW log \in Seq(Ask)
  PROVE  /\ Len(log) \in Nat /\ DOMAIN log = 1..Len(log)
         /\ \A k \in DOMAIN log :
              /\ log[k] \in Ask /\ log[k].from \in Node /\ log[k].boots \in Nat
              /\ log[k].id \in 0..IdWrap - 1 /\ log[k].age \in Nat /\ log[k].timeout \in Nat
              /\ log[k].ends \in Seq([how : Ending, re : Nat])
<1>1. /\ Len(log) \in Nat /\ DOMAIN log = 1..Len(log)
      /\ \A k \in DOMAIN log : log[k] \in Ask
  OBVIOUS
<1>2. ASSUME NEW a \in Ask
      PROVE  /\ a.from \in Node /\ a.boots \in Nat /\ a.id \in 0..IdWrap - 1 /\ a.age \in Nat
             /\ a.timeout \in Nat /\ a.ends \in Seq([how : Ending, re : Nat])
  BY DEF Ask
<1> QED BY <1>1, <1>2

\* Fewer asked, lower counts.
LEMMA CountedMore ==
  ASSUME NEW a \in Nat, NEW b \in Nat, a <= b, NEW id, NEW count, Counted(id, count, a)
  PROVE  Counted(id, count, b)
BY DEF Counted

\* A node whose questions stay as they are.
LEMMA NodeStays ==
  ASSUME NEW nd, NEW m, NEW log \in Seq(Ask), NEW other \in Seq(Ask),
         NodeInv(nd, m, log), KeptFor(m, log, other)
  PROVE  NodeInv(nd, m, other)
<1>1. Len(log) <= Len(other) /\ Len(log) \in Nat /\ Len(other) \in Nat
  BY AskFacts DEF KeptFor
<1>2. RequestsInv(nd, m, other)
  <2>1. ASSUME NEW i \in DOMAIN nd.requests
        PROVE  Asked(nd.requests[i], m, nd.boots, other)
    <3>1. Asked(nd.requests[i], m, nd.boots, log)
      BY DEF NodeInv, RequestsInv
    <3> QED BY <3>1 DEF Asked, KeptFor, SameAsk
  <2>2. ASSUME NEW k \in DOMAIN other, other[k].from = m, other[k].ends = <<>>
        PROVE  \E i \in DOMAIN nd.requests : nd.requests[i].no = k
    <3>1. k \in DOMAIN log /\ log[k].from = m /\ log[k].ends = <<>>
      BY <2>2 DEF KeptFor, SameAsk
    <3> QED BY <3>1 DEF NodeInv, RequestsInv
  <2> QED BY <2>1, <2>2 DEF NodeInv, RequestsInv
<1>3. IdsInv(nd, m, other)
  <2>1. ASSUME NEW k \in DOMAIN other, other[k].from = m
        PROVE  /\ other[k].boots <= nd.boots
               /\ other[k].boots = nd.boots => Counted(other[k].id, nd.request_count, Len(other))
    <3>1. k \in DOMAIN log /\ log[k].from = m /\ log[k].boots = other[k].boots
          /\ log[k].id = other[k].id
      BY <2>1 DEF KeptFor, SameAsk
    <3>2. /\ log[k].boots <= nd.boots
          /\ log[k].boots = nd.boots => Counted(log[k].id, nd.request_count, Len(log))
      BY <3>1 DEF NodeInv, IdsInv
    <3> QED BY <1>1, <3>1, <3>2, CountedMore
  <2> QED BY <2>1 DEF IdsInv
<1> QED BY <1>2, <1>3 DEF NodeInv

\* The log, when questions that end do so rightly and once.
LEMMA LogStays ==
  ASSUME NEW log, NEW other, LogInv(log), SameAsks(log, other),
         \A k \in DOMAIN log : \/ other[k].ends = log[k].ends
                               \/ \E e : other[k].ends = <<e>> /\ EndedRight(log, k, e)
  PROVE  LogInv(other)
<1>1. DOMAIN other = DOMAIN log /\ other \in Seq(Ask)
  BY DEF SameAsks
<1>2. ASSUME NEW k \in DOMAIN other
      PROVE  /\ Len(other[k].ends) <= 1
             /\ \A i \in DOMAIN other[k].ends : EndedRight(log, k, other[k].ends[i])
  <2>1. CASE other[k].ends = log[k].ends
    BY <1>1, <2>1 DEF LogInv
  <2>2. CASE \E e : other[k].ends = <<e>> /\ EndedRight(log, k, e)
    <3>1. PICK e : other[k].ends = <<e>> /\ EndedRight(log, k, e)
      BY <2>2
    <3>2. Len(<<e>>) = 1 /\ DOMAIN <<e>> = {1} /\ <<e>>[1] = e
      OBVIOUS
    <3> QED BY <3>1, <3>2
  <2> QED BY <1>1, <2>1, <2>2
<1>3. ASSUME NEW k \in DOMAIN other, NEW e, EndedRight(log, k, e)
      PROVE  EndedRight(other, k, e)
  <2>1. CASE e.how # "answered"
    BY <2>1 DEF EndedRight
  <2>2. CASE e.how = "answered"
    <3>1. e.re \in DOMAIN log
      BY <1>3, <2>2 DEF EndedRight
    <3>2. SameAsk(log, k, other) /\ SameAsk(log, e.re, other)
      BY <1>1, <3>1 DEF SameAsks
    <3> QED BY <1>1, <1>3, <2>2, <3>1, <3>2 DEF EndedRight, SameAsk
  <2> QED BY <2>1, <2>2
<1>4. ASSUME NEW j \in DOMAIN other, NEW k \in DOMAIN other,
             other[j].from = other[k].from, other[j].boots = other[k].boots,
             other[j].id = other[k].id
      PROVE  j = k
  <2>1. SameAsk(log, k, other) /\ SameAsk(log, j, other)
    BY <1>1 DEF SameAsks
  <2>2. log[j].from = log[k].from /\ log[j].boots = log[k].boots /\ log[j].id = log[k].id
    BY <1>4, <2>1 DEF SameAsk
  <2> QED BY <1>1, <2>2 DEF LogInv
<1> QED BY <1>1, <1>2, <1>3, <1>4 DEF LogInv

\* Frames, in a log with the same questions and perhaps more.
LEMMA FrameStays ==
  ASSUME NEW f, NEW log, NEW other, FrameInv(f, log), DOMAIN log \subseteq DOMAIN other,
         \A k \in DOMAIN log : SameAsk(log, k, other)
  PROVE  FrameInv(f, other)
<1>1. ASSUME NEW data, NEW from, About(data, from, log)
      PROVE  About(data, from, other)
  BY <1>1 DEF About, SameAsk
<1> QED BY <1>1 DEF FrameInv, Right

LEMMA NetStays ==
  ASSUME NEW links, NEW log, NEW other, NetInv(links, log), DOMAIN log \subseteq DOMAIN other,
         \A k \in DOMAIN log : SameAsk(log, k, other)
  PROVE  NetInv(links, other)
BY FrameStays DEF NetInv

\* transmit.
LEMMA SentStays ==
  ASSUME NEW links, NEW log, NetInv(links, log), NEW f, FrameInv(f, log), NEW n, NEW ports
  PROVE  NetInv(Sent(links, n, ports, f), log)
<1> DEFINE w == Sent(links, n, ports, f)
<1>1. /\ DOMAIN w = DOMAIN links
      /\ \A l \in DOMAIN links : w[l] = links[l] \/ w[l] = Append(links[l], f)
  BY DEF Sent
<1> HIDE DEF w
<1>2. ASSUME NEW l \in DOMAIN w
      PROVE  IsList(w[l]) /\ \A i \in DOMAIN w[l] : FrameInv(w[l][i], log)
  <2>1. IsList(links[l]) /\ \A i \in DOMAIN links[l] : FrameInv(links[l][i], log)
    BY <1>1 DEF NetInv
  <2>2. CASE w[l] = links[l]
    BY <2>1, <2>2
  <2>3. CASE w[l] = Append(links[l], f)
    <3> DEFINE q == Append(links[l], f)
    <3>1. /\ IsList(q) /\ DOMAIN q = 1..Len(links[l]) + 1
          /\ \A i \in DOMAIN links[l] : q[i] = links[l][i]
          /\ q[Len(links[l]) + 1] = f
      BY <2>1, AppendList
    <3>2. DOMAIN links[l] = 1..Len(links[l])
      BY <2>1, ListFacts
    <3>3. Len(links[l]) \in Nat
      BY <2>1, ListFacts
    <3> HIDE DEF q
    <3>4. ASSUME NEW i \in 1..Len(links[l]) + 1
          PROVE  i \in 1..Len(links[l]) \/ i = Len(links[l]) + 1
      BY <3>3
    <3>5. \A i \in DOMAIN q : FrameInv(q[i], log)
      BY <2>1, <3>1, <3>2, <3>4
    <3> QED BY <2>3, <3>1, <3>5 DEF q
  <2> QED BY <1>1, <2>2, <2>3
<1>3. NetInv(w, log)
  BY <1>1, <1>2 DEF NetInv
<1> QED BY <1>3 DEF w

\* What arrives, what is left, and what is passed on.
LEMMA RestStays ==
  ASSUME NEW log, NetInv(net, log), NEW l \in DOMAIN net, net[l] # <<>>
  PROVE  /\ FrameInv(Head(net[l]), log) /\ NetInv(Rest(l), log)
         /\ NetInv(Relayed(Rest(l), l, Head(net[l])), log)
<1> DEFINE w == [net EXCEPT ![l] = Tail(@)]
<1>1. IsList(net[l]) /\ \A i \in DOMAIN net[l] : FrameInv(net[l][i], log)
  BY DEF NetInv
<1>2. /\ IsList(Tail(net[l])) /\ 1 \in DOMAIN net[l] /\ Head(net[l]) = net[l][1]
      /\ \A i \in DOMAIN Tail(net[l]) : i + 1 \in DOMAIN net[l] /\ Tail(net[l])[i] = net[l][i + 1]
  BY <1>1, TailList
<1>3. FrameInv(Head(net[l]), log)
  BY <1>1, <1>2
<1>4. DOMAIN w = DOMAIN net /\ w[l] = Tail(net[l]) /\ \A k \in DOMAIN net : k # l => w[k] = net[k]
  OBVIOUS
<1> HIDE DEF w
<1>5. ASSUME NEW k \in DOMAIN w
      PROVE  IsList(w[k]) /\ \A i \in DOMAIN w[k] : FrameInv(w[k][i], log)
  <2>1. CASE k = l
    BY <1>1, <1>2, <1>4, <2>1
  <2>2. CASE k # l
    BY <1>4, <2>2 DEF NetInv
  <2> QED BY <2>1, <2>2
<1>6. NetInv(w, log)
  BY <1>4, <1>5 DEF NetInv
<1>7. NetInv(Rest(l), log)
  BY <1>6 DEF Rest, w
<1> DEFINE links == Rest(l)
           f == Head(net[l])
<1>8. NetInv(links, log) /\ FrameInv(f, log)
  BY <1>3, <1>7
<1> HIDE DEF links, f
<1>9. NetInv(Relayed(links, l, f), log)
  BY <1>8, SentStays DEF Relayed
<1> QED BY <1>3, <1>7, <1>9 DEF links, f

------------------------------------------------------------------------------
(* What the operations on a node's lists do to the invariant. *)

SameRequests(nd, w) ==
  /\ w.requests = nd.requests /\ w.power = nd.power /\ w.request_count = nd.request_count
  /\ w.boots = nd.boots /\ w.now = nd.now /\ w.next_sweep_ms = nd.next_sweep_ms

LEMMA NodeSame ==
  ASSUME NEW nd, NEW n, NEW log, NodeInv(nd, n, log), NEW w, IsNode(w), SameRequests(nd, w)
  PROVE  NodeInv(w, n, log)
BY DEF NodeInv, RequestsInv, WaitingInv, IdsInv, SameRequests

\* Advertising changes neither topics, nor services, nor requests.
LEMMA AdvertisedFacts ==
  ASSUME NEW nd, IsNode(nd), NEW topic, NEW kind
  PROVE  IsNode(Advertised(nd, topic, kind)) /\ SameRequests(nd, Advertised(nd, topic, kind))
<1> DEFINE e == AppendUpTo(nd.resources, RESOURCES, [topic |-> topic, kind |-> kind])
           w == [nd EXCEPT !.resources = e]
<1>1. Advertised(nd, topic, kind) = nd \/ Advertised(nd, topic, kind) = w
  BY DEF Advertised
<1> HIDE DEF e
<1>2. IsNode(w) /\ SameRequests(nd, w)
  BY DEF IsNode, SameRequests, NodeFields
<1>3. SameRequests(nd, nd)
  BY DEF SameRequests
<1> HIDE DEF w
<1> QED BY <1>1, <1>2, <1>3

\* subscribe_as.
LEMMA SubscribeAsFacts ==
  ASSUME NEW nd, IsNode(nd), NEW topic, NEW who \in Subscriber
  PROVE  IsNode(SubscribeAs(nd, topic, who)) /\ SameRequests(nd, SubscribeAs(nd, topic, who))
<1>1. CASE SubscribeRefused(nd.subs, topic, who)
  BY <1>1 DEF SubscribeAs, SameRequests
<1>2. CASE ~SubscribeRefused(nd.subs, topic, who)
  <2> DEFINE s == Subscribed(nd.subs, topic, who)
             v == [nd EXCEPT !.subs = s]
             w == Advertised(v, topic, "Subscriber")
  <2>1. SubscribeAs(nd, topic, who) = w
    BY <1>2 DEF SubscribeAs
  <2>2. IsList(s) /\ IsSubscriptions(s)
    BY <1>2, SubscribedFacts DEF IsNode
  <2> HIDE DEF s
  <2>3. IsNode(v) /\ SameRequests(nd, v)
    BY <2>2 DEF IsNode, SameRequests, NodeFields
  <2> HIDE DEF v
  <2>4. IsNode(w) /\ SameRequests(v, w)
    BY <2>3, AdvertisedFacts
  <2> HIDE DEF w
  <2> QED BY <2>1, <2>3, <2>4 DEF SameRequests
<1> QED BY <1>1, <1>2

\* The list w is q without the elements at G.
Left(w, q, G) ==
  /\ IsList(w) /\ Len(w) <= Len(q)
  /\ \A j \in DOMAIN w : \E i \in DOMAIN q \ G : w[j] = q[i]
  /\ \A i \in DOMAIN q \ G : \E j \in DOMAIN w : w[j] = q[i]
  /\ \A i, j \in DOMAIN w : w[i].id = w[j].id => i = j
\* Their questions have ended, the others are as they were.
EndedAt(log, other, q, G) ==
  /\ SameAsks(log, other)
  /\ \A i \in G : other[q[i].no].ends # <<>>
  /\ \A k \in DOMAIN log : (\A i \in G : q[i].no # k) => other[k].ends = log[k].ends

\* take and on_tick: the requests that go are those whose questions end.
LEMMA RequestsGo ==
  ASSUME NEW nd, NEW n, NEW log \in Seq(Ask), NEW other, RequestsInv(nd, n, log),
         NEW G \in SUBSET DOMAIN nd.requests, EndedAt(log, other, nd.requests, G),
         NEW w, w.boots = nd.boots, Left(w.requests, nd.requests, G)
  PROVE  RequestsInv(w, n, other)
<1> DEFINE q == nd.requests
           v == w.requests
<1>1. /\ IsList(q) /\ IsRequests(q) /\ \A i \in DOMAIN q : Asked(q[i], n, nd.boots, log)
      /\ \A i, j \in DOMAIN q : q[i].id = q[j].id => i = j
      /\ \A k \in DOMAIN log :
           log[k].from = n /\ log[k].ends = <<>> => \E i \in DOMAIN q : q[i].no = k
  BY DEF RequestsInv
<1>2. /\ IsList(v) /\ Len(v) <= Len(q)
      /\ \A j \in DOMAIN v : \E i \in DOMAIN q \ G : v[j] = q[i]
      /\ \A i \in DOMAIN q \ G : \E j \in DOMAIN v : v[j] = q[i]
      /\ \A i, j \in DOMAIN v : v[i].id = v[j].id => i = j
  BY DEF Left
<1>3. /\ DOMAIN other = DOMAIN log /\ \A k \in DOMAIN log : SameAsk(log, k, other)
      /\ \A i \in G : other[q[i].no].ends # <<>>
      /\ \A k \in DOMAIN log : (\A i \in G : q[i].no # k) => other[k].ends = log[k].ends
  BY DEF EndedAt, SameAsks
<1>4. IsRequests(v)
  <2>1. Len(v) \in Nat /\ Len(q) \in Nat
    BY <1>1, <1>2, ListFacts
  <2>2. Len(v) <= SERVICE_REQUESTS
    BY <1>1, <1>2, <2>1, PubSubAssumption DEF IsRequests
  <2> HIDE DEF q, v
  <2> QED BY <1>1, <1>2, <2>2 DEF IsRequests
<1> HIDE DEF q, v
<1>5. ASSUME NEW j \in DOMAIN v
      PROVE  Asked(v[j], n, nd.boots, other)
  <2>1. PICK i \in DOMAIN q \ G : v[j] = q[i]
    BY <1>2
  <2>2. Asked(q[i], n, nd.boots, log)
    BY <1>1
  <2>3. ASSUME NEW g \in G, q[g].no = q[i].no
        PROVE  FALSE
    <3>1. g \in DOMAIN q /\ Asked(q[g], n, nd.boots, log)
      BY <1>1 DEF q
    <3>2. q[g].id = q[i].id
      BY <2>2, <2>3, <3>1 DEF Asked
    <3> QED BY <1>1, <3>1, <3>2
  <2>4. other[q[i].no].ends = log[q[i].no].ends
    BY <1>3, <2>2, <2>3 DEF Asked
  <2> QED BY <1>3, <2>1, <2>2, <2>4 DEF Asked, SameAsk
<1>6. ASSUME NEW k \in DOMAIN other, other[k].from = n, other[k].ends = <<>>
      PROVE  \E j \in DOMAIN v : v[j].no = k
  <2>1. \A i \in G : q[i].no # k
    BY <1>3, <1>6
  <2>2. log[k].from = n /\ log[k].ends = <<>>
    BY <1>3, <1>6, <2>1 DEF SameAsk
  <2>3. PICK i \in DOMAIN q : q[i].no = k
    BY <1>1, <1>3, <2>2
  <2> QED BY <1>2, <2>1, <2>3
<1> QED BY <1>2, <1>4, <1>5, <1>6 DEF RequestsInv, v

------------------------------------------------------------------------------
(* An answer. *)

\* A publication that says it is a reply is about a question of its target.
RightReply(data, log) == data.type = "reply" => About(data, data.target, log)
\* What an answer leaves of the rest of a node.
SameNode(nd, w) ==
  /\ w.request_count = nd.request_count /\ w.boots = nd.boots /\ w.now = nd.now
  /\ w.next_sweep_ms = nd.next_sweep_ms
\* What changes when requests of a node end: some, listed before, are not listed.
Ends(nd, w, log, other) ==
  /\ SameAsks(log, other)
  /\ \A j \in DOMAIN w.requests : \E i \in DOMAIN nd.requests : w.requests[j] = nd.requests[i]
  /\ \A k \in DOMAIN log :
       /\ other[k].age = log[k].age
       /\ \/ other[k].ends = log[k].ends
          \/ \E i \in DOMAIN nd.requests :
               /\ nd.requests[i].no = k
               /\ \A x \in DOMAIN other[k].ends : other[k].ends[x].how = "answered"

\* The question of a log that ends.
LEMMA LogEnds ==
  ASSUME NEW log \in Seq(Ask), NEW k \in DOMAIN log, log[k].ends = <<>>,
         NEW e \in [how : Ending, re : Nat]
  PROVE  LET other == [log EXCEPT ![k].ends = Append(@, e)]
         IN  /\ SameAsks(log, other) /\ other[k].ends = <<e>> /\ other[k].age = log[k].age
             /\ \A j \in DOMAIN log : j # k => other[j] = log[j]
<1> DEFINE other == [log EXCEPT ![k].ends = Append(@, e)]
           a == [log[k] EXCEPT !.ends = Append(@, e)]
<1>1. log[k] \in Ask
  OBVIOUS
<1>2. /\ DOMAIN other = DOMAIN log /\ other[k] = a
      /\ \A j \in DOMAIN log : j # k => other[j] = log[j]
  OBVIOUS
<1>3. /\ a.from = log[k].from /\ a.boots = log[k].boots /\ a.id = log[k].id
      /\ a.timeout = log[k].timeout /\ a.age = log[k].age /\ a.ends = Append(<<>>, e)
  BY <1>1 DEF Ask
<1>4. Append(<<>>, e) = <<e>> /\ <<e>> \in Seq([how : Ending, re : Nat])
  OBVIOUS
<1>5. a \in Ask
  <2>1. a = [log[k] EXCEPT !.ends = <<e>>]
    BY <1>4
  <2> QED BY <1>1, <1>4, <2>1 DEF Ask
<1>6. Len(log) \in Nat /\ DOMAIN log = 1..Len(log) /\ \A j \in DOMAIN log : log[j] \in Ask
  BY AskFacts
<1>7. other = [j \in 1..Len(log) |-> other[j]]
  BY <1>6
<1> HIDE DEF other, a
<1>8. \A j \in 1..Len(log) : other[j] \in Ask
  BY <1>2, <1>5, <1>6
<1>9. other \in [1..Len(log) -> Ask]
  BY <1>7, <1>8
<1>10. other \in Seq(Ask) /\ Len(other) = Len(log)
  BY <1>6, <1>9
<1>11. ASSUME NEW j \in DOMAIN log
       PROVE  SameAsk(log, j, other)
  <2>1. CASE j = k
    BY <1>2, <1>3, <2>1 DEF SameAsk
  <2>2. CASE j # k
    BY <1>2, <2>2 DEF SameAsk
  <2> QED BY <2>1, <2>2
<1>12. SameAsks(log, other)
  BY <1>2, <1>10, <1>11 DEF SameAsks
<1> QED BY <1>2, <1>3, <1>4, <1>12 DEF other

\* on_reply: the request the id finds is the one the answer is to, or one made
\* since its node restarted.
LEMMA AnswerStep ==
  ASSUME NEW nd, NEW n \in Node, NEW log, NodeInv(nd, n, log), LogInv(log),
         NEW topic, NEW data, RightReply(data, log)
  PROVE  LET found == Answers(nd, n, topic, data)
             w == AnswerRequest(nd, found)
             other == EndedBy(log, nd, found, "answered", data.re)
         IN  /\ NodeInv(w, n, other) /\ LogInv(other) /\ Ends(nd, w, log, other)
             /\ SameNode(nd, w) /\ \A m : m # n => KeptFor(m, log, other)
<1> DEFINE found == Answers(nd, n, topic, data)
           w == AnswerRequest(nd, found)
           other == EndedBy(log, nd, found, "answered", data.re)
<1>l. log \in Seq(Ask)
  BY DEF LogInv
<1>1. CASE found = {}
  <2>1. w = nd /\ other = log
    BY <1>1 DEF AnswerRequest, EndedBy
  <2>2. SameAsks(log, log)
    BY <1>l DEF SameAsks, SameAsk
  <2>3. Ends(nd, nd, log, log) /\ SameNode(nd, nd)
    BY <2>2 DEF Ends, SameNode
  <2>4. \A m : KeptFor(m, log, log)
    BY DEF KeptFor, SameAsk
  <2> HIDE DEF found, w, other
  <2>5. /\ NodeInv(w, n, other) /\ LogInv(other) /\ Ends(nd, w, log, other)
        /\ SameNode(nd, w) /\ \A m : m # n => KeptFor(m, log, other)
    BY <2>1, <2>3, <2>4
  <2> QED BY <2>5 DEF found, w, other
<1>2. CASE found # {}
  <2>1. /\ found = WithId(nd.requests, data.id) /\ data.type = "reply" /\ data.target = n
    BY <1>2 DEF Answers
  <2> DEFINE q == nd.requests
             at == First(found)
             r == q[at]
             k == r.no
             v == WithoutFirst(q, found)
             p == EndedFor(nd.power, r.id)
             e == [how |-> "answered", re |-> data.re]
  <2>2. /\ IsList(q) /\ \A i \in DOMAIN q : Asked(q[i], n, nd.boots, log)
        /\ \A i, j \in DOMAIN q : q[i].id = q[j].id => i = j
    BY DEF NodeInv, RequestsInv
  <2>3. found \in SUBSET DOMAIN q
    BY <2>1 DEF WithId
  <2>4. /\ at \in found /\ IsList(v) /\ Len(v) = Len(q) - 1
        /\ \A j \in DOMAIN v : /\ Before(at, j) \in DOMAIN q /\ Before(at, j) # at
                               /\ v[j] = q[Before(at, j)]
        /\ \A i \in DOMAIN q : i # at => \E j \in DOMAIN v : Before(at, j) = i
        /\ DOMAIN v = 1..Len(q) - 1
    BY <1>2, <2>2, <2>3, WithoutFirstList
  <2>5. at \in DOMAIN q /\ r.id = data.id
    BY <2>1, <2>3, <2>4 DEF WithId
  <2>6. w = [nd EXCEPT !.requests = v, !.power = p]
    BY <1>2 DEF AnswerRequest
  <2>7. other = [log EXCEPT ![k].ends = Append(@, e)]
    BY <1>2 DEF EndedBy
  <2>8. /\ k \in DOMAIN log /\ log[k].from = n /\ log[k].boots = nd.boots /\ log[k].id = data.id
        /\ log[k].ends = <<>>
    BY <2>2, <2>5 DEF Asked
  <2>9. data.re \in DOMAIN log /\ log[data.re].from = n /\ log[data.re].id = data.id
    BY <2>1 DEF RightReply, About
  <2>10. e \in [how : Ending, re : Nat]
    <3>1. data.re \in Nat
      BY <1>l, <2>9, AskFacts
    <3> QED BY <3>1 DEF Ending
  <2>11. EndedRight(log, k, e)
    <3>1. ASSUME data.re # k
          PROVE  log[data.re].boots < log[k].boots
      <4>1. log[data.re].boots <= nd.boots
        BY <2>9 DEF NodeInv, IdsInv
      <4>2. log[data.re].boots # nd.boots
        BY <2>8, <2>9, <3>1 DEF LogInv
      <4>3. log[data.re].boots \in Nat /\ nd.boots \in Nat
        BY <1>l, <2>9, AskFacts DEF NodeInv, IsNode
      <4> QED BY <2>8, <4>1, <4>2, <4>3
    <3> QED BY <2>8, <2>9, <3>1 DEF EndedRight
  <2> HIDE DEF found, e
  <2>12. /\ SameAsks(log, other) /\ other[k].ends = <<e>> /\ other[k].age = log[k].age
         /\ \A j \in DOMAIN log : j # k => other[j] = log[j]
    <3> DEFINE z == [log EXCEPT ![k].ends = Append(@, e)]
    <3>1. other = z
      BY <2>7
    <3>2. k \in DOMAIN log /\ log[k].ends = <<>>
      BY <2>8
    <3> HIDE DEF k, other
    <3>3. /\ SameAsks(log, z) /\ z[k].ends = <<e>> /\ z[k].age = log[k].age
          /\ \A j \in DOMAIN log : j # k => z[j] = log[j]
      BY <1>l, <2>10, <3>2, LogEnds
    <3> HIDE DEF z
    <3> QED BY <3>1, <3>3
  <2>13. /\ DOMAIN w = DOMAIN nd /\ w.requests = v /\ w.power = p /\ SameNode(nd, w)
         /\ w.subs = nd.subs /\ w.table = nd.table
    BY <2>6 DEF NodeInv, IsNode, NodeFields, SameNode
  <2> HIDE DEF w, other, v, p
  <2>14. LogInv(other)
    <3>1. \A j \in DOMAIN log : \/ other[j].ends = log[j].ends
                                \/ \E x : other[j].ends = <<x>> /\ EndedRight(log, j, x)
      BY <2>11, <2>12
    <3> QED BY <2>12, <3>1, LogStays
  <2>15. Left(v, q, {at})
    <3>1. Len(q) \in Nat
      BY <2>2, ListFacts
    <3>2. Len(v) <= Len(q)
      BY <2>4, <3>1
    <3>3. ASSUME NEW i \in DOMAIN v, NEW j \in DOMAIN v, v[i].id = v[j].id
          PROVE  i = j
      <4>1. Before(at, i) = Before(at, j)
        BY <2>2, <2>4, <3>3
      <4>2. at \in Int
        <5>1. DOMAIN q = 1..Len(q)
          BY <2>2, ListFacts
        <5> QED BY <2>5, <5>1
      <4>3. i \in Int /\ j \in Int
        BY <2>4
      <4> HIDE DEF at
      <4> QED BY <2>4, <4>1, <4>2, <4>3 DEF Before
    <3> QED BY <2>4, <3>2, <3>3 DEF Left
  <2>16. EndedAt(log, other, q, {at})
    <3>1. other[k].ends # <<>>
      BY <2>12
    <3>2. ASSUME NEW j \in DOMAIN log, q[at].no # j
          PROVE  other[j].ends = log[j].ends
      BY <2>12, <3>2
    <3> QED BY <2>12, <3>1, <3>2 DEF EndedAt
  <2>17. RequestsInv(w, n, other)
    <3>1. {at} \in SUBSET DOMAIN nd.requests /\ w.boots = nd.boots
      BY <2>5, <2>13 DEF SameNode
    <3>2. RequestsInv(nd, n, log)
      BY DEF NodeInv
    <3>3. Left(w.requests, nd.requests, {at}) /\ EndedAt(log, other, nd.requests, {at})
      BY <2>13, <2>15, <2>16
    <3> HIDE DEF at
    <3> QED BY <1>l, <3>1, <3>2, <3>3, RequestsGo
  <2>18. WaitingInv(w)
    <3>1. IsPower(nd.power)
      BY DEF NodeInv, WaitingInv
    <3>2. /\ IsPower(p)
          /\ \A i \in DOMAIN p.waiting :
               /\ p.waiting[i] # r.id
               /\ \E j \in DOMAIN nd.power.waiting : p.waiting[i] = nd.power.waiting[j]
      BY <3>1, EndedFacts DEF p
    <3>3. ASSUME NEW i \in DOMAIN p.waiting
          PROVE  \E j \in DOMAIN v : p.waiting[i] = v[j].id
      <4>1. PICK j \in DOMAIN q : p.waiting[i] = q[j].id
        BY <3>2 DEF NodeInv, WaitingInv
      <4>2. j # at
        BY <3>2, <4>1
      <4> QED BY <2>4, <4>1, <4>2
    <3> QED BY <2>13, <3>2, <3>3 DEF WaitingInv
  <2>19. IsNode(w)
    BY <2>13 DEF NodeInv, IsNode, SameNode
  <2>20. IdsInv(w, n, other)
    BY <2>12, <2>13 DEF NodeInv, IdsInv, SameAsks, SameAsk, SameNode
  <2>21. \A m : m # n => KeptFor(m, log, other)
    BY <2>8, <2>12 DEF KeptFor, SameAsks
  <2>22. Ends(nd, w, log, other)
    <3>1. \A j \in DOMAIN w.requests : \E i \in DOMAIN q : w.requests[j] = q[i]
      BY <2>4, <2>13
    <3>2. other[k].ends = <<e>> /\ e.how = "answered"
      BY <2>12 DEF e
    <3>3. \A x \in DOMAIN <<e>> : <<e>>[x] = e
      OBVIOUS
    <3>4. \A x \in DOMAIN other[k].ends : other[k].ends[x].how = "answered"
      BY <3>2, <3>3
    <3> QED BY <2>5, <2>12, <3>1, <3>4 DEF Ends
  <2> QED BY <2>13, <2>14, <2>17, <2>18, <2>19, <2>20, <2>21, <2>22 DEF NodeInv, found, w, other
<1> QED BY <1>1, <1>2

------------------------------------------------------------------------------
(* The sweep.  Its definition recurs over the list; that the recursion has  *)
(* a value at all is by induction on the length of the list, which a least  *)
(* number gives: a set of numbers has one.                                  *)

LEMMA Induct ==
  ASSUME NEW S, 0 \in S, \A n \in Nat : n \in S => n + 1 \in S
  PROVE  Nat \subseteq S
<1> DEFINE T == Nat \ S
<1> SUFFICES ASSUME T # {} PROVE FALSE
  OBVIOUS
<1>1. T \in SUBSET Nat
  OBVIOUS
<1>2. PICK x \in T : \A y \in T : ~(<<y, x>> \in OpToRel(<, Nat))
  <2> HIDE DEF T
  <2> QED BY <1>1, WFMin, NatLessThanWellFounded, Zenon
<1>3. \A y \in T : ~(y < x)
  BY <1>2, Zenon DEF OpToRel
<1>4. x # 0 /\ x - 1 \in Nat
  OBVIOUS
<1>5. x - 1 \in S
  BY <1>3, <1>4
<1> QED BY <1>4, <1>5

\* f goes through the first n requests.
Passes(nd, f, n) ==
  f = [i \in 0..n |-> IF i = 0 THEN [nd EXCEPT !.requests = <<>>]
                      ELSE SweptPast(f[i - 1], nd.requests[i])]

LEMMA PassesExist ==
  ASSUME NEW nd
  PROVE  \A n \in Nat : \E f : Passes(nd, f, n)
<1> DEFINE S == {n \in Nat : \E f : Passes(nd, f, n)}
           none == [nd EXCEPT !.requests = <<>>]
<1>1. 0 \in S
  <2> DEFINE f == [i \in 0..0 |-> none]
  <2> HIDE DEF none
  <2>1. f = [i \in 0..0 |-> IF i = 0 THEN none ELSE SweptPast(f[i - 1], nd.requests[i])]
    OBVIOUS
  <2> HIDE DEF f
  <2>2. Passes(nd, f, 0)
    BY <2>1 DEF Passes, none
  <2> QED BY <2>2
<1>2. ASSUME NEW n \in Nat, n \in S
      PROVE  n + 1 \in S
  <2>1. PICK f : Passes(nd, f, n)
    BY <1>2
  <2> DEFINE g == [i \in 0..n + 1 |->
                     IF i <= n THEN f[i] ELSE SweptPast(f[n], nd.requests[n + 1])]
  <2> HIDE DEF none
  <2>2. \A i \in 0..n : g[i] = f[i]
    OBVIOUS
  <2>3. f = [i \in 0..n |-> IF i = 0 THEN none ELSE SweptPast(f[i - 1], nd.requests[i])]
    BY <2>1 DEF Passes, none
  <2>4. ASSUME NEW i \in 0..n + 1
        PROVE  g[i] = IF i = 0 THEN none ELSE SweptPast(g[i - 1], nd.requests[i])
    <3>1. CASE i = 0
      BY <2>3, <3>1
    <3>2. CASE i \in 1..n
      <4>1. i \in 0..n /\ i - 1 \in 0..n
        BY <3>2
      <4>2. f[i] = SweptPast(f[i - 1], nd.requests[i])
        BY <2>3, <3>2, <4>1
      <4> QED BY <2>2, <3>2, <4>1, <4>2
    <3>3. CASE i = n + 1
      BY <2>2, <3>3
    <3> QED BY <3>1, <3>2, <3>3
  <2>5. Passes(nd, g, n + 1)
    <3>1. g = [i \in 0..n + 1 |-> g[i]]
      OBVIOUS
    <3> HIDE DEF g
    <3>2. [i \in 0..n + 1 |-> g[i]]
            = [i \in 0..n + 1 |-> IF i = 0 THEN none ELSE SweptPast(g[i - 1], nd.requests[i])]
      BY <2>4
    <3> QED BY <3>1, <3>2 DEF Passes, none
  <2> HIDE DEF g
  <2> QED BY <2>5
<1> HIDE DEF S
<1>3. Nat \subseteq S
  BY <1>1, <1>2, Induct
<1> QED BY <1>3 DEF S

\* on_tick goes through all of them, from the first.
LEMMA SweptFacts ==
  ASSUME NEW nd, Len(nd.requests) \in Nat
  PROVE  \E f : /\ Swept(nd) = f[Len(nd.requests)]
                /\ f[0] = [nd EXCEPT !.requests = <<>>]
                /\ \A i \in 1..Len(nd.requests) : f[i] = SweptPast(f[i - 1], nd.requests[i])
<1> DEFINE n == Len(nd.requests)
           none == [nd EXCEPT !.requests = <<>>]
           f == CHOOSE f : f = [i \in 0..n |-> IF i = 0 THEN none
                                               ELSE SweptPast(f[i - 1], nd.requests[i])]
<1>1. \E h : h = [i \in 0..n |-> IF i = 0 THEN none ELSE SweptPast(h[i - 1], nd.requests[i])]
  BY PassesExist DEF Passes
<1>2. f = [i \in 0..n |-> IF i = 0 THEN none ELSE SweptPast(f[i - 1], nd.requests[i])]
  BY <1>1
<1>3. Swept(nd) = f[n]
  BY DEF Swept
<1> HIDE DEF f, n, none
<1>4. n \in Nat
  BY DEF n
<1>5. f[0] = none /\ \A i \in 1..n : f[i] = SweptPast(f[i - 1], nd.requests[i])
  BY <1>2, <1>4
<1> QED BY <1>3, <1>5 DEF n, none

\* After i requests: those of them that live are listed, in w, and what waits
\* is for one of those or for one not looked at yet.
PassInv(nd, w, i) ==
  /\ DOMAIN w = NodeFields /\ SameNode(nd, w) /\ w.subs = nd.subs /\ w.table = nd.table
  /\ IsList(w.requests) /\ Len(w.requests) <= i
  /\ \A j \in DOMAIN w.requests :
       \E k \in 1..i : w.requests[j] = nd.requests[k] /\ ~ExpiredAt(nd.requests[k], nd.now)
  /\ \A k \in 1..i :
       ~ExpiredAt(nd.requests[k], nd.now) => \E j \in DOMAIN w.requests : w.requests[j] = nd.requests[k]
  /\ \A j, k \in DOMAIN w.requests : w.requests[j].id = w.requests[k].id => j = k
  /\ IsPower(w.power)
  /\ \A x \in DOMAIN w.power.waiting :
       \/ \E j \in DOMAIN w.requests : w.power.waiting[x] = w.requests[j].id
       \/ \E k \in i + 1..Len(nd.requests) : w.power.waiting[x] = nd.requests[k].id

LEMMA SweptPastFacts ==
  ASSUME NEW nd, NEW n, NEW log, NodeInv(nd, n, log), NEW w, NEW i \in Nat,
         i < Len(nd.requests), PassInv(nd, w, i)
  PROVE  PassInv(nd, SweptPast(w, nd.requests[i + 1]), i + 1)
<1> DEFINE q == nd.requests
           r == q[i + 1]
           z == SweptPast(w, r)
           p == EndedFor(w.power, r.id)
           v == Append(w.requests, r)
<1>1. IsList(q) /\ \A j, k \in DOMAIN q : q[j].id = q[k].id => j = k
  BY DEF NodeInv, RequestsInv
<1>2. Len(q) \in Nat
  BY <1>1, ListFacts
<1>3. DOMAIN q = 1..Len(q)
  BY <1>1, ListFacts
<1>4. i + 1 \in DOMAIN q /\ \A k \in 1..i : k \in DOMAIN q /\ k # i + 1
  BY <1>2, <1>3
<1>5. /\ DOMAIN w = NodeFields /\ SameNode(nd, w) /\ w.subs = nd.subs /\ w.table = nd.table
      /\ IsList(w.requests) /\ Len(w.requests) <= i
      /\ \A j \in DOMAIN w.requests :
           \E k \in 1..i : w.requests[j] = q[k] /\ ~ExpiredAt(q[k], nd.now)
      /\ \A k \in 1..i :
           ~ExpiredAt(q[k], nd.now) => \E j \in DOMAIN w.requests : w.requests[j] = q[k]
      /\ \A j, k \in DOMAIN w.requests : w.requests[j].id = w.requests[k].id => j = k
      /\ IsPower(w.power)
      /\ \A x \in DOMAIN w.power.waiting :
           \/ \E j \in DOMAIN w.requests : w.power.waiting[x] = w.requests[j].id
           \/ \E k \in i + 1..Len(q) : w.power.waiting[x] = q[k].id
  BY DEF PassInv
<1>6. w.now = nd.now /\ Len(w.requests) \in Nat
  BY <1>5, ListFacts DEF SameNode
<1>7. \A k \in 1..i + 1 : k \in 1..i \/ k = i + 1
  OBVIOUS
<1>8. \A k \in i + 1..Len(q) : k = i + 1 \/ k \in i + 2..Len(q)
  BY <1>2
<1>9. CASE ExpiredAt(r, nd.now)
  <2>1. z = [w EXCEPT !.power = p]
    BY <1>6, <1>9 DEF SweptPast
  <2>2. /\ DOMAIN z = NodeFields /\ SameNode(nd, z) /\ z.subs = nd.subs /\ z.table = nd.table
        /\ z.requests = w.requests /\ z.power = p
    BY <1>5, <2>1 DEF SameNode, NodeFields
  <2>3. /\ IsPower(p)
        /\ \A x \in DOMAIN p.waiting :
             /\ p.waiting[x] # r.id
             /\ \E y \in DOMAIN w.power.waiting : p.waiting[x] = w.power.waiting[y]
    BY <1>5, EndedFacts
  <2> HIDE DEF z, p, r, q
  <2>4. Len(z.requests) <= i + 1
    BY <1>5, <1>6, <2>2
  <2>5. ASSUME NEW x \in DOMAIN p.waiting
        PROVE  \/ \E j \in DOMAIN w.requests : p.waiting[x] = w.requests[j].id
               \/ \E k \in i + 2..Len(q) : p.waiting[x] = q[k].id
    <3>1. PICK y \in DOMAIN w.power.waiting : p.waiting[x] = w.power.waiting[y]
      BY <2>3
    <3>2. CASE \E j \in DOMAIN w.requests : w.power.waiting[y] = w.requests[j].id
      BY <3>1, <3>2
    <3>3. CASE \E k \in i + 1..Len(q) : w.power.waiting[y] = q[k].id
      BY <1>8, <2>3, <3>1, <3>3 DEF r
    <3> QED BY <1>5, <3>2, <3>3
  <2>6. ASSUME NEW j \in DOMAIN w.requests
        PROVE  \E k \in 1..i + 1 : w.requests[j] = q[k] /\ ~ExpiredAt(q[k], nd.now)
    BY <1>5
  <2>7. ASSUME NEW k \in 1..i + 1, ~ExpiredAt(q[k], nd.now)
        PROVE  \E j \in DOMAIN w.requests : w.requests[j] = q[k]
    BY <1>5, <1>7, <1>9, <2>7 DEF r
  <2>8. (i + 1) + 1 = i + 2
    OBVIOUS
  <2>9. PassInv(nd, z, i + 1)
    BY <1>5, <2>2, <2>3, <2>4, <2>5, <2>6, <2>7, <2>8 DEF PassInv, q
  <2> QED BY <2>9 DEF z, r, q
<1>10. CASE ~ExpiredAt(r, nd.now)
  <2>1. z = [w EXCEPT !.requests = v]
    BY <1>6, <1>10 DEF SweptPast
  <2>2. /\ DOMAIN z = NodeFields /\ SameNode(nd, z) /\ z.subs = nd.subs /\ z.table = nd.table
        /\ z.requests = v /\ z.power = w.power
    BY <1>5, <2>1 DEF SameNode, NodeFields
  <2> DEFINE top == Len(w.requests) + 1
  <2>3. /\ IsList(v) /\ Len(v) = Len(w.requests) + 1 /\ DOMAIN v = 1..Len(w.requests) + 1
        /\ \A j \in DOMAIN w.requests : v[j] = w.requests[j]
        /\ v[top] = r
    BY <1>5, AppendList
  <2>4. DOMAIN w.requests = 1..Len(w.requests)
    BY <1>5, ListFacts
  <2>5. /\ top \in 1..Len(w.requests) + 1
        /\ \A j \in 1..Len(w.requests) + 1 : j \in 1..Len(w.requests) \/ j = top
        /\ \A j \in 1..Len(w.requests) : j \in 1..Len(w.requests) + 1
    BY <1>6
  <2> HIDE DEF z, v, r, q, top
  <2>6. Len(v) <= i + 1
    BY <1>5, <1>6, <2>3
  <2>7. ASSUME NEW j \in DOMAIN v
        PROVE  \E k \in 1..i + 1 : v[j] = q[k] /\ ~ExpiredAt(q[k], nd.now)
    <3>1. CASE j = top
      BY <1>10, <2>3, <3>1 DEF r
    <3>2. CASE j \in DOMAIN w.requests
      <4>1. PICK k \in 1..i : w.requests[j] = q[k] /\ ~ExpiredAt(q[k], nd.now)
        BY <1>5, <3>2
      <4> QED BY <2>3, <3>2, <4>1
    <3> QED BY <2>3, <2>4, <2>5, <3>1, <3>2
  <2>8. ASSUME NEW k \in 1..i + 1, ~ExpiredAt(q[k], nd.now)
        PROVE  \E j \in DOMAIN v : v[j] = q[k]
    <3>1. CASE k = i + 1
      BY <2>3, <2>5, <3>1 DEF r
    <3>2. CASE k \in 1..i
      <4>1. PICK j \in DOMAIN w.requests : w.requests[j] = q[k]
        BY <1>5, <2>8, <3>2
      <4> QED BY <2>3, <2>4, <2>5, <4>1
    <3> QED BY <1>7, <3>1, <3>2
  <2>9. ASSUME NEW j \in DOMAIN w.requests
        PROVE  w.requests[j].id # r.id
    <3>1. PICK k \in 1..i : w.requests[j] = q[k]
      BY <1>5
    <3> QED BY <1>1, <1>4, <3>1 DEF r, q
  <2>10. ASSUME NEW j \in DOMAIN v, NEW k \in DOMAIN v, v[j].id = v[k].id
         PROVE  j = k
    <3>1. \A x \in DOMAIN v : x = top \/ x \in DOMAIN w.requests
      BY <2>3, <2>4, <2>5
    <3>2. CASE j \in DOMAIN w.requests /\ k \in DOMAIN w.requests
      BY <1>5, <2>3, <2>10, <3>2
    <3>3. CASE j = top \/ k = top
      BY <2>3, <2>9, <2>10, <3>1, <3>3
    <3> QED BY <3>1, <3>2, <3>3
  <2>11. ASSUME NEW x \in DOMAIN w.power.waiting
         PROVE  \/ \E j \in DOMAIN v : w.power.waiting[x] = v[j].id
                \/ \E k \in i + 2..Len(q) : w.power.waiting[x] = q[k].id
    <3>1. CASE \E j \in DOMAIN w.requests : w.power.waiting[x] = w.requests[j].id
      BY <2>3, <2>4, <2>5, <3>1
    <3>2. CASE \E k \in i + 1..Len(q) : w.power.waiting[x] = q[k].id
      <4>1. PICK k \in i + 1..Len(q) : w.power.waiting[x] = q[k].id
        BY <3>2
      <4>2. CASE k = i + 1
        BY <2>3, <2>5, <4>1, <4>2 DEF r
      <4> QED BY <1>8, <4>1, <4>2
    <3> QED BY <1>5, <3>1, <3>2
  <2>12. (i + 1) + 1 = i + 2
    OBVIOUS
  <2>13. PassInv(nd, z, i + 1)
    BY <1>5, <2>2, <2>3, <2>6, <2>7, <2>8, <2>10, <2>11, <2>12 DEF PassInv, q
  <2> QED BY <2>13 DEF z, r, q
<1> QED BY <1>9, <1>10

LEMMA SweptEnds ==
  ASSUME NEW nd, NEW n, NEW log, NodeInv(nd, n, log)
  PROVE  PassInv(nd, Swept(nd), Len(nd.requests))
<1>1. IsList(nd.requests)
  BY DEF NodeInv, RequestsInv
<1>2. Len(nd.requests) \in Nat
  BY <1>1, ListFacts
<1>3. PICK f : /\ Swept(nd) = f[Len(nd.requests)]
               /\ f[0] = [nd EXCEPT !.requests = <<>>]
               /\ \A i \in 1..Len(nd.requests) : f[i] = SweptPast(f[i - 1], nd.requests[i])
  BY <1>2, SweptFacts
<1>4. PassInv(nd, f[0], 0)
  <2> DEFINE none == [nd EXCEPT !.requests = <<>>]
  <2>1. /\ DOMAIN none = NodeFields /\ SameNode(nd, none) /\ none.subs = nd.subs
        /\ none.table = nd.table /\ none.requests = <<>> /\ none.power = nd.power
    BY DEF NodeInv, IsNode, SameNode, NodeFields
  <2>2. <<>> \in Seq({}) /\ Len(<<>>) = 0 /\ DOMAIN <<>> = {}
    OBVIOUS
  <2>3. IsList(<<>>)
    BY <2>2, SeqIsList
  <2>4. 1..0 = {} /\ 0 + 1..Len(nd.requests) = DOMAIN nd.requests
    <3>1. DOMAIN nd.requests = 1..Len(nd.requests)
      BY <1>1, ListFacts
    <3> QED BY <3>1
  <2> HIDE DEF none
  <2>5. PassInv(nd, none, 0)
    BY <2>1, <2>2, <2>3, <2>4 DEF NodeInv, WaitingInv, PassInv
  <2> QED BY <1>3, <2>5 DEF none
<1> DEFINE S == {i \in Nat : i <= Len(nd.requests) => PassInv(nd, f[i], i)}
<1>5. 0 \in S
  BY <1>4
<1>6. ASSUME NEW i \in Nat, i \in S
      PROVE  i + 1 \in S
  <2> SUFFICES ASSUME i + 1 <= Len(nd.requests)
               PROVE  PassInv(nd, f[i + 1], i + 1)
    OBVIOUS
  <2>1. i < Len(nd.requests)
    BY <1>2
  <2>2. PassInv(nd, f[i], i)
    BY <1>2, <1>6, <2>1
  <2>3. PassInv(nd, SweptPast(f[i], nd.requests[i + 1]), i + 1)
    BY <2>1, <2>2, SweptPastFacts
  <2>4. i + 1 \in 1..Len(nd.requests) /\ (i + 1) - 1 = i
    BY <1>2
  <2> QED BY <1>3, <2>3, <2>4
<1> HIDE DEF S
<1>7. Nat \subseteq S
  BY <1>5, <1>6, Induct
<1>8. PassInv(nd, f[Len(nd.requests)], Len(nd.requests))
  BY <1>2, <1>7 DEF S
<1> QED BY <1>3, <1>8

------------------------------------------------------------------------------
(* The steps that end or ask questions. *)

\* A log in which questions change their ages or their ends.
LEMMA LogChanges ==
  ASSUME NEW log \in Seq(Ask), NEW other, other = [k \in DOMAIN log |-> other[k]],
         \A k \in DOMAIN log : other[k] \in Ask /\ SameAsk(log, k, other)
  PROVE  SameAsks(log, other)
<1>1. Len(log) \in Nat /\ DOMAIN log = 1..Len(log)
  BY AskFacts
<1>2. other \in [1..Len(log) -> Ask]
  BY <1>1
<1>3. other \in Seq(Ask) /\ Len(other) = Len(log)
  BY <1>1, <1>2
<1>4. DOMAIN other = DOMAIN log
  BY <1>1, <1>2
<1> QED BY <1>3, <1>4 DEF SameAsks

\* A question that ends one way.
LEMMA AskEnds ==
  ASSUME NEW a \in Ask, NEW e \in [how : Ending, re : Nat]
  PROVE  LET b == [a EXCEPT !.ends = <<e>>]
         IN  /\ b \in Ask /\ b.from = a.from /\ b.boots = a.boots /\ b.id = a.id
             /\ b.timeout = a.timeout /\ b.age = a.age /\ b.ends = <<e>>
<1>1. <<e>> \in Seq([how : Ending, re : Nat])
  OBVIOUS
<1> QED BY <1>1 DEF Ask

SweptLog(log, nd) ==
  [k \in DOMAIN log |->
     IF k \notin {nd.requests[i].no : i \in Expired(nd)} THEN log[k]
     ELSE [log[k] EXCEPT !.ends = Append(@, [how |-> "expired", re |-> k])]]

LEMMA SweptLogFacts ==
  ASSUME NEW nd, NEW n, NEW log \in Seq(Ask), RequestsInv(nd, n, log)
  PROVE  /\ SameAsks(log, SweptLog(log, nd))
         /\ \A k \in DOMAIN log :
              /\ SweptLog(log, nd)[k].age = log[k].age
              /\ \/ /\ SweptLog(log, nd)[k].ends = log[k].ends
                    /\ \A i \in Expired(nd) : nd.requests[i].no # k
                 \/ /\ SweptLog(log, nd)[k].ends = <<[how |-> "expired", re |-> k]>>
                    /\ \E i \in Expired(nd) : nd.requests[i].no = k
<1> DEFINE z == SweptLog(log, nd)
<1>1. Expired(nd) \subseteq DOMAIN nd.requests
  BY DEF Expired
<1>2. /\ Len(log) \in Nat /\ DOMAIN log = 1..Len(log) /\ \A k \in DOMAIN log : log[k] \in Ask
  BY AskFacts
<1>3. ASSUME NEW k \in DOMAIN log
      PROVE  /\ z[k] \in Ask /\ SameAsk(log, k, z) /\ z[k].age = log[k].age
             /\ \/ z[k].ends = log[k].ends /\ \A i \in Expired(nd) : nd.requests[i].no # k
                \/ /\ z[k].ends = <<[how |-> "expired", re |-> k]>>
                   /\ \E i \in Expired(nd) : nd.requests[i].no = k
  <2>1. CASE \A i \in Expired(nd) : nd.requests[i].no # k
    <3>1. z[k] = log[k]
      BY <2>1 DEF SweptLog
    <3> HIDE DEF z
    <3> QED BY <1>2, <2>1, <3>1 DEF SameAsk
  <2>2. CASE \E i \in Expired(nd) : nd.requests[i].no = k
    <3> DEFINE e == [how |-> "expired", re |-> k]
               b == [log[k] EXCEPT !.ends = <<e>>]
    <3>1. PICK i \in Expired(nd) : nd.requests[i].no = k
      BY <2>2
    <3>2. log[k].ends = <<>>
      BY <1>1, <3>1 DEF RequestsInv, Asked
    <3>3. e \in [how : Ending, re : Nat]
      BY <1>2 DEF Ending
    <3>4. z[k] = [log[k] EXCEPT !.ends = Append(@, e)]
      BY <2>2 DEF SweptLog
    <3> HIDE DEF e, z
    <3>5. Append(<<>>, e) = <<e>>
      OBVIOUS
    <3>6. z[k] = b
      BY <3>2, <3>4, <3>5
    <3>7. /\ b \in Ask /\ b.from = log[k].from /\ b.boots = log[k].boots /\ b.id = log[k].id
          /\ b.timeout = log[k].timeout /\ b.age = log[k].age /\ b.ends = <<e>>
      BY <1>2, <3>3, AskEnds
    <3> HIDE DEF b
    <3>8. /\ z[k] \in Ask /\ SameAsk(log, k, z) /\ z[k].age = log[k].age /\ z[k].ends = <<e>>
      BY <3>6, <3>7 DEF SameAsk
    <3> QED BY <2>2, <3>8 DEF e
  <2> QED BY <2>1, <2>2
<1>4. z = [k \in DOMAIN log |-> z[k]]
  BY DEF SweptLog
<1> HIDE DEF z
<1>5. SameAsks(log, z)
  BY <1>3, <1>4, LogChanges
<1> QED BY <1>3, <1>5 DEF z

\* What is still listed was listed, and has not expired.
Unexpired(nd, w) ==
  \A j \in DOMAIN w.requests :
    \E i \in DOMAIN nd.requests :
      w.requests[j] = nd.requests[i] /\ ~ExpiredAt(nd.requests[i], nd.now)

\* on_service_expiry.
SweptNode(nd, next) == [Swept(nd) EXCEPT !.next_sweep_ms = next]
LEMMA SweepStep ==
  ASSUME NEW nd, NEW n \in Node, NEW log, NodeInv(nd, n, log), LogInv(log), NEW next \in Clock
  PROVE  /\ NodeInv(SweptNode(nd, next), n, SweptLog(log, nd)) /\ LogInv(SweptLog(log, nd))
         /\ \A m : m # n => KeptFor(m, log, SweptLog(log, nd))
         /\ SweptNode(nd, next).now = nd.now /\ SweptNode(nd, next).next_sweep_ms = next
         /\ Unexpired(nd, SweptNode(nd, next))
<1> DEFINE v == Swept(nd)
           w == SweptNode(nd, next)
           other == SweptLog(log, nd)
           q == nd.requests
           G == Expired(nd)
<1>l. log \in Seq(Ask)
  BY DEF LogInv
<1>r. RequestsInv(nd, n, log)
  BY DEF NodeInv
<1>1. PassInv(nd, v, Len(q))
  BY SweptEnds
<1>2. IsList(q) /\ \A i \in DOMAIN q : Asked(q[i], n, nd.boots, log)
  BY <1>r DEF RequestsInv
<1>3. DOMAIN q = 1..Len(q)
  BY <1>2, ListFacts
<1>4. Len(q) \in Nat
  BY <1>2, ListFacts
<1>5. G \in SUBSET DOMAIN q /\ \A i \in DOMAIN q : i \in G <=> ExpiredAt(q[i], nd.now)
  BY DEF Expired
<1>6. /\ SameAsks(log, other)
      /\ \A k \in DOMAIN log :
           /\ other[k].age = log[k].age
           /\ \/ other[k].ends = log[k].ends /\ \A i \in G : q[i].no # k
              \/ /\ other[k].ends = <<[how |-> "expired", re |-> k]>>
                 /\ \E i \in G : q[i].no = k
  BY <1>l, <1>r, SweptLogFacts
<1> HIDE DEF v
<1>7. /\ DOMAIN w = NodeFields /\ w.subs = nd.subs /\ w.table = nd.table
      /\ w.requests = v.requests /\ w.power = v.power /\ w.now = nd.now /\ w.boots = nd.boots
      /\ w.request_count = nd.request_count /\ w.next_sweep_ms = next
  BY <1>1 DEF PassInv, SameNode, SweptNode, NodeFields, v
<1> HIDE DEF w, other, G, q
<1>8. Left(w.requests, q, G)
  <2>1. ASSUME NEW j \in DOMAIN v.requests
        PROVE  \E i \in DOMAIN q \ G : v.requests[j] = q[i]
    BY <1>1, <1>3, <1>5 DEF PassInv, q
  <2>2. ASSUME NEW i \in DOMAIN q \ G
        PROVE  \E j \in DOMAIN v.requests : v.requests[j] = q[i]
    BY <1>1, <1>3, <1>5 DEF PassInv, q
  <2> QED BY <1>1, <1>7, <2>1, <2>2 DEF Left, PassInv, q
<1>9. EndedAt(log, other, q, G)
  <2>1. ASSUME NEW i \in G
        PROVE  other[q[i].no].ends # <<>>
    <3>1. q[i].no \in DOMAIN log
      BY <1>2, <1>5 DEF Asked
    <3>2. other[q[i].no].ends = <<[how |-> "expired", re |-> q[i].no]>>
      BY <1>6, <3>1
    <3> QED BY <3>2
  <2>2. ASSUME NEW k \in DOMAIN log, \A i \in G : q[i].no # k
        PROVE  other[k].ends = log[k].ends
    BY <1>6, <2>2
  <2> QED BY <1>6, <2>1, <2>2 DEF EndedAt
<1>10. RequestsInv(w, n, other)
  BY <1>l, <1>r, <1>5, <1>7, <1>8, <1>9, RequestsGo DEF q
<1>11. LogInv(other)
  <2>1. ASSUME NEW k \in DOMAIN log
        PROVE  \/ other[k].ends = log[k].ends
               \/ \E e : other[k].ends = <<e>> /\ EndedRight(log, k, e)
    <3> DEFINE e == [how |-> "expired", re |-> k]
    <3>1. e.how # "answered"
      OBVIOUS
    <3>2. other[k].ends = log[k].ends \/ other[k].ends = <<e>>
      BY <1>6
    <3> HIDE DEF e
    <3> QED BY <3>1, <3>2 DEF EndedRight
  <2> QED BY <1>6, <2>1, LogStays
<1>12. WaitingInv(w)
  <2>1. ASSUME NEW x \in DOMAIN v.power.waiting
        PROVE  \E j \in DOMAIN v.requests : v.power.waiting[x] = v.requests[j].id
    <3>1. Len(q) + 1..Len(q) = {}
      BY <1>4
    <3> QED BY <1>1, <3>1 DEF PassInv, q
  <2> QED BY <1>1, <1>7, <2>1 DEF WaitingInv, PassInv
<1>13. IsNode(w)
  BY <1>7 DEF IsNode, NodeInv
<1>14. IdsInv(w, n, other)
  BY <1>6, <1>7 DEF IdsInv, NodeInv, SameAsks, SameAsk
<1>15. ASSUME NEW m, m # n
       PROVE  KeptFor(m, log, other)
  <2>1. ASSUME NEW k \in DOMAIN log, log[k].from = m
        PROVE  other[k].ends = log[k].ends
    <3>1. \A i \in G : q[i].no # k
      BY <1>2, <1>5, <1>15, <2>1 DEF Asked
    <3> QED BY <1>6, <3>1
  <2> QED BY <1>6, <2>1 DEF KeptFor, SameAsks
<1>16. Unexpired(nd, w)
  BY <1>5, <1>8 DEF Left, Unexpired, q
<1> QED BY <1>7, <1>10, <1>11, <1>12, <1>13, <1>14, <1>15, <1>16 DEF NodeInv, w, other, q

\* The next id is not one that was taken, and the ids taken count back from
\* the one after it.
LEMMA CountNew ==
  ASSUME NEW count \in 0..IdWrap - 1, NEW asks \in Nat, asks < IdWrap, NEW id,
         Counted(id, count, asks)
  PROVE  id # count
<1>w. IdWrap \in Nat \ {0}
  BY PubSubAssumption
<1>1. PICK d \in 1..asks : id = (count - d) % IdWrap
  BY DEF Counted
<1>2. CASE count >= d
  <2>1. count - d \in 0..IdWrap - 1
    BY <1>w, <1>2
  <2>2. (count - d) % IdWrap = count - d
    BY <1>w, <2>1
  <2> QED BY <1>1, <2>2
<1>3. CASE count < d
  <2> DEFINE r == count - d + IdWrap
  <2>1. r \in 0..IdWrap - 1 /\ count - d = IdWrap * (-1) + r /\ r # count
    BY <1>w, <1>3
  <2> HIDE DEF r
  <2>2. (IdWrap * (-1) + r) % IdWrap = r
    BY <1>w, <2>1, ModUnique
  <2> QED BY <1>1, <2>1, <2>2
<1> QED BY <1>2, <1>3

LEMMA CountOn ==
  ASSUME NEW count \in 0..IdWrap - 1, NEW asks \in Nat
  PROVE  /\ (count + 1) % IdWrap \in 0..IdWrap - 1
         /\ Counted(count, (count + 1) % IdWrap, asks + 1)
         /\ \A id : Counted(id, count, asks) => Counted(id, (count + 1) % IdWrap, asks + 1)
<1>w. IdWrap \in Nat \ {0} /\ count + 1 \in Int
  BY PubSubAssumption
<1>1. ASSUME NEW d \in Int
      PROVE  (((count + 1) % IdWrap) - (d + 1)) % IdWrap = (count - d) % IdWrap
  <2> DEFINE x == count + 1
             y == -(d + 1)
  <2>1. x \in Int /\ y \in Int /\ x + y = count - d
    OBVIOUS
  <2> HIDE DEF x, y
  <2>2. ((x % IdWrap) + y) % IdWrap = (x + y) % IdWrap
    BY <1>w, <2>1, ModAdd
  <2>3. x % IdWrap \in Int
    BY <1>w, <2>1, DivMod
  <2>4. (x % IdWrap) + y = (x % IdWrap) - (d + 1)
    BY <2>3 DEF y
  <2>5. ((x % IdWrap) - (d + 1)) % IdWrap = (count - d) % IdWrap
    BY <2>1, <2>2, <2>4
  <2> QED BY <2>5 DEF x
<1>2. (count + 1) % IdWrap \in 0..IdWrap - 1
  BY <1>w, DivMod
<1> DEFINE next == (count + 1) % IdWrap
<1>3. ASSUME NEW id, Counted(id, count, asks)
      PROVE  Counted(id, next, asks + 1)
  <2>1. PICK d \in 1..asks : id = (count - d) % IdWrap
    BY <1>3 DEF Counted
  <2>2. d + 1 \in 1..asks + 1 /\ (next - (d + 1)) % IdWrap = (count - d) % IdWrap
    BY <1>1
  <2> HIDE DEF next
  <2> QED BY <2>1, <2>2 DEF Counted
<1>4. Counted(count, next, asks + 1)
  <2>1. (next - (0 + 1)) % IdWrap = (count - 0) % IdWrap
    BY <1>1
  <2>2. count - 0 = count /\ count % IdWrap = count /\ 1 \in 1..asks + 1 /\ 0 + 1 = 1
    BY <1>w
  <2> HIDE DEF next
  <2>3. (next - 1) % IdWrap = count
    BY <2>1, <2>2
  <2> QED BY <2>2, <2>3 DEF Counted
<1> QED BY <1>2, <1>3, <1>4

\* request_with, up to the list and the queue.
AskedNode(nd, service, timeout_s, no, power) ==
  [nd EXCEPT !.requests = RequestAdded(@, service, nd.request_count, timeout_s, nd.now, no),
             !.request_count = (nd.request_count + 1) % IdWrap,
             !.power = IF power THEN Pushed(@, nd.request_count) ELSE @]
NewAsk(nd, n, timeout) ==
  [from |-> n, boots |-> nd.boots, id |-> nd.request_count, age |-> 0, timeout |-> timeout,
   ends |-> <<>>]
NewRequest(nd, service, timeout_s, no) ==
  [service |-> service, id |-> nd.request_count, start_ms |-> nd.now,
   timeout_ms |-> (timeout_s * MS) % ClockWrap, no |-> no]

\* A log with one more question.
LEMMA LogGrows ==
  ASSUME NEW log \in Seq(Ask), NEW a \in Ask
  PROVE  /\ Append(log, a) \in Seq(Ask) /\ Len(Append(log, a)) = Len(log) + 1
         /\ DOMAIN Append(log, a) = 1..Len(log) + 1
         /\ DOMAIN log \subseteq DOMAIN Append(log, a)
         /\ \A k \in DOMAIN log : Append(log, a)[k] = log[k]
         /\ Append(log, a)[Len(log) + 1] = a
         /\ \A k \in DOMAIN Append(log, a) : k \in DOMAIN log \/ k = Len(log) + 1
         /\ Len(log) + 1 \notin DOMAIN log
<1> HIDE DEF Ask
<1> QED OBVIOUS

LEMMA AskStep ==
  ASSUME NEW nd, NEW n \in Node, NEW log, NodeInv(nd, n, log), LogInv(log),
         Len(log) < IdWrap, Len(nd.requests) # SERVICE_REQUESTS,
         NEW service, NEW timeout_s \in Nat, NEW power
  PROVE  LET w == AskedNode(nd, service, timeout_s, Len(log) + 1, power)
             other == Append(log, NewAsk(nd, n, timeout_s * MS))
         IN  /\ NodeInv(w, n, other) /\ LogInv(other)
             /\ \A m : m # n => KeptFor(m, log, other)
             /\ w.now = nd.now /\ w.next_sweep_ms = nd.next_sweep_ms
             /\ w.requests = Append(nd.requests,
                                    NewRequest(nd, service, timeout_s, Len(log) + 1))
<1> DEFINE no == Len(log) + 1
           w == AskedNode(nd, service, timeout_s, no, power)
           a == NewAsk(nd, n, timeout_s * MS)
           other == Append(log, a)
           r == NewRequest(nd, service, timeout_s, no)
           v == Append(nd.requests, r)
           count == (nd.request_count + 1) % IdWrap
           p == IF power THEN Pushed(nd.power, nd.request_count) ELSE nd.power
           top == Len(nd.requests) + 1
<1>l. log \in Seq(Ask) /\ Len(log) \in Nat
  BY AskFacts DEF LogInv
<1>n. /\ nd.request_count \in 0..IdWrap - 1 /\ nd.boots \in Nat /\ nd.now \in Clock
      /\ DOMAIN nd = NodeFields
  BY DEF NodeInv, IsNode
<1>t. /\ timeout_s * MS \in Nat /\ (timeout_s * MS) % ClockWrap \in Clock
  <2>1. timeout_s * MS \in Nat
    BY PubSubAssumption
  <2> DEFINE t == timeout_s * MS
  <2> HIDE DEF t
  <2>2. t \in Nat => t % ClockWrap \in Clock
    BY ClockAssumption, DivMod DEF Clock
  <2> QED BY <2>1, <2>2 DEF t
<1>1. a \in Ask
  <2>1. <<>> \in Seq([how : Ending, re : Nat])
    OBVIOUS
  <2> QED BY <1>n, <1>t, <2>1 DEF Ask, NewAsk
<1>2. /\ a.from = n /\ a.boots = nd.boots /\ a.id = nd.request_count /\ a.ends = <<>>
  BY DEF NewAsk
<1>3. /\ r.id = nd.request_count /\ r.no = no /\ r.start_ms = nd.now
      /\ r.timeout_ms = (timeout_s * MS) % ClockWrap
  BY DEF NewRequest
<1>4. /\ IsNode(nd) /\ IsList(nd.requests) /\ IsRequests(nd.requests)
      /\ \A i \in DOMAIN nd.requests : Asked(nd.requests[i], n, nd.boots, log)
      /\ \A i, j \in DOMAIN nd.requests : nd.requests[i].id = nd.requests[j].id => i = j
  BY DEF NodeInv, RequestsInv
<1>5. /\ DOMAIN w = NodeFields /\ w.requests = v /\ w.request_count = count /\ w.power = p
      /\ w.subs = nd.subs /\ w.table = nd.table /\ w.boots = nd.boots /\ w.now = nd.now
      /\ w.next_sweep_ms = nd.next_sweep_ms
  BY <1>n DEF AskedNode, RequestAdded, NewRequest, NodeFields
<1> HIDE DEF a
<1>6. /\ other \in Seq(Ask) /\ Len(other) = no /\ DOMAIN log \subseteq DOMAIN other
      /\ \A k \in DOMAIN log : other[k] = log[k]
      /\ other[no] = a /\ no \in DOMAIN other
      /\ \A k \in DOMAIN other : k \in DOMAIN log \/ k = no
      /\ no \notin DOMAIN log
  <2>1. no \in 1..Len(log) + 1
    BY <1>l
  <2> QED BY <1>l, <1>1, <2>1, LogGrows
<1> HIDE DEF w, other, r, no
<1>7. /\ IsList(v) /\ Len(v) = Len(nd.requests) + 1 /\ DOMAIN v = 1..Len(nd.requests) + 1
      /\ \A i \in DOMAIN nd.requests : v[i] = nd.requests[i]
      /\ v[top] = r
  BY <1>4, AppendList
<1>8. Len(nd.requests) \in Nat
  BY <1>4, ListFacts
<1>9. DOMAIN nd.requests = 1..Len(nd.requests)
  BY <1>4, ListFacts
<1>10. /\ top \in 1..Len(nd.requests) + 1
       /\ \A i \in 1..Len(nd.requests) + 1 : i \in 1..Len(nd.requests) \/ i = top
       /\ \A i \in 1..Len(nd.requests) : i \in 1..Len(nd.requests) + 1 /\ i # top
  BY <1>8
<1> HIDE DEF top, v, count, p
<1>11. /\ top \in DOMAIN v /\ \A i \in DOMAIN v : i \in DOMAIN nd.requests \/ i = top
       /\ \A i \in DOMAIN nd.requests : i \in DOMAIN v /\ v[i] = nd.requests[i]
  BY <1>7, <1>9, <1>10
<1>12. ASSUME NEW k \in DOMAIN log, log[k].from = n, log[k].boots = nd.boots
       PROVE  log[k].id # nd.request_count
  <2>1. Counted(log[k].id, nd.request_count, Len(log))
    BY <1>12 DEF NodeInv, IdsInv
  <2> QED BY <1>l, <1>n, <2>1, CountNew
<1>13. \A i \in DOMAIN nd.requests : nd.requests[i].id # nd.request_count
  BY <1>4, <1>12 DEF Asked
<1>14. IsRequests(v)
  <2>1. Len(v) <= SERVICE_REQUESTS
    <3>1. Len(nd.requests) <= SERVICE_REQUESTS /\ SERVICE_REQUESTS \in Nat
      BY <1>4, PubSubAssumption DEF IsRequests
    <3>2. Len(v) = Len(nd.requests) + 1
      BY <1>7
    <3> QED BY <1>8, <3>1, <3>2
  <2>2. r.id \in 0..IdWrap - 1 /\ r.start_ms \in Clock /\ r.timeout_ms \in Clock
    BY <1>3, <1>n, <1>t
  <2>3. ASSUME NEW i \in DOMAIN v
        PROVE  /\ v[i].id \in 0..IdWrap - 1
               /\ {v[i].start_ms, v[i].timeout_ms} \subseteq Clock
    <3>1. CASE i \in DOMAIN nd.requests
      BY <1>4, <1>11, <3>1 DEF IsRequests
    <3>2. CASE i = top
      BY <1>7, <2>2, <3>2
    <3> QED BY <1>11, <3>1, <3>2
  <2> QED BY <2>1, <2>3 DEF IsRequests
<1>15. RequestsInv(w, n, other)
  <2>1. ASSUME NEW i \in DOMAIN v
        PROVE  Asked(v[i], n, nd.boots, other)
    <3>1. CASE i \in DOMAIN nd.requests
      BY <1>4, <1>6, <1>11, <3>1 DEF Asked
    <3>2. CASE i = top
      BY <1>2, <1>3, <1>6, <1>7, <3>2 DEF Asked
    <3> QED BY <1>11, <3>1, <3>2
  <2>2. ASSUME NEW i \in DOMAIN v, NEW j \in DOMAIN v, v[i].id = v[j].id
        PROVE  i = j
    <3>1. CASE i = top \/ j = top
      BY <1>3, <1>7, <1>11, <1>13, <2>2, <3>1
    <3>2. CASE i \in DOMAIN nd.requests /\ j \in DOMAIN nd.requests
      BY <1>4, <1>11, <2>2, <3>2
    <3> QED BY <1>11, <3>1, <3>2
  <2>3. ASSUME NEW k \in DOMAIN other, other[k].from = n, other[k].ends = <<>>
        PROVE  \E i \in DOMAIN v : v[i].no = k
    <3>1. CASE k = no
      BY <1>3, <1>7, <1>11, <3>1
    <3>2. CASE k \in DOMAIN log
      <4>1. PICK i \in DOMAIN nd.requests : nd.requests[i].no = k
        BY <1>6, <2>3, <3>2 DEF NodeInv, RequestsInv
      <4> QED BY <1>11, <4>1
    <3> QED BY <1>6, <3>1, <3>2
  <2> QED BY <1>5, <1>7, <1>14, <2>1, <2>2, <2>3 DEF RequestsInv
<1>16. WaitingInv(w)
  <2>1. /\ IsPower(nd.power)
        /\ \A i \in DOMAIN nd.power.waiting :
             \E j \in DOMAIN nd.requests : nd.power.waiting[i] = nd.requests[j].id
    BY DEF NodeInv, WaitingInv
  <2>2. \A i \in DOMAIN nd.power.waiting : nd.power.waiting[i] # nd.request_count
    BY <1>13, <2>1
  <2>3. /\ IsPower(Pushed(nd.power, nd.request_count))
        /\ \A i \in DOMAIN Pushed(nd.power, nd.request_count).waiting :
             \/ Pushed(nd.power, nd.request_count).waiting[i] = nd.request_count
             \/ /\ i \in DOMAIN nd.power.waiting
                /\ Pushed(nd.power, nd.request_count).waiting[i] = nd.power.waiting[i]
    BY <2>1, <2>2, PushedFacts
  <2>4. /\ IsPower(p)
        /\ \A i \in DOMAIN p.waiting :
             \/ p.waiting[i] = nd.request_count
             \/ i \in DOMAIN nd.power.waiting /\ p.waiting[i] = nd.power.waiting[i]
    BY <2>1, <2>3 DEF p
  <2>5. ASSUME NEW i \in DOMAIN p.waiting
        PROVE  \E j \in DOMAIN v : p.waiting[i] = v[j].id
    <3>1. CASE p.waiting[i] = nd.request_count
      BY <1>3, <1>7, <1>11, <3>1
    <3>2. CASE i \in DOMAIN nd.power.waiting /\ p.waiting[i] = nd.power.waiting[i]
      BY <1>11, <2>1, <3>2
    <3> QED BY <2>4, <3>1, <3>2
  <2> QED BY <1>5, <2>4, <2>5 DEF WaitingInv
<1>17. /\ count \in 0..IdWrap - 1 /\ Counted(nd.request_count, count, no)
       /\ \A id : Counted(id, nd.request_count, Len(log)) => Counted(id, count, no)
  BY <1>l, <1>n, CountOn DEF count, no
<1>18. IsNode(w)
  BY <1>4, <1>5, <1>17 DEF IsNode
<1>19. IdsInv(w, n, other)
  <2>1. ASSUME NEW k \in DOMAIN other, other[k].from = n
        PROVE  /\ other[k].boots <= nd.boots
               /\ other[k].boots = nd.boots => Counted(other[k].id, count, no)
    <3>1. CASE k = no
      BY <1>2, <1>6, <1>n, <1>17, <3>1
    <3>2. CASE k \in DOMAIN log
      BY <1>6, <1>17, <2>1, <3>2 DEF NodeInv, IdsInv
    <3> QED BY <1>6, <3>1, <3>2
  <2> QED BY <1>5, <1>6, <2>1 DEF IdsInv
<1>20. LogInv(other)
  <2>1. ASSUME NEW j \in DOMAIN other, NEW k \in DOMAIN other,
               other[j].from = other[k].from, other[j].boots = other[k].boots,
               other[j].id = other[k].id
        PROVE  j = k
    <3>1. CASE j \in DOMAIN log /\ k \in DOMAIN log
      BY <1>6, <2>1, <3>1 DEF LogInv
    <3>2. CASE j = no \/ k = no
      BY <1>2, <1>6, <1>12, <2>1, <3>2
    <3> QED BY <1>6, <3>1, <3>2
  <2>2. ASSUME NEW k \in DOMAIN other
        PROVE  /\ Len(other[k].ends) <= 1
               /\ \A i \in DOMAIN other[k].ends : EndedRight(other, k, other[k].ends[i])
    <3>1. CASE k = no
      <4>1. other[k].ends = <<>>
        BY <1>2, <1>6, <3>1
      <4>2. Len(<<>>) <= 1 /\ DOMAIN <<>> = {}
        OBVIOUS
      <4> QED BY <4>1, <4>2
    <3>2. CASE k \in DOMAIN log
      <4>1. other[k].ends = log[k].ends /\ Len(log[k].ends) <= 1
        BY <1>6, <3>2 DEF LogInv
      <4>2. ASSUME NEW i \in DOMAIN log[k].ends
            PROVE  EndedRight(other, k, log[k].ends[i])
        <5>1. EndedRight(log, k, log[k].ends[i])
          BY <3>2 DEF LogInv
        <5> QED BY <1>6, <3>2, <5>1 DEF EndedRight
      <4> QED BY <4>1, <4>2
    <3> QED BY <1>6, <3>1, <3>2
  <2> QED BY <1>6, <2>1, <2>2 DEF LogInv
<1>21. \A m : m # n => KeptFor(m, log, other)
  BY <1>2, <1>6 DEF KeptFor, SameAsk
<1> QED BY <1>5, <1>15, <1>16, <1>18, <1>19, <1>20, <1>21 DEF NodeInv, w, other, a, no, v, r

------------------------------------------------------------------------------
(* The steps.  Each changes one node, or the frames on their way; what it  *)
(* does to the node is one of a few shapes.                                *)

LEMMA Assemble ==
  ASSUME IInv, NEW n \in Node, NEW w, node' = [node EXCEPT ![n] = w], mix' = mix,
         inputs' \in Nat, inputs' <= mix.max, Len(asked') <= inputs',
         NodeInv(w, n, asked'), LogInv(asked'), NetInv(net', asked'),
         \A m : m # n => KeptFor(m, asked, asked')
  PROVE  IInv'
<1>1. DOMAIN node = Node /\ asked \in Seq(Ask) /\ asked' \in Seq(Ask)
  BY DEF IInv, LogInv
<1>2. DOMAIN node' = Node /\ node'[n] = w /\ \A m \in Node : m # n => node'[m] = node[m]
  BY <1>1
<1>3. ASSUME NEW m \in Node
      PROVE  NodeInv(node'[m], m, asked')
  <2>1. CASE m = n
    BY <1>2, <2>1
  <2>2. CASE m # n
    <3>1. NodeInv(node[m], m, asked) /\ KeptFor(m, asked, asked') /\ node'[m] = node[m]
      BY <1>2, <2>2 DEF IInv
    <3> QED BY <1>1, <3>1, NodeStays
  <2> QED BY <2>1, <2>2
<1>4. mix' \in Mixes
  BY DEF IInv
<1> QED BY <1>2, <1>3, <1>4 DEF IInv

\* What the bounds say.
LEMMA CallFacts ==
  ASSUME IInv, NEW c, NEW name, Calls(name, c)
  PROVE  /\ inputs' \in Nat /\ inputs' <= mix.max /\ Len(asked) + 1 <= inputs'
         /\ Len(asked) <= inputs' /\ Len(asked) + 1 < IdWrap /\ Len(asked) < IdWrap
         /\ c.node \in Node /\ c.type = name /\ Input(c) /\ c \in mix.inputs
<1>1. mix \in Mixes /\ inputs \in Nat /\ Len(asked) <= inputs /\ asked \in Seq(Ask)
  BY DEF IInv, LogInv
<1>2. mix.max \in Nat /\ mix.max < IdWrap /\ \A x \in mix.inputs : Input(x)
  BY <1>1, MixAssumption
<1>3. inputs < mix.max /\ inputs' = inputs + 1 /\ c \in mix.inputs /\ c.type = name
  BY DEF Calls
<1>4. Len(asked) \in Nat /\ IdWrap \in Nat
  BY <1>1, AskFacts, PubSubAssumption
<1>5. c.node \in Node /\ Input(c)
  BY <1>2, <1>3 DEF Input
<1>6. inputs' \in Nat /\ inputs' <= mix.max
  BY <1>1, <1>2, <1>3
<1>7. Len(asked) + 1 <= inputs' /\ Len(asked) <= inputs'
  BY <1>1, <1>3, <1>4
<1>8. Len(asked) + 1 < IdWrap /\ Len(asked) < IdWrap
  BY <1>1, <1>2, <1>3, <1>4
<1> QED BY <1>3, <1>5, <1>6, <1>7, <1>8

\* A node's lists change, but for its requests.
ListsChange ==
  \/ UNCHANGED node
  \/ \E n \in Node :
       /\ node' = [node EXCEPT ![n] = node'[n]]
       /\ IsNode(node'[n]) /\ SameRequests(node[n], node'[n])
\* Nothing is asked and nothing ends.
QuietStep ==
  /\ ListsChange /\ mix' = mix /\ asked' = asked
  /\ inputs' \in Nat /\ inputs' <= mix.max /\ Len(asked) <= inputs' /\ NetInv(net', asked)

LEMMA ListsFacts ==
  ASSUME IInv, QuietStep
  PROVE  IInv'
<1>1. /\ mix' = mix /\ asked' = asked /\ inputs' \in Nat /\ inputs' <= mix.max
      /\ Len(asked') <= inputs' /\ NetInv(net', asked') /\ LogInv(asked') /\ mix' \in Mixes
  BY DEF QuietStep, IInv
<1>2. CASE UNCHANGED node
  BY <1>1, <1>2 DEF IInv
<1>3. CASE ~UNCHANGED node
  <2>1. PICK n \in Node : /\ node' = [node EXCEPT ![n] = node'[n]]
                          /\ IsNode(node'[n]) /\ SameRequests(node[n], node'[n])
    BY <1>3 DEF QuietStep, ListsChange
  <2> DEFINE w == node'[n]
  <2>2. node' = [node EXCEPT ![n] = w] /\ IsNode(w) /\ SameRequests(node[n], w)
    BY <2>1
  <2>3. NodeInv(node[n], n, asked)
    BY DEF IInv
  <2> HIDE DEF w
  <2>4. NodeInv(w, n, asked')
    BY <1>1, <2>2, <2>3, NodeSame
  <2>5. \A m : m # n => KeptFor(m, asked, asked')
    BY <1>1 DEF KeptFor, SameAsk
  <2> QED BY <1>1, <2>2, <2>4, <2>5, Assemble
<1> QED BY <1>2, <1>3

\* One node's lists.
LEMMA OneNode ==
  ASSUME IInv, NEW n \in Node, NEW w, Now(n, w), IsNode(w), SameRequests(node[n], w)
  PROVE  ListsChange
<1>1. node' = [node EXCEPT ![n] = w] /\ DOMAIN node = Node
  BY DEF Now, IInv
<1>2. node'[n] = w
  BY <1>1
<1>3. node' = [node EXCEPT ![n] = node'[n]]
  BY <1>1, <1>2
<1> QED BY <1>2, <1>3 DEF ListsChange

\* Frames of a node that are not publications, or say nothing of a question.
LEMMA PlainFrame ==
  ASSUME NEW no, NEW scope, NEW n, NEW body, NEW log,
         body.kind = "pub" => scope = "global" /\ Right(body.topic, body.data, n, log)
  PROVE  FrameInv(Frame(no, scope, n, body), log)
BY DEF FrameInv, Frame

\* What the application does to topics and services.
LEMMA ListCalls ==
  ASSUME IInv, NEW c,
         Subscribe(c) \/ Unsubscribe(c) \/ RegisterService(c) \/ UnregisterService(c)
  PROVE  QuietStep
<1> DEFINE n == c.node
           nd == node[n]
<1>1. PICK name : Calls(name, c)
  BY DEF Subscribe, Unsubscribe, RegisterService, UnregisterService
<1>2. /\ inputs' \in Nat /\ inputs' <= mix.max /\ Len(asked) <= inputs' /\ n \in Node
      /\ c.type = name /\ Input(c)
  BY <1>1, CallFacts
<1>3. IsNode(nd) /\ SameRequests(nd, nd) /\ NetInv(net, asked) /\ DOMAIN node = Node
  BY <1>2 DEF IInv, NodeInv, SameRequests
<1>4. UNCHANGED <<net, mix, asked>>
  BY DEF Subscribe, Unsubscribe, RegisterService, UnregisterService
<1>5. ListsChange
  <2>1. CASE Subscribe(c)
    <3> DEFINE w == SubscribeAs(nd, c.topic, "Application")
    <3>1. Now(n, w)
      BY <2>1 DEF Subscribe
    <3>2. IsNode(w) /\ SameRequests(nd, w)
      BY <1>3, SubscribeAsFacts DEF Subscriber
    <3> HIDE DEF w
    <3> QED BY <1>2, <3>1, <3>2, OneNode
  <2>2. CASE Unsubscribe(c)
    <3> DEFINE s == Unsubscribed(nd.subs, c.topic, "Application")
               w == [nd EXCEPT !.subs = s]
    <3>1. CASE Callback(nd.subs, c.topic, "Application") = {}
      BY <2>2, <3>1 DEF Unsubscribe, ListsChange
    <3>2. CASE Callback(nd.subs, c.topic, "Application") # {}
      <4>1. node' = [node EXCEPT ![n].subs = s]
        BY <2>2, <3>2 DEF Unsubscribe
      <4>2. IsList(s) /\ IsSubscriptions(s)
        BY <1>3, <3>2, UnsubscribedFacts DEF IsNode
      <4> HIDE DEF s
      <4>3. IsNode(w) /\ SameRequests(nd, w)
        BY <1>3, <4>2 DEF IsNode, SameRequests, NodeFields
      <4>4. Now(n, w)
        BY <4>1 DEF Now
      <4> HIDE DEF w
      <4> QED BY <1>2, <4>3, <4>4, OneNode
    <3> QED BY <3>1, <3>2
  <2>3. CASE RegisterService(c)
    <3> DEFINE t == ServiceAdded(nd.table, c.service, c.handler)
               v == [nd EXCEPT !.table = t]
               w == SubscribeAs(v, Req(c.service), "Service")
    <3>1. CASE Len(nd.table) = SERVICES
      BY <2>3, <3>1 DEF RegisterService, ListsChange
    <3>2. CASE Len(nd.table) # SERVICES
      <4>1. Now(n, w)
        BY <2>3, <3>2 DEF RegisterService
      <4>2. c.handler \in Handler
        <5>1. c.type = "register"
          BY <2>3 DEF RegisterService, Calls
        <5> QED BY <1>2, <5>1 DEF Input
      <4>3. IsList(t) /\ IsServiceTable(t)
        BY <1>3, <4>2, TableFacts DEF IsNode
      <4> HIDE DEF t
      <4>4. IsNode(v) /\ SameRequests(nd, v)
        BY <1>3, <4>3 DEF IsNode, SameRequests, NodeFields
      <4> HIDE DEF v
      <4>5. IsNode(w) /\ SameRequests(v, w)
        BY <4>4, SubscribeAsFacts DEF Subscriber
      <4> HIDE DEF w
      <4>6. SameRequests(nd, w)
        BY <4>4, <4>5 DEF SameRequests
      <4> QED BY <1>2, <4>1, <4>5, <4>6, OneNode
    <3> QED BY <3>1, <3>2
  <2>4. CASE UnregisterService(c)
    <3> DEFINE s == Unsubscribed(nd.subs, Req(c.service), "Service")
               t == WithoutFirst(nd.table, Listed(nd.table, c.service))
               w == [nd EXCEPT !.subs = s, !.table = t]
    <3>1. CASE Callback(nd.subs, Req(c.service), "Service") = {}
      BY <2>4, <3>1 DEF UnregisterService, ListsChange
    <3>2. CASE Callback(nd.subs, Req(c.service), "Service") # {}
      <4>1. Now(n, w)
        BY <2>4, <3>2 DEF UnregisterService
      <4>2. IsList(s) /\ IsSubscriptions(s)
        BY <1>3, <3>2, UnsubscribedFacts DEF IsNode
      <4>3. IsList(t) /\ IsServiceTable(t)
        BY <1>3, TableFacts DEF IsNode
      <4> HIDE DEF s, t
      <4>4. IsNode(w) /\ SameRequests(nd, w)
        BY <1>3, <4>2, <4>3 DEF IsNode, SameRequests, NodeFields
      <4> HIDE DEF w
      <4> QED BY <1>2, <4>1, <4>4, OneNode
    <3> QED BY <3>1, <3>2
  <2> QED BY <2>1, <2>2, <2>3, <2>4
<1> QED BY <1>2, <1>3, <1>4, <1>5 DEF QuietStep

\* What the application sends, but for requests.
LEMMA SendCalls ==
  ASSUME IInv, NEW c, Publish(c) \/ Send(c)
  PROVE  QuietStep
<1> DEFINE n == c.node
           nd == node[n]
<1>1. PICK name : Calls(name, c)
  BY DEF Publish, Send
<1>2. /\ inputs' \in Nat /\ inputs' <= mix.max /\ Len(asked) <= inputs' /\ n \in Node /\ Input(c)
  BY <1>1, CallFacts
<1>3. IsNode(nd) /\ NetInv(net, asked) /\ DOMAIN node = Node
  BY <1>2 DEF IInv, NodeInv
<1>4. UNCHANGED <<mix, asked>>
  BY DEF Publish, Send
<1>5. ListsChange /\ NetInv(net', asked)
  <2>1. CASE Publish(c)
    <3>1. CASE c.long
      BY <1>3, <2>1, <3>1 DEF Publish, ListsChange
    <3>2. CASE ~c.long
      <4> DEFINE w == Advertised(nd, c.topic, "Publisher")
                 body == [kind |-> "pub", topic |-> c.topic, data |-> Plain]
                 f == Frame(Len(floods) + 1, "global", n, body)
      <4>1. Now(n, w) /\ net' = Sent(net, n, Port, f)
        BY <2>1, <3>2 DEF Publish
      <4>2. IsNode(w) /\ SameRequests(nd, w)
        BY <1>3, AdvertisedFacts
      <4>3. Right(c.topic, Plain, n, asked)
        BY DEF Right, Plain
      <4>4. body.topic = c.topic /\ body.data = Plain
        OBVIOUS
      <4> HIDE DEF body
      <4>5. FrameInv(f, asked)
        BY <4>3, <4>4, PlainFrame
      <4> HIDE DEF w, f
      <4>6. NetInv(net', asked)
        BY <1>3, <4>1, <4>5, SentStays
      <4> QED BY <1>2, <4>1, <4>2, <4>6, OneNode
    <3> QED BY <3>1, <3>2
  <2>2. CASE Send(c)
    <3> DEFINE f == Frame(Len(floods) + 1, c.scope, n, c.body)
    <3>1. net' = Sent(net, n, Port, f) /\ UNCHANGED node
      BY <2>2 DEF Send
    <3>2. c.body.kind # "pub"
      <4>1. c.type = "send"
        BY <2>2 DEF Send, Calls
      <4> QED BY <1>2, <4>1 DEF Input, Sendable
    <3>3. FrameInv(f, asked)
      BY <3>2, PlainFrame
    <3> HIDE DEF f
    <3>4. NetInv(net', asked)
      BY <1>3, <3>1, <3>3, SentStays
    <3> QED BY <3>1, <3>4 DEF ListsChange
  <2> QED BY <2>1, <2>2
<1> QED BY <1>2, <1>4, <1>5 DEF QuietStep

\* What arrives and is not a publication, and what is lost.
LEMMA OtherFrames ==
  ASSUME IInv, NEW l \in DOMAIN Peer, ReceiveUdp(l) \/ ReceiveBcmp(l) \/ Lose(l)
  PROVE  QuietStep
<1> DEFINE f == Head(net[l])
           n == l[1]
<1>1. NetInv(net, asked) /\ DOMAIN net = DOMAIN Peer
  BY DEF IInv, NetInv
<1>2. net[l] # <<>>
  BY DEF ReceiveUdp, ReceiveBcmp, Lose, Takes
<1>3. FrameInv(f, asked) /\ NetInv(Rest(l), asked) /\ NetInv(Relayed(Rest(l), l, f), asked)
  BY <1>1, <1>2, RestStays
<1>4. UNCHANGED <<node, mix, inputs, asked>>
  BY DEF ReceiveUdp, ReceiveBcmp, Lose
<1>5. NetInv(net', asked)
  <2>1. CASE ReceiveUdp(l)
    BY <1>3, <2>1 DEF ReceiveUdp
  <2>2. CASE Lose(l)
    BY <1>3, <2>2 DEF Lose
  <2>3. CASE ReceiveBcmp(l)
    <3> DEFINE links == Rest(l)
               g == [f EXCEPT !.src = n]
               body == [kind |-> "bcmp", from |-> n, to |-> AnswerTo(f), asks |-> "nothing"]
               no == Len(GotBy(floods, f, n)) + 1
               h == Frame(no, "link", n, body)
    <3>1. \/ net' = Sent(links, n, EgressPorts(l[2]), g)
          \/ net' = Sent(links, n, Port, h)
          \/ net' = links
      BY <2>3 DEF ReceiveBcmp
    <3>2. f.body.kind = "bcmp"
      BY <2>3 DEF ReceiveBcmp, Takes
    <3>3. FrameInv(g, asked)
      <4> HIDE DEF f
      <4>1. DOMAIN g = {"no", "scope", "src", "body"} /\ g.body = f.body
        BY <1>3 DEF FrameInv
      <4> HIDE DEF g
      <4> QED BY <3>2, <4>1 DEF FrameInv
    <3>4. FrameInv(h, asked)
      <4>1. body.kind # "pub"
        OBVIOUS
      <4> HIDE DEF body, no
      <4> QED BY <4>1, PlainFrame
    <3> HIDE DEF links, g, h
    <3>5. NetInv(links, asked)
      BY <1>3 DEF links
    <3> QED BY <3>1, <3>3, <3>4, <3>5, SentStays
  <2> QED BY <2>1, <2>2, <2>3
<1> QED BY <1>4, <1>5 DEF QuietStep, ListsChange, IInv

\* One end after another.
LEMMA EndsTwice ==
  ASSUME NEW nd, NEW v, NEW w, NEW log, NEW mid, NEW other,
         Ends(nd, v, log, mid), Ends(v, w, mid, other)
  PROVE  Ends(nd, w, log, other)
<1>1. DOMAIN mid = DOMAIN log /\ DOMAIN other = DOMAIN mid /\ SameAsks(log, mid) /\ SameAsks(mid, other)
  BY DEF Ends, SameAsks
<1>2. SameAsks(log, other)
  BY <1>1 DEF SameAsks, SameAsk
<1>3. ASSUME NEW j \in DOMAIN w.requests
      PROVE  \E i \in DOMAIN nd.requests : w.requests[j] = nd.requests[i]
  <2>1. PICK x \in DOMAIN v.requests : w.requests[j] = v.requests[x]
    BY DEF Ends
  <2>2. PICK i \in DOMAIN nd.requests : v.requests[x] = nd.requests[i]
    BY DEF Ends
  <2> QED BY <2>1, <2>2
<1>4. ASSUME NEW k \in DOMAIN log
      PROVE  /\ other[k].age = log[k].age
             /\ \/ other[k].ends = log[k].ends
                \/ \E i \in DOMAIN nd.requests :
                     /\ nd.requests[i].no = k
                     /\ \A x \in DOMAIN other[k].ends : other[k].ends[x].how = "answered"
  <2>1. other[k].age = log[k].age
    BY <1>1 DEF Ends
  <2>2. CASE other[k].ends = mid[k].ends
    BY <2>1, <2>2 DEF Ends
  <2>3. CASE other[k].ends # mid[k].ends
    <3>1. PICK x \in DOMAIN v.requests :
            /\ v.requests[x].no = k
            /\ \A y \in DOMAIN other[k].ends : other[k].ends[y].how = "answered"
      BY <1>1, <2>3 DEF Ends
    <3>2. PICK i \in DOMAIN nd.requests : v.requests[x] = nd.requests[i]
      BY DEF Ends
    <3> QED BY <2>1, <3>1, <3>2
  <2> QED BY <2>2, <2>3
<1> QED BY <1>2, <1>3, <1>4 DEF Ends

LEMMA KeptTwice ==
  ASSUME NEW m, NEW log, NEW mid, NEW other, KeptFor(m, log, mid), KeptFor(m, mid, other)
  PROVE  KeptFor(m, log, other)
BY DEF KeptFor, SameAsk

\* A publication that reaches node n: what it was about may end, as answered.
AnswerShape(n) ==
  /\ UNCHANGED mix
  /\ node' = [node EXCEPT ![n] = node'[n]] /\ Ends(node[n], node'[n], asked, asked')
  /\ SameNode(node[n], node'[n])

LEMMA PublicationStep ==
  ASSUME IInv, NEW l \in DOMAIN Peer, ReceivePublication(l)
  PROVE  IInv' /\ l[1] \in Node /\ AnswerShape(l[1])
<1> DEFINE f == Head(net[l])
           n == l[1]
           b == f.body
           nd == node[n]
           found == Answers(nd, n, b.topic, b.data)
           after == AnswerRequest(nd, found)
           relayed == Relayed(Rest(l), l, f)
           ended == EndedBy(asked, nd, found, "answered", b.data.re)
           got == GotBy(floods, f, n)
<1>1. n \in Node
  BY ServicesAssumption
<1>2. /\ NodeInv(nd, n, asked) /\ LogInv(asked) /\ NetInv(net, asked) /\ DOMAIN net = DOMAIN Peer
      /\ inputs \in Nat /\ inputs <= mix.max /\ Len(asked) <= inputs /\ DOMAIN node = Node
  BY <1>1 DEF IInv, NetInv
<1>3. net[l] # <<>> /\ b.kind = "pub" /\ UNCHANGED <<mix, inputs>>
  BY DEF ReceivePublication, Takes
<1>4. FrameInv(f, asked) /\ NetInv(relayed, asked)
  BY <1>2, <1>3, RestStays
<1>5. Right(b.topic, b.data, f.src, asked)
  BY <1>3, <1>4 DEF FrameInv
<1>6. RightReply(b.data, asked)
  BY <1>5 DEF Right, RightReply
<1>7. /\ NodeInv(after, n, ended) /\ LogInv(ended) /\ Ends(nd, after, asked, ended)
      /\ SameNode(nd, after) /\ \A m : m # n => KeptFor(m, asked, ended)
  BY <1>1, <1>2, <1>6, AnswerStep
<1>8. /\ DOMAIN ended = DOMAIN asked /\ Len(ended) = Len(asked)
      /\ \A k \in DOMAIN asked : SameAsk(asked, k, ended)
  BY <1>7 DEF Ends, SameAsks
<1>9. NetInv(relayed, ended)
  BY <1>4, <1>8, NetStays
<1>10. CASE /\ node' = [node EXCEPT ![n] = after] /\ net' = relayed /\ asked' = ended
  <2> HIDE DEF n, after, relayed, ended
  <2>1. IInv'
    BY <1>1, <1>2, <1>3, <1>7, <1>8, <1>9, <1>10, Assemble
  <2>2. node'[n] = after
    BY <1>1, <1>2, <1>10
  <2>3. AnswerShape(n)
    BY <1>3, <1>7, <1>10, <2>2 DEF AnswerShape, nd
  <2> QED BY <1>1, <2>1, <2>3 DEF n
<1>11. ASSUME NEW s \in Serves(nd, b.topic, b.data),
              LET topic == Rep(s.name)
                  data == [type |-> "reply", target |-> f.src, id |-> b.data.id,
                           body |-> b.data.body, whole |-> TRUE, re |-> b.data.re]
                  own == Answers(after, n, topic, data)
              IN  /\ node' = [node EXCEPT ![n] =
                                Advertised(DeliverLocally(after, n, topic, data), topic,
                                           "Publisher")]
                  /\ net' = Sent(relayed, n, Port,
                                 Frame(Len(got) + 1, "global", n,
                                       [kind |-> "pub", topic |-> topic, data |-> data]))
                  /\ asked' = EndedBy(ended, after, own, "answered", data.re)
       PROVE  IInv' /\ AnswerShape(n)
  <2> DEFINE topic == Rep(s.name)
             data == [type |-> "reply", target |-> f.src, id |-> b.data.id,
                      body |-> b.data.body, whole |-> TRUE, re |-> b.data.re]
             own == Answers(after, n, topic, data)
             v == AnswerRequest(after, own)
             other == EndedBy(ended, after, own, "answered", data.re)
             w == Advertised(v, topic, "Publisher")
             body == [kind |-> "pub", topic |-> topic, data |-> data]
             no == Len(got) + 1
             g == Frame(no, "global", n, body)
  <2>1. node' = [node EXCEPT ![n] = w] /\ net' = Sent(relayed, n, Port, g) /\ asked' = other
    BY <1>11 DEF DeliverLocally
  <2>2. s \in Lookup(nd.table, b.topic, b.data)
    BY <1>11 DEF Serves
  <2>3. b.data.whole /\ b.topic = Req(s.name)
    BY <2>2 DEF Lookup
  <2>4. b.topic[2] # "/rep"
    BY <2>3 DEF Req
  <2>5. About(b.data, f.src, asked)
    BY <1>5, <2>3, <2>4 DEF Right
  <2>6. About(data, f.src, ended)
    <3>1. b.data.re \in DOMAIN asked /\ asked[b.data.re].from = f.src /\ asked[b.data.re].id = b.data.id
      BY <2>5 DEF About
    <3>2. data.re = b.data.re /\ data.id = b.data.id
      OBVIOUS
    <3> HIDE DEF data, ended
    <3> QED BY <1>8, <3>1, <3>2 DEF About, SameAsk
  <2>7. /\ data.type = "reply" /\ data.target = f.src /\ topic[2] = "/rep"
        /\ body.kind = "pub" /\ body.topic = topic /\ body.data = data
    BY DEF Rep
  <2> HIDE DEF data, topic, body, no, f
  <2>8. RightReply(data, ended) /\ Right(body.topic, body.data, n, ended)
    BY <2>6, <2>7 DEF RightReply, Right
  <2> HIDE DEF after, ended, n, nd, relayed
  <2>9. /\ NodeInv(v, n, other) /\ LogInv(other) /\ Ends(after, v, ended, other)
        /\ SameNode(after, v) /\ \A m : m # n => KeptFor(m, ended, other)
    BY <1>1, <1>7, <2>8, AnswerStep
  <2>10. FrameInv(g, ended)
    BY <2>8, PlainFrame
  <2> HIDE DEF g, v, other
  <2>11. IsNode(w) /\ SameRequests(v, w)
    BY <2>9, AdvertisedFacts DEF NodeInv
  <2> HIDE DEF w
  <2>12. NodeInv(w, n, other)
    BY <2>9, <2>11, NodeSame
  <2>13. /\ DOMAIN other = DOMAIN ended /\ Len(other) = Len(ended)
         /\ \A k \in DOMAIN ended : SameAsk(ended, k, other)
    BY <2>9 DEF Ends, SameAsks
  <2>14. NetInv(Sent(relayed, n, Port, g), ended)
    BY <1>9, <2>10, SentStays
  <2>15. NetInv(net', asked')
    BY <2>1, <2>13, <2>14, NetStays
  <2>16. \A m : m # n => KeptFor(m, asked, other)
    BY <1>7, <2>9, KeptTwice
  <2>17. Ends(nd, v, asked, other)
    BY <1>7, <2>9, EndsTwice
  <2>18. Ends(nd, w, asked, other) /\ SameNode(nd, w)
    BY <1>7, <2>9, <2>11, <2>17 DEF Ends, SameRequests, SameNode
  <2>19. IInv'
    <3>1. /\ mix' = mix /\ inputs' \in Nat /\ inputs' <= mix.max /\ Len(asked') <= inputs'
          /\ LogInv(asked') /\ NodeInv(w, n, asked') /\ \A m : m # n => KeptFor(m, asked, asked')
      BY <1>2, <1>3, <1>8, <2>1, <2>9, <2>12, <2>13, <2>16
    <3> QED BY <1>1, <2>1, <2>15, <3>1, Assemble
  <2>20. node'[n] = w
    BY <1>1, <1>2, <2>1
  <2>21. AnswerShape(n)
    BY <1>3, <2>1, <2>18, <2>20 DEF AnswerShape, nd
  <2> QED BY <2>19, <2>21
<1> QED BY <1>1, <1>10, <1>11 DEF ReceivePublication

\* A request of node n: one more question, and one more request listed.
AskShape(n) ==
  /\ UNCHANGED mix
  /\ node' = [node EXCEPT ![n] = node'[n]]
  /\ node'[n].now = node[n].now /\ node'[n].next_sweep_ms = node[n].next_sweep_ms
  /\ \E timeout_s \in Nat : \E service :
       /\ asked' = Append(asked, NewAsk(node[n], n, timeout_s * MS))
       /\ node'[n].requests = Append(node[n].requests,
                                     NewRequest(node[n], service, timeout_s, Len(asked) + 1))

LEMMA RequestStep ==
  ASSUME IInv, NEW c, ServiceRequest(c)
  PROVE  IInv' /\ (QuietStep \/ (c.node \in Node /\ AskShape(c.node)))
<1> DEFINE n == c.node
           nd == node[n]
           no == Len(asked) + 1
           listed == AskedNode(nd, c.service, c.timeout_s, no, c.power)
           a == NewAsk(nd, n, c.timeout_s * MS)
           other == Append(asked, a)
           r == NewRequest(nd, c.service, c.timeout_s, no)
           v == SubscribeAs(listed, Rep(c.service), "Reply")
           data == [type |-> "request", id |-> nd.request_count, body |-> c.body, whole |-> TRUE,
                    re |-> no]
           topic == Req(c.service)
           body == [kind |-> "pub", topic |-> topic, data |-> data]
           fno == Len(floods) + 1
           f == Frame(fno, "global", n, body)
<1>1. Calls("request", c) /\ UNCHANGED mix
  BY DEF ServiceRequest
<1>2. /\ inputs' \in Nat /\ inputs' <= mix.max /\ no <= inputs' /\ Len(asked) <= inputs'
      /\ Len(asked) < IdWrap /\ n \in Node /\ c.timeout_s \in Nat
  BY <1>1, CallFacts DEF Input
<1>3. /\ NodeInv(nd, n, asked) /\ LogInv(asked) /\ NetInv(net, asked) /\ asked \in Seq(Ask)
      /\ DOMAIN node = Node
  BY <1>2 DEF IInv, LogInv
<1>4. CASE Len(nd.requests) = SERVICE_REQUESTS \/ c.body = "too large"
  <2>1. UNCHANGED <<node, net, floods, asked>>
    BY <1>4 DEF ServiceRequest
  <2>2. QuietStep
    BY <1>1, <1>2, <1>3, <2>1 DEF QuietStep, ListsChange
  <2> QED BY <2>2, ListsFacts
<1>5. CASE ~(Len(nd.requests) = SERVICE_REQUESTS \/ c.body = "too large")
  <2>1. /\ asked' = other
        /\ \/ Now(n, v) /\ UNCHANGED net
           \/ Now(n, Advertised(v, topic, "Publisher")) /\ net' = Sent(net, n, Port, f)
    BY <1>5 DEF ServiceRequest, AskedNode, NewAsk
  <2>2. /\ NodeInv(listed, n, other) /\ LogInv(other)
        /\ \A m : m # n => KeptFor(m, asked, other)
        /\ listed.now = nd.now /\ listed.next_sweep_ms = nd.next_sweep_ms
        /\ listed.requests = Append(nd.requests, r)
    <3> DEFINE x == AskedNode(nd, c.service, c.timeout_s, Len(asked) + 1, c.power)
               y == Append(asked, NewAsk(nd, n, c.timeout_s * MS))
    <3>1. Len(nd.requests) # SERVICE_REQUESTS
      BY <1>5
    <3> HIDE DEF nd
    <3>2. NodeInv(x, n, y) /\ LogInv(y)
      BY <1>2, <1>3, <3>1, AskStep
    <3>3. \A m : m # n => KeptFor(m, asked, y)
      BY <1>2, <1>3, <3>1, AskStep
    <3>4. DOMAIN nd = NodeFields
      BY <1>3 DEF NodeInv, IsNode
    <3>5. /\ x.now = nd.now /\ x.next_sweep_ms = nd.next_sweep_ms
          /\ x.requests = Append(nd.requests, NewRequest(nd, c.service, c.timeout_s, Len(asked) + 1))
      BY <3>4 DEF AskedNode, RequestAdded, NewRequest, NodeFields
    <3> HIDE DEF x, y
    <3> QED BY <3>2, <3>3, <3>5 DEF x, y
  <2>3. /\ Len(other) = no /\ DOMAIN asked \subseteq DOMAIN other /\ no \in DOMAIN other
        /\ \A k \in DOMAIN asked : other[k] = asked[k]
        /\ other[no] = a
    <3>1. a \in Ask
      <4>1. other \in Seq(Ask)
        BY <2>2 DEF LogInv
      <4>2. nd.request_count \in 0..IdWrap - 1 /\ nd.boots \in Nat
        BY <1>3 DEF NodeInv, IsNode
      <4>3. c.timeout_s * MS \in Nat
        BY <1>2, PubSubAssumption
      <4>4. <<>> \in Seq([how : Ending, re : Nat])
        OBVIOUS
      <4> QED BY <1>2, <4>2, <4>3, <4>4 DEF Ask, NewAsk
    <3> HIDE DEF a
    <3>2. Len(asked) \in Nat
      BY <1>3, AskFacts
    <3>3. no \in 1..Len(asked) + 1
      BY <3>2
    <3> QED BY <1>3, <3>1, <3>3, LogGrows
  <2>4. /\ a.from = n /\ a.id = nd.request_count /\ data.re = no /\ data.id = nd.request_count
        /\ data.type = "request" /\ body.topic = topic /\ body.data = data
    BY DEF NewAsk
  <2> HIDE DEF a, other, no, data, body, topic, r, listed
  <2>5. Right(body.topic, body.data, n, other)
    BY <2>3, <2>4 DEF Right, About
  <2>6. FrameInv(f, other)
    BY <2>5, PlainFrame
  <2>7. NetInv(net, other)
    <3>1. \A k \in DOMAIN asked : SameAsk(asked, k, other)
      BY <2>3 DEF SameAsk
    <3> QED BY <1>3, <2>3, <3>1, NetStays
  <2>8. IsNode(v) /\ SameRequests(listed, v)
    BY <2>2, SubscribeAsFacts DEF NodeInv, Subscriber
  <2> HIDE DEF v, f, nd
  <2>9. NetInv(net', asked')
    BY <2>1, <2>6, <2>7, SentStays
  <2>10. PICK w : Now(n, w) /\ (w = v \/ w = Advertised(v, topic, "Publisher"))
    BY <2>1
  <2>11. IsNode(w) /\ SameRequests(v, w)
    <3>1. CASE w = v
      BY <2>8, <3>1 DEF SameRequests
    <3>2. CASE w = Advertised(v, topic, "Publisher")
      BY <2>8, <3>2, AdvertisedFacts
    <3> QED BY <2>10, <3>1, <3>2
  <2>12. SameRequests(listed, w)
    BY <2>8, <2>11 DEF SameRequests
  <2>13. NodeInv(w, n, other)
    BY <2>2, <2>11, <2>12, NodeSame
  <2>14. node' = [node EXCEPT ![n] = w] /\ node'[n] = w
    BY <1>2, <1>3, <2>10 DEF Now
  <2>15. IInv'
    BY <1>1, <1>2, <2>1, <2>2, <2>3, <2>9, <2>13, <2>14, Assemble
  <2>16. AskShape(n)
    <3>1. /\ w.now = nd.now /\ w.next_sweep_ms = nd.next_sweep_ms
          /\ w.requests = Append(nd.requests, r)
      BY <2>2, <2>12 DEF SameRequests
    <3>2. /\ asked' = Append(asked, NewAsk(nd, n, c.timeout_s * MS))
          /\ node'[n].requests = Append(nd.requests,
                                        NewRequest(nd, c.service, c.timeout_s, Len(asked) + 1))
      BY <2>1, <2>14, <3>1 DEF other, a, r, no
    <3>3. node' = [node EXCEPT ![n] = node'[n]]
      BY <2>14
    <3> QED BY <1>1, <1>2, <2>14, <3>1, <3>2, <3>3 DEF AskShape, nd
  <2> QED BY <1>2, <2>15, <2>16
<1> QED BY <1>4, <1>5

LEMMA NextSweepFacts ==
  ASSUME NEW next \in Clock, NEW now \in Clock
  PROVE  NextSweep(next, now) \in Clock
<1> DEFINE x == now - next
           y == x % ClockWrap
           missed == y \div EXPIRY_PERIOD_MS
           z == next + EXPIRY_PERIOD_MS * (missed + 1)
<1>1. ClockWrap \in Nat \ {0} /\ EXPIRY_PERIOD_MS \in Nat \ {0}
  BY ClockAssumption, PubSubAssumption
<1>2. x \in Int
  BY DEF Clock
<1>3. y \in Int
  <2> HIDE DEF x
  <2> QED BY <1>1, <1>2, DivMod
<1>4. missed \in Int
  <2> HIDE DEF y
  <2> QED BY <1>1, <1>3, DivMod
<1>5. z \in Int
  <2> HIDE DEF missed
  <2> QED BY <1>1, <1>4 DEF Clock
<1>6. NextSweep(next, now) = z % ClockWrap
  BY DEF NextSweep
<1> HIDE DEF z
<1> QED BY <1>1, <1>5, <1>6, DivMod DEF Clock

\* The sweep of node n.
SweepShape(n) ==
  /\ UNCHANGED mix /\ SweepDue(node[n].next_sweep_ms, node[n].now)
  /\ node' = [node EXCEPT ![n] = node'[n]] /\ asked' = SweptLog(asked, node[n])
  /\ node'[n].now = node[n].now
  /\ node'[n].next_sweep_ms = NextSweep(node[n].next_sweep_ms, node[n].now)
  /\ Unexpired(node[n], node'[n])

LEMMA SweepFacts ==
  ASSUME IInv, NEW n \in Node, Sweep(n)
  PROVE  IInv' /\ SweepShape(n)
<1> DEFINE nd == node[n]
           next == NextSweep(nd.next_sweep_ms, nd.now)
           w == SweptNode(nd, next)
           other == SweptLog(asked, nd)
<1>1. /\ NodeInv(nd, n, asked) /\ LogInv(asked) /\ NetInv(net, asked) /\ DOMAIN node = Node
      /\ inputs \in Nat /\ inputs <= mix.max /\ Len(asked) <= inputs
  BY DEF IInv
<1>2. next \in Clock
  BY <1>1, NextSweepFacts DEF NodeInv, IsNode
<1>3. /\ node' = [node EXCEPT ![n] = w] /\ asked' = other /\ UNCHANGED <<net, mix, inputs>>
      /\ SweepDue(nd.next_sweep_ms, nd.now)
  <2>1. PassInv(nd, Swept(nd), Len(nd.requests))
    BY <1>1, SweptEnds
  <2>2. Swept(nd).next_sweep_ms = nd.next_sweep_ms
    BY <2>1 DEF PassInv, SameNode
  <2>3. [Swept(nd) EXCEPT !.next_sweep_ms = NextSweep(@, nd.now)] = w
    BY <2>2 DEF SweptNode
  <2>4. Now(n, w)
    BY <2>3 DEF Sweep
  <2>5. asked' = other
    BY DEF Sweep, SweptLog
  <2> QED BY <2>4, <2>5 DEF Sweep, Now
<1> HIDE DEF nd, next
<1>4. /\ NodeInv(w, n, other) /\ LogInv(other) /\ \A m : m # n => KeptFor(m, asked, other)
      /\ w.now = nd.now /\ w.next_sweep_ms = next /\ Unexpired(nd, w)
  BY <1>1, <1>2, SweepStep
<1> USE DEF nd
<1>5. /\ SameAsks(asked, other)
  <2>1. RequestsInv(nd, n, asked) /\ asked \in Seq(Ask)
    BY <1>1 DEF NodeInv, LogInv
  <2> QED BY <2>1, SweptLogFacts
<1> HIDE DEF w
<1>6. Len(other) = Len(asked) /\ NetInv(net, other)
  <2> HIDE DEF other
  <2> QED BY <1>1, <1>5, NetStays DEF SameAsks
<1>7. IInv'
  <2> HIDE DEF other
  <2>1. /\ mix' = mix /\ inputs' \in Nat /\ inputs' <= mix.max /\ Len(asked') <= inputs'
        /\ NodeInv(w, n, asked') /\ LogInv(asked') /\ NetInv(net', asked')
        /\ \A m : m # n => KeptFor(m, asked, asked')
    BY <1>1, <1>3, <1>4, <1>6
  <2> QED BY <1>3, <2>1, Assemble
<1>8. node'[n] = w
  BY <1>1, <1>3
<1>9. SweepShape(n)
  <2>1. node' = [node EXCEPT ![n] = node'[n]]
    BY <1>3, <1>8
  <2> QED BY <1>3, <1>4, <1>8, <2>1 DEF SweepShape, next
<1> QED BY <1>7, <1>9

\* The questions of node n that are open when it restarts are forgotten.
Forgotten(log, n) ==
  [k \in DOMAIN log |->
     IF log[k].from # n \/ log[k].ends # <<>> THEN log[k]
     ELSE [log[k] EXCEPT !.ends = <<[how |-> "forgotten", re |-> k]>>]]

LEMMA ForgottenFacts ==
  ASSUME NEW log, LogInv(log), NEW n
  PROVE  /\ SameAsks(log, Forgotten(log, n)) /\ LogInv(Forgotten(log, n))
         /\ \A m : m # n => KeptFor(m, log, Forgotten(log, n))
         /\ \A k \in DOMAIN log :
              /\ Forgotten(log, n)[k].age = log[k].age
              /\ log[k].from = n => Forgotten(log, n)[k].ends # <<>>
              /\ \/ Forgotten(log, n)[k].ends = log[k].ends
                 \/ \A i \in DOMAIN Forgotten(log, n)[k].ends :
                      Forgotten(log, n)[k].ends[i].how = "forgotten"
<1> DEFINE z == Forgotten(log, n)
<1>1. log \in Seq(Ask)
  BY DEF LogInv
<1>2. Len(log) \in Nat /\ DOMAIN log = 1..Len(log) /\ \A k \in DOMAIN log : log[k] \in Ask
  BY <1>1, AskFacts
<1>3. ASSUME NEW k \in DOMAIN log
      PROVE  /\ z[k] \in Ask /\ SameAsk(log, k, z) /\ z[k].age = log[k].age
             /\ log[k].from = n => z[k].ends # <<>>
             /\ log[k].from # n => z[k].ends = log[k].ends
             /\ \/ z[k].ends = log[k].ends
                \/ \E e : z[k].ends = <<e>> /\ e.how = "forgotten"
  <2>1. CASE log[k].from # n \/ log[k].ends # <<>>
    <3>1. z[k] = log[k]
      BY <2>1 DEF Forgotten
    <3> HIDE DEF z
    <3> QED BY <1>2, <2>1, <3>1 DEF SameAsk
  <2>2. CASE ~(log[k].from # n \/ log[k].ends # <<>>)
    <3> DEFINE e == [how |-> "forgotten", re |-> k]
               b == [log[k] EXCEPT !.ends = <<e>>]
    <3>1. e \in [how : Ending, re : Nat] /\ e.how = "forgotten"
      BY <1>2 DEF Ending
    <3>2. z[k] = b
      BY <2>2 DEF Forgotten
    <3> HIDE DEF e, z
    <3>3. /\ b \in Ask /\ b.from = log[k].from /\ b.boots = log[k].boots /\ b.id = log[k].id
          /\ b.timeout = log[k].timeout /\ b.age = log[k].age /\ b.ends = <<e>>
      BY <1>2, <3>1, AskEnds
    <3> HIDE DEF b
    <3>4. <<e>> # <<>>
      OBVIOUS
    <3> QED BY <2>2, <3>1, <3>2, <3>3, <3>4 DEF SameAsk
  <2> QED BY <2>1, <2>2
<1>4. z = [k \in DOMAIN log |-> z[k]]
  BY DEF Forgotten
<1> HIDE DEF z
<1>5. SameAsks(log, z)
  BY <1>1, <1>3, <1>4, LogChanges
<1>6. LogInv(z)
  <2>1. ASSUME NEW k \in DOMAIN log
        PROVE  \/ z[k].ends = log[k].ends
               \/ \E e : z[k].ends = <<e>> /\ EndedRight(log, k, e)
    BY <1>3 DEF EndedRight
  <2> QED BY <1>5, <2>1, LogStays
<1>7. ASSUME NEW m, m # n
      PROVE  KeptFor(m, log, z)
  BY <1>3, <1>5, <1>7 DEF KeptFor, SameAsks
<1>8. ASSUME NEW k \in DOMAIN log
      PROVE  \/ z[k].ends = log[k].ends
             \/ \A i \in DOMAIN z[k].ends : z[k].ends[i].how = "forgotten"
  <2>1. CASE \E e : z[k].ends = <<e>> /\ e.how = "forgotten"
    <3>1. PICK e : z[k].ends = <<e>> /\ e.how = "forgotten"
      BY <2>1
    <3>2. DOMAIN <<e>> = {1} /\ <<e>>[1] = e
      OBVIOUS
    <3> QED BY <3>1, <3>2
  <2> QED BY <1>3, <2>1
<1> QED BY <1>3, <1>5, <1>6, <1>7, <1>8 DEF z

\* Node n starts again.
RestartShape(n) ==
  /\ UNCHANGED mix
  /\ node' = [node EXCEPT ![n] = node'[n]] /\ asked' = Forgotten(asked, n)
  /\ node'[n].requests = <<>>
  /\ node'[n].now = 0 /\ node'[n].next_sweep_ms = EXPIRY_PERIOD_MS

LEMMA RestartStep ==
  ASSUME IInv, NEW c, Restart(c)
  PROVE  IInv' /\ c.node \in Node /\ RestartShape(c.node)
<1> DEFINE n == c.node
           nd == node[n]
           w == [mix.start[n] EXCEPT !.boots = nd.boots + 1, !.request_count = 0, !.now = 0,
                                     !.next_sweep_ms = EXPIRY_PERIOD_MS]
           other == Forgotten(asked, n)
<1>1. Calls("restart", c) /\ node' = [node EXCEPT ![n] = w] /\ asked' = other
      /\ UNCHANGED <<net, mix, floods>>
  BY DEF Restart, Now, Forgotten
<1>2. inputs' \in Nat /\ inputs' <= mix.max /\ Len(asked) <= inputs' /\ n \in Node
  BY <1>1, CallFacts
<1>3. /\ NodeInv(nd, n, asked) /\ LogInv(asked) /\ NetInv(net, asked) /\ DOMAIN node = Node
      /\ mix \in Mixes
  BY <1>2 DEF IInv
<1>4. Starting(mix.start[n], mix.late[n])
  BY <1>2, <1>3, MixAssumption
<1>5. nd.boots \in Nat
  BY <1>3 DEF NodeInv, IsNode
<1> HIDE DEF nd
<1>6. /\ DOMAIN w = NodeFields /\ w.subs = mix.start[n].subs /\ w.table = mix.start[n].table
      /\ w.requests = <<>> /\ w.power = [queue |-> <<>>, waiting |-> <<>>]
      /\ w.request_count = 0 /\ w.boots = nd.boots + 1 /\ w.now = 0
      /\ w.next_sweep_ms = EXPIRY_PERIOD_MS
  BY <1>4 DEF Starting, NodeFields
<1> HIDE DEF w
<1>7. IsNode(w)
  <2>1. 0 \in 0..IdWrap - 1 /\ nd.boots + 1 \in Nat /\ 0 \in Clock /\ EXPIRY_PERIOD_MS \in Clock
    BY <1>5, PubSubAssumption, ClockAssumption DEF Clock
  <2> QED BY <1>4, <1>6, <2>1 DEF IsNode, Starting
<1>8. <<>> \in Seq({}) /\ Len(<<>>) = 0 /\ DOMAIN <<>> = {}
  OBVIOUS
<1>9. IsList(<<>>)
  BY <1>8, SeqIsList
<1>10. /\ SameAsks(asked, other) /\ LogInv(other) /\ \A m : m # n => KeptFor(m, asked, other)
       /\ \A k \in DOMAIN asked : asked[k].from = n => other[k].ends # <<>>
  BY <1>3, ForgottenFacts
<1> HIDE DEF other
<1>11. /\ Len(other) = Len(asked) /\ DOMAIN other = DOMAIN asked
       /\ \A k \in DOMAIN asked : SameAsk(asked, k, other)
  BY <1>10 DEF SameAsks
<1>12. RequestsInv(w, n, other)
  <2>1. IsRequests(<<>>)
    BY <1>8, PubSubAssumption DEF IsRequests
  <2>2. \A k \in DOMAIN other : other[k].from = n => other[k].ends # <<>>
    BY <1>10, <1>11 DEF SameAsk
  <2> QED BY <1>6, <1>8, <1>9, <2>1, <2>2 DEF RequestsInv
<1>13. WaitingInv(w)
  <2>1. IsPower(w.power)
    BY <1>6, <1>8, <1>9, PubSubAssumption DEF IsPower
  <2> QED BY <1>6, <1>8, <2>1 DEF WaitingInv
<1>14. IdsInv(w, n, other)
  <2>1. ASSUME NEW k \in DOMAIN other, other[k].from = n
        PROVE  other[k].boots <= w.boots /\ other[k].boots # w.boots
    <3>1. asked[k].from = n /\ other[k].boots = asked[k].boots /\ k \in DOMAIN asked
      BY <1>11, <2>1 DEF SameAsk
    <3>2. asked[k].boots <= nd.boots
      BY <1>3, <3>1 DEF NodeInv, IdsInv
    <3>3. asked[k].boots \in Nat
      BY <1>3, <3>1, AskFacts DEF LogInv
    <3> QED BY <1>5, <1>6, <3>1, <3>2, <3>3
  <2> QED BY <2>1 DEF IdsInv
<1>15. NodeInv(w, n, other)
  BY <1>7, <1>12, <1>13, <1>14 DEF NodeInv
<1>16. NetInv(net, other)
  BY <1>3, <1>11, NetStays
<1>17. IInv'
  <2>1. /\ mix' = mix /\ inputs' \in Nat /\ inputs' <= mix.max /\ Len(asked') <= inputs'
        /\ NodeInv(w, n, asked') /\ LogInv(asked') /\ NetInv(net', asked')
        /\ \A m : m # n => KeptFor(m, asked, asked')
    BY <1>1, <1>2, <1>10, <1>11, <1>15, <1>16
  <2> QED BY <1>1, <1>2, <2>1, Assemble
<1>18. node'[n] = w
  BY <1>1, <1>2, <1>3
<1>19. RestartShape(n)
  <2>1. node' = [node EXCEPT ![n] = node'[n]]
    BY <1>1, <1>18
  <2> QED BY <1>1, <1>6, <1>18, <2>1 DEF RestartShape, other
<1> QED BY <1>2, <1>17, <1>19

\* The log when the clock has run: the open questions are older.
Aged(log) ==
  [k \in DOMAIN log |->
     IF log[k].ends # <<>> \/ log[k].age = MaxAge THEN log[k]
     ELSE [log[k] EXCEPT !.age = @ + 1]]

LEMMA AgedFacts ==
  ASSUME NEW log, LogInv(log)
  PROVE  /\ SameAsks(log, Aged(log)) /\ LogInv(Aged(log)) /\ \A m : KeptFor(m, log, Aged(log))
         /\ \A k \in DOMAIN log :
              /\ Aged(log)[k].ends = log[k].ends
              /\ Aged(log)[k].age = IF log[k].ends # <<>> \/ log[k].age = MaxAge THEN log[k].age
                                    ELSE log[k].age + 1
<1> DEFINE z == Aged(log)
<1>1. log \in Seq(Ask)
  BY DEF LogInv
<1>2. Len(log) \in Nat /\ DOMAIN log = 1..Len(log) /\ \A k \in DOMAIN log : log[k] \in Ask
  BY <1>1, AskFacts
<1>3. ASSUME NEW a \in Ask
      PROVE  LET b == [a EXCEPT !.age = @ + 1]
             IN  /\ b \in Ask /\ b.from = a.from /\ b.boots = a.boots /\ b.id = a.id
                 /\ b.timeout = a.timeout /\ b.age = a.age + 1 /\ b.ends = a.ends
  <2>1. a.age + 1 \in Nat
    BY DEF Ask
  <2> DEFINE x == a.age + 1
             b == [a EXCEPT !.age = x]
  <2>2. x \in Nat
    BY <2>1
  <2> HIDE DEF x
  <2>3. /\ b \in Ask /\ b.from = a.from /\ b.boots = a.boots /\ b.id = a.id
        /\ b.timeout = a.timeout /\ b.age = x /\ b.ends = a.ends
    BY <2>2 DEF Ask
  <2> QED BY <2>3 DEF x
<1>4. ASSUME NEW k \in DOMAIN log
      PROVE  /\ z[k] \in Ask /\ SameAsk(log, k, z) /\ z[k].ends = log[k].ends
             /\ z[k].age = IF log[k].ends # <<>> \/ log[k].age = MaxAge THEN log[k].age
                           ELSE log[k].age + 1
  <2>1. CASE log[k].ends # <<>> \/ log[k].age = MaxAge
    <3>1. z[k] = log[k]
      BY <2>1 DEF Aged
    <3> HIDE DEF z
    <3> QED BY <1>2, <2>1, <3>1 DEF SameAsk
  <2>2. CASE ~(log[k].ends # <<>> \/ log[k].age = MaxAge)
    <3> DEFINE b == [log[k] EXCEPT !.age = @ + 1]
    <3>1. z[k] = b
      BY <2>2 DEF Aged
    <3> HIDE DEF z
    <3>2. /\ b \in Ask /\ b.from = log[k].from /\ b.boots = log[k].boots /\ b.id = log[k].id
          /\ b.timeout = log[k].timeout /\ b.age = log[k].age + 1 /\ b.ends = log[k].ends
      BY <1>2, <1>3
    <3> HIDE DEF b
    <3> QED BY <2>2, <3>1, <3>2 DEF SameAsk
  <2> QED BY <2>1, <2>2
<1>5. z = [k \in DOMAIN log |-> z[k]]
  BY DEF Aged
<1> HIDE DEF z
<1>6. SameAsks(log, z)
  BY <1>1, <1>4, <1>5, LogChanges
<1>7. LogInv(z)
  BY <1>4, <1>6, LogStays
<1>8. \A m : KeptFor(m, log, z)
  BY <1>4, <1>6 DEF KeptFor, SameAsks
<1> QED BY <1>4, <1>6, <1>7, <1>8 DEF z

\* The clocks run.
AdvanceShape ==
  /\ UNCHANGED mix /\ asked' = Aged(asked)
  /\ \A n \in Node :
       /\ node'[n].requests = node[n].requests
       /\ node'[n].now = (node[n].now + 1) % ClockWrap
       /\ node'[n].next_sweep_ms = node[n].next_sweep_ms
       /\ SweepDue(node[n].next_sweep_ms, node[n].now) =>
            (node[n].now - node[n].next_sweep_ms) % ClockWrap < mix.late[n]

LEMMA AdvanceStep ==
  ASSUME IInv, Advance
  PROVE  IInv' /\ AdvanceShape
<1> DEFINE other == Aged(asked)
<1>1. /\ node' = [n \in Node |-> [node[n] EXCEPT !.now = (@ + 1) % ClockWrap]]
      /\ asked' = other /\ UNCHANGED <<net, mix, inputs>>
      /\ \A n \in Node : SweepDue(node[n].next_sweep_ms, node[n].now) =>
                           (node[n].now - node[n].next_sweep_ms) % ClockWrap < mix.late[n]
  BY DEF Advance, Aged
<1>2. LogInv(asked) /\ NetInv(net, asked) /\ \A n \in Node : NodeInv(node[n], n, asked)
  BY DEF IInv
<1>3. SameAsks(asked, other) /\ LogInv(other) /\ \A m : KeptFor(m, asked, other)
  BY <1>2, AgedFacts
<1> HIDE DEF other
<1>4. NetInv(net, other) /\ Len(other) = Len(asked)
  BY <1>2, <1>3, NetStays DEF SameAsks
<1>5. ASSUME NEW n \in Node
      PROVE  /\ NodeInv(node'[n], n, other)
             /\ node'[n].requests = node[n].requests
             /\ node'[n].now = (node[n].now + 1) % ClockWrap
             /\ node'[n].next_sweep_ms = node[n].next_sweep_ms
  <2> DEFINE nd == node[n]
             now == (nd.now + 1) % ClockWrap
             w == [nd EXCEPT !.now = now]
  <2>1. NodeInv(nd, n, other)
    <3>1. NodeInv(nd, n, asked) /\ KeptFor(n, asked, other) /\ asked \in Seq(Ask)
          /\ other \in Seq(Ask)
      BY <1>2, <1>3 DEF LogInv
    <3> QED BY <3>1, NodeStays
  <2>2. now \in Clock
    <3>1. nd.now + 1 \in Int
      BY <2>1 DEF NodeInv, IsNode, Clock
    <3> QED BY <3>1, ClockAssumption, DivMod DEF Clock
  <2>3. node'[n] = w
    BY <1>1
  <2> HIDE DEF now, nd
  <2>4. DOMAIN nd = NodeFields
    BY <2>1 DEF NodeInv, IsNode
  <2>5. /\ DOMAIN w = NodeFields /\ w.subs = nd.subs /\ w.table = nd.table
        /\ w.requests = nd.requests /\ w.power = nd.power /\ w.request_count = nd.request_count
        /\ w.boots = nd.boots /\ w.now = now /\ w.next_sweep_ms = nd.next_sweep_ms
    BY <2>4 DEF NodeFields
  <2> HIDE DEF w
  <2>6. IsNode(w)
    BY <2>1, <2>2, <2>5 DEF IsNode, NodeInv
  <2>7. NodeInv(w, n, other)
    BY <2>1, <2>5, <2>6 DEF NodeInv, RequestsInv, WaitingInv, IdsInv
  <2> QED BY <2>3, <2>5, <2>7 DEF nd, now
<1>6. DOMAIN node' = Node
  BY <1>1
<1>7. IInv'
  BY <1>1, <1>3, <1>4, <1>5, <1>6 DEF IInv
<1>8. AdvanceShape
  BY <1>1, <1>5 DEF AdvanceShape, other
<1> QED BY <1>7, <1>8

------------------------------------------------------------------------------
(* The invariant holds. *)

LEMMA InitHolds == Init => IInv
<1> SUFFICES ASSUME Init
             PROVE  IInv
  OBVIOUS
<1>1. /\ mix \in Mixes /\ inputs = 0 /\ node = mix.start /\ asked = <<>>
      /\ net = [l \in DOMAIN Peer |-> <<>>]
  BY DEF Init
<1>2. /\ mix.max \in Nat /\ DOMAIN mix.start = Node
      /\ \A n \in Node : mix.late[n] \in Nat /\ Starting(mix.start[n], mix.late[n])
  BY <1>1, MixAssumption
<1>3. <<>> \in Seq({}) /\ <<>> \in Seq(Ask) /\ Len(<<>>) = 0 /\ DOMAIN <<>> = {}
  OBVIOUS
<1>4. IsList(<<>>)
  BY <1>3, SeqIsList
<1>5. LogInv(<<>>)
  BY <1>3 DEF LogInv
<1>6. NetInv(net, <<>>)
  BY <1>1, <1>3, <1>4 DEF NetInv
<1>7. ASSUME NEW n \in Node
      PROVE  NodeInv(node[n], n, <<>>)
  <2> DEFINE nd == node[n]
  <2>1. Starting(nd, mix.late[n]) /\ mix.late[n] \in Nat
    BY <1>1, <1>2
  <2> HIDE DEF nd
  <2>2. nd.requests = <<>> /\ nd.power = [queue |-> <<>>, waiting |-> <<>>]
    BY <2>1 DEF Starting
  <2>3. nd.now \in Clock
    <3>1. PICK d \in -EXPIRY_PERIOD_MS..mix.late[n] : nd.now = (nd.next_sweep_ms + d) % ClockWrap
      BY <2>1 DEF Starting
    <3>2. nd.next_sweep_ms + d \in Int
      BY <2>1, <3>1, PubSubAssumption DEF Starting, Clock
    <3> QED BY <3>1, <3>2, ClockAssumption, DivMod DEF Clock
  <2>4. IsNode(nd)
    BY <2>1, <2>3 DEF Starting, IsNode
  <2>5. IsRequests(<<>>)
    BY <1>3, PubSubAssumption DEF IsRequests
  <2>6. RequestsInv(nd, n, <<>>)
    BY <1>3, <1>4, <2>2, <2>5 DEF RequestsInv
  <2>7. IsPower(nd.power)
    BY <1>3, <1>4, <2>2, PubSubAssumption DEF IsPower
  <2>8. WaitingInv(nd) /\ IdsInv(nd, n, <<>>)
    BY <1>3, <2>2, <2>7 DEF WaitingInv, IdsInv
  <2>9. NodeInv(nd, n, <<>>)
    BY <2>4, <2>6, <2>8 DEF NodeInv
  <2> QED BY <2>9 DEF nd
<1> QED BY <1>1, <1>2, <1>3, <1>5, <1>6, <1>7 DEF IInv

\* What a step can be.
StepShape ==
  \/ QuietStep
  \/ \E n \in Node : AnswerShape(n) \/ AskShape(n) \/ SweepShape(n) \/ RestartShape(n)
  \/ AdvanceShape

LEMMA NextHolds ==
  ASSUME IInv, [Next]_vars
  PROVE  IInv' /\ StepShape
<1>1. ASSUME QuietStep
      PROVE  IInv' /\ StepShape
  BY <1>1, ListsFacts DEF StepShape
<1>2. CASE Call
  <2>1. PICK c \in mix.inputs :
          \/ Subscribe(c) \/ Unsubscribe(c) \/ Publish(c)
          \/ RegisterService(c) \/ UnregisterService(c) \/ ServiceRequest(c)
          \/ Send(c) \/ Restart(c)
    BY <1>2 DEF Call
  <2>2. CASE Subscribe(c) \/ Unsubscribe(c) \/ RegisterService(c) \/ UnregisterService(c)
    BY <1>1, <2>2, ListCalls
  <2>3. CASE Publish(c) \/ Send(c)
    BY <1>1, <2>3, SendCalls
  <2>4. CASE ServiceRequest(c)
    BY <2>4, RequestStep DEF StepShape
  <2>5. CASE Restart(c)
    BY <2>5, RestartStep DEF StepShape
  <2> QED BY <2>1, <2>2, <2>3, <2>4, <2>5
<1>3. CASE \E l \in DOMAIN Peer : Receive(l) \/ Lose(l)
  <2>1. PICK l \in DOMAIN Peer : Receive(l) \/ Lose(l)
    BY <1>3
  <2>2. CASE ReceivePublication(l)
    <3>1. IInv' /\ l[1] \in Node /\ AnswerShape(l[1])
      BY <2>2, PublicationStep
    <3> QED BY <3>1 DEF StepShape
  <2>3. CASE ReceiveUdp(l) \/ ReceiveBcmp(l) \/ Lose(l)
    BY <1>1, <2>3, OtherFrames
  <2> QED BY <2>1, <2>2, <2>3 DEF Receive
<1>4. CASE \E n \in Node : Sweep(n)
  BY <1>4, SweepFacts DEF StepShape
<1>5. CASE Advance
  BY <1>5, AdvanceStep DEF StepShape
<1>6. CASE UNCHANGED vars
  <2>1. /\ UNCHANGED <<node, net, mix, inputs, asked>>
    BY <1>6 DEF vars
  <2>2. QuietStep
    BY <2>1 DEF QuietStep, ListsChange, IInv
  <2> QED BY <1>1, <2>2
<1> QED BY <1>2, <1>3, <1>4, <1>5, <1>6 DEF Next

LEMMA Invariant == Spec => []IInv
<1>1. IInv /\ [Next]_vars => IInv'
  BY NextHolds
<1> QED BY InitHolds, <1>1, PTL DEF Spec

\* take and answer_request: a request ends once, and an answer is to this
\* request or to one its node made before it restarted, however many nodes
\* ask, answer, forward, lose and restart.
THEOREM RequestsEndOnce == Spec => []EndsOnce
<1>1. IInv => EndsOnce
  BY DEF IInv, LogInv, EndedRight, EndsOnce
<1> QED BY Invariant, <1>1, PTL

\* Callbacks::push and on_end: the power-info callbacks that wait are those of
\* requests that are listed, one each, and no list outgrows its array.
THEOREM CallbacksWaitListed == Spec => []WaitingIsListed
<1>1. ASSUME IInv
      PROVE  WaitingIsListed
  <2>1. ASSUME NEW n \in Node
        PROVE  /\ IsSubscriptions(node[n].subs) /\ IsServiceTable(node[n].table)
               /\ IsRequests(node[n].requests) /\ WaitingInv(node[n])
    BY <1>1 DEF IInv, NodeInv, IsNode, RequestsInv
  <2> QED BY <2>1 DEF WaitingIsListed, WaitingInv, IsPower
<1> QED BY Invariant, <1>1, PTL

------------------------------------------------------------------------------
(* Requests in time.  A sweep runs at most late after it is due, and the   *)
(* next is due within a period after it: a request listed longer than its  *)
(* timeout and a period is one that the next sweep, that late, ends.       *)

\* The timeouts whose end the 32-bit clock can tell.
Bounded(a, late) ==
  LET slack == EXPIRY_PERIOD_MS + late
      w == a.timeout % ClockWrap
  IN  2 * (w - slack) >= ClockWrap \/ 2 * (w + slack + 1) < ClockWrap
Wait(a, late) ==
  LET slack == EXPIRY_PERIOD_MS + late
      w == a.timeout % ClockWrap
  IN  IF 2 * (w - slack) >= ClockWrap THEN 0 ELSE w
\* The request r of question a is e old, and the next sweep was due d ago.
Since(r, now, a, late, d, e) ==
  /\ now = (r.start_ms + e) % ClockWrap
  /\ a.age = IF e < MaxAge THEN e ELSE MaxAge
  /\ r.timeout_ms = a.timeout % ClockWrap
  /\ Bounded(a, late) => e <= Wait(a, late) + d + EXPIRY_PERIOD_MS
Timed(nd, log, late, d) ==
  /\ nd.now = (nd.next_sweep_ms + d) % ClockWrap
  /\ \A i \in DOMAIN nd.requests :
       \E e \in Nat : Since(nd.requests[i], nd.now, log[nd.requests[i].no], late, d, e)
EndTimed(a, late) ==
  a.ends # <<>> /\ Bounded(a, late) =>
    /\ a.age <= Wait(a, late) + EXPIRY_PERIOD_MS + late
    /\ \A i \in DOMAIN a.ends :
         a.ends[i].how = "expired" /\ Wait(a, late) <= MaxAge => a.age >= Wait(a, late)
TimeInv ==
  /\ \A n \in Node : \E d \in -EXPIRY_PERIOD_MS..mix.late[n] : Timed(node[n], asked, mix.late[n], d)
  /\ \A k \in DOMAIN asked : EndTimed(asked[k], mix.late[asked[k].from])

\* What is known of timeouts and lateness.
LEMMA LateFacts ==
  ASSUME IInv, NEW n \in Node
  PROVE  /\ mix.late[n] \in Nat /\ 2 * (mix.late[n] + 1) < ClockWrap
         /\ EXPIRY_PERIOD_MS \in Nat \ {0} /\ 2 * EXPIRY_PERIOD_MS < ClockWrap
         /\ ClockWrap \in Nat \ {0} /\ MaxAge \in Nat
<1>1. mix \in Mixes
  BY DEF IInv
<1>2. mix.late[n] \in Nat
  BY <1>1, MixAssumption
<1>3. 2 * (mix.late[n] + 1) < ClockWrap
  BY <1>1, ServicesAssumption
<1> QED BY <1>2, <1>3, ServicesAssumption, PubSubAssumption, ClockAssumption
LEMMA WaitFacts ==
  ASSUME NEW late \in Nat, NEW a, a.timeout \in Nat
  PROVE  Wait(a, late) \in Nat
<1> DEFINE w == a.timeout % ClockWrap
<1>1. w \in Nat
  BY ClockAssumption, DivMod
<1> HIDE DEF w
<1>2. Wait(a, late) = 0 \/ Wait(a, late) = w
  BY DEF Wait, w
<1> QED BY <1>1, <1>2

\* The age and the timeout of a question are all that counts.
SameTimes(a, b) == b.age = a.age /\ b.timeout = a.timeout
LEMMA SinceSame ==
  ASSUME NEW r, NEW now, NEW a, NEW b, NEW late, NEW d, NEW e,
         SameTimes(a, b), Since(r, now, a, late, d, e)
  PROVE  Since(r, now, b, late, d, e)
BY DEF Since, SameTimes, Bounded, Wait
LEMMA EndSame ==
  ASSUME NEW a, NEW b, NEW late, SameTimes(a, b), b.ends = a.ends, EndTimed(a, late)
  PROVE  EndTimed(b, late)
BY DEF EndTimed, SameTimes, Bounded, Wait

\* A node that keeps its clock and lists no request it did not.
LEMMA TimedKept ==
  ASSUME NEW nd, NEW w, NEW log, NEW other, NEW late, NEW d, Timed(nd, log, late, d),
         w.now = nd.now, w.next_sweep_ms = nd.next_sweep_ms,
         \A j \in DOMAIN w.requests :
           \E i \in DOMAIN nd.requests :
             /\ w.requests[j] = nd.requests[i]
             /\ SameTimes(log[nd.requests[i].no], other[nd.requests[i].no])
  PROVE  Timed(w, other, late, d)
<1>1. ASSUME NEW j \in DOMAIN w.requests
      PROVE  \E e \in Nat : Since(w.requests[j], w.now, other[w.requests[j].no], late, d, e)
  <2>1. PICK i \in DOMAIN nd.requests :
          /\ w.requests[j] = nd.requests[i]
          /\ SameTimes(log[nd.requests[i].no], other[nd.requests[i].no])
    OBVIOUS
  <2>2. PICK e \in Nat : Since(nd.requests[i], nd.now, log[nd.requests[i].no], late, d, e)
    BY DEF Timed
  <2>3. Since(nd.requests[i], nd.now, other[nd.requests[i].no], late, d, e)
    BY <2>1, <2>2, SinceSame
  <2> QED BY <2>1, <2>3
<1> QED BY <1>1 DEF Timed

\* One node's step.
LEMMA TimedOne ==
  ASSUME IInv, IInv', TimeInv, mix' = mix, NEW n \in Node,
         node' = [node EXCEPT ![n] = node'[n]],
         NEW d \in -EXPIRY_PERIOD_MS..mix.late[n], Timed(node'[n], asked', mix.late[n], d),
         \A k \in DOMAIN asked : SameTimes(asked[k], asked'[k]),
         \A k \in DOMAIN asked' : EndTimed(asked'[k], mix.late[asked'[k].from])
  PROVE  TimeInv'
<1>1. DOMAIN node = Node /\ \A m \in Node : m # n => node'[m] = node[m]
  BY DEF IInv
<1>2. ASSUME NEW m \in Node, m # n
      PROVE  \E x \in -EXPIRY_PERIOD_MS..mix.late[m] : Timed(node'[m], asked', mix.late[m], x)
  <2> DEFINE nd == node[m]
             late == mix.late[m]
  <2>1. PICK x \in -EXPIRY_PERIOD_MS..late : Timed(nd, asked, late, x)
    BY DEF TimeInv
  <2>2. \A i \in DOMAIN nd.requests : nd.requests[i].no \in DOMAIN asked
    BY DEF IInv, NodeInv, RequestsInv, Asked
  <2> HIDE DEF nd, late
  <2>3. Timed(nd, asked', late, x)
    BY <2>1, <2>2, TimedKept
  <2> QED BY <1>1, <1>2, <2>1, <2>3 DEF nd, late
<1>3. \A m \in Node : \E x \in -EXPIRY_PERIOD_MS..mix.late[m] : Timed(node'[m], asked', mix.late[m], x)
  BY <1>2
<1> QED BY <1>3 DEF TimeInv

\* A question that is listed is not late.
LEMMA ListedInTime ==
  ASSUME IInv, NEW n \in Node, NEW d \in -EXPIRY_PERIOD_MS..mix.late[n],
         Timed(node[n], asked, mix.late[n], d), NEW i \in DOMAIN node[n].requests
  PROVE  LET a == asked[node[n].requests[i].no]
         IN  Bounded(a, mix.late[n]) => a.age <= Wait(a, mix.late[n]) + EXPIRY_PERIOD_MS + mix.late[n]
<1> DEFINE late == mix.late[n]
           r == node[n].requests[i]
           a == asked[r.no]
           wait == Wait(a, late)
<1>1. late \in Nat /\ EXPIRY_PERIOD_MS \in Nat /\ MaxAge \in Nat
  BY LateFacts
<1>2. a \in Ask /\ r.no \in DOMAIN asked
  BY AskFacts DEF IInv, NodeInv, RequestsInv, Asked, LogInv
<1>3. a.timeout \in Nat
  BY <1>2 DEF Ask
<1>4. PICK e \in Nat : Since(r, node[n].now, a, late, d, e)
  BY DEF Timed
<1>5. d \in -EXPIRY_PERIOD_MS..late
  OBVIOUS
<1> HIDE DEF late, r, a, wait
<1>6. wait \in Nat
  BY <1>1, <1>3, WaitFacts DEF wait
<1>7. ASSUME Bounded(a, late)
      PROVE  a.age <= wait + EXPIRY_PERIOD_MS + late
  <2>1. e <= wait + d + EXPIRY_PERIOD_MS /\ a.age = IF e < MaxAge THEN e ELSE MaxAge
    BY <1>4, <1>7 DEF Since, wait
  <2>2. a.age <= e
    BY <1>1, <2>1
  <2>3. a.age \in Nat
    BY <1>1, <2>1
  <2>4. d \in Int /\ d <= late
    BY <1>1, <1>5
  <2> QED BY <1>1, <1>6, <2>1, <2>2, <2>3, <2>4
<1> QED BY <1>7 DEF late, r, a, wait

\* What the step of one node, that asks nothing, does to questions.
LEMMA EndsInTime ==
  ASSUME IInv, TimeInv, NEW n \in Node, NEW other, SameAsks(asked, other),
         \A k \in DOMAIN asked :
           /\ other[k].age = asked[k].age
           /\ \/ other[k].ends = asked[k].ends
              \/ /\ \E i \in DOMAIN node[n].requests : node[n].requests[i].no = k
                 /\ \A x \in DOMAIN other[k].ends : other[k].ends[x].how # "expired"
  PROVE  \A k \in DOMAIN other : EndTimed(other[k], mix.late[other[k].from])
<1> SUFFICES ASSUME NEW k \in DOMAIN other
             PROVE  EndTimed(other[k], mix.late[other[k].from])
  OBVIOUS
<1>1. k \in DOMAIN asked /\ SameAsk(asked, k, other) /\ other[k].age = asked[k].age
  BY DEF SameAsks
<1>2. SameTimes(asked[k], other[k]) /\ other[k].from = asked[k].from
  BY <1>1 DEF SameAsk, SameTimes
<1>3. CASE other[k].ends = asked[k].ends
  BY <1>1, <1>2, <1>3, EndSame DEF TimeInv
<1>4. CASE other[k].ends # asked[k].ends
  <2>1. PICK i \in DOMAIN node[n].requests : node[n].requests[i].no = k
    BY <1>1, <1>4
  <2>2. asked[k].from = n
    BY <2>1 DEF IInv, NodeInv, RequestsInv, Asked
  <2>3. PICK d \in -EXPIRY_PERIOD_MS..mix.late[n] : Timed(node[n], asked, mix.late[n], d)
    BY DEF TimeInv
  <2> DEFINE late == mix.late[n]
             a == asked[k]
             b == other[k]
  <2>4. Bounded(a, late) => a.age <= Wait(a, late) + EXPIRY_PERIOD_MS + late
    BY <2>1, <2>3, ListedInTime
  <2>5. \A x \in DOMAIN b.ends : b.ends[x].how # "expired"
    BY <1>1, <1>4
  <2>6. SameTimes(a, b) /\ mix.late[b.from] = late
    BY <1>2, <2>2
  <2> HIDE DEF late, a, b
  <2>7. EndTimed(b, late)
    BY <2>4, <2>5, <2>6 DEF EndTimed, SameTimes, Bounded, Wait
  <2> QED BY <2>6, <2>7 DEF b
<1> QED BY <1>3, <1>4

\* Nothing is asked and nothing ends, or an answer ends something.
LEMMA QuietInTime ==
  ASSUME IInv, IInv', TimeInv, QuietStep
  PROVE  TimeInv'
<1>1. mix' = mix /\ asked' = asked
  BY DEF QuietStep
<1>2. CASE UNCHANGED node
  BY <1>1, <1>2 DEF TimeInv
<1>3. CASE ~UNCHANGED node
  <2>1. PICK n \in Node : /\ node' = [node EXCEPT ![n] = node'[n]]
                          /\ SameRequests(node[n], node'[n])
    BY <1>3 DEF QuietStep, ListsChange
  <2>2. PICK d \in -EXPIRY_PERIOD_MS..mix.late[n] : Timed(node[n], asked, mix.late[n], d)
    BY DEF TimeInv
  <2> DEFINE w == node'[n]
             late == mix.late[n]
  <2>3. SameRequests(node[n], w)
    BY <2>1
  <2> HIDE DEF w, late
  <2>4. Timed(w, asked, late, d)
    BY <2>2, <2>3 DEF Timed, SameRequests, late
  <2>5. \A k \in DOMAIN asked : SameTimes(asked[k], asked'[k])
    BY <1>1 DEF SameTimes
  <2>6. \A k \in DOMAIN asked' : EndTimed(asked'[k], mix.late[asked'[k].from])
    BY <1>1 DEF TimeInv
  <2>7. Timed(node'[n], asked', mix.late[n], d)
    BY <1>1, <2>4 DEF w, late
  <2> QED BY <1>1, <2>1, <2>2, <2>5, <2>6, <2>7, TimedOne
<1> QED BY <1>2, <1>3

LEMMA AnswerInTime ==
  ASSUME IInv, IInv', TimeInv, NEW n \in Node, AnswerShape(n)
  PROVE  TimeInv'
<1>1. /\ mix' = mix /\ node' = [node EXCEPT ![n] = node'[n]]
      /\ Ends(node[n], node'[n], asked, asked') /\ SameNode(node[n], node'[n])
  BY DEF AnswerShape
<1>2. /\ SameAsks(asked, asked')
      /\ \A k \in DOMAIN asked :
           /\ asked'[k].age = asked[k].age
           /\ \/ asked'[k].ends = asked[k].ends
              \/ /\ \E i \in DOMAIN node[n].requests : node[n].requests[i].no = k
                 /\ \A x \in DOMAIN asked'[k].ends : asked'[k].ends[x].how # "expired"
  BY <1>1 DEF Ends
<1>3. \A k \in DOMAIN asked : SameTimes(asked[k], asked'[k])
  BY <1>2 DEF SameAsks, SameAsk, SameTimes
<1>4. PICK d \in -EXPIRY_PERIOD_MS..mix.late[n] : Timed(node[n], asked, mix.late[n], d)
  BY DEF TimeInv
<1> DEFINE nd == node[n]
           w == node'[n]
           other == asked'
           late == mix.late[n]
<1>5. \A i \in DOMAIN nd.requests : nd.requests[i].no \in DOMAIN asked
  BY DEF IInv, NodeInv, RequestsInv, Asked
<1>6. Ends(nd, w, asked, other) /\ SameNode(nd, w) /\ Timed(nd, asked, late, d)
      /\ \A k \in DOMAIN asked : SameTimes(asked[k], other[k])
  BY <1>1, <1>3, <1>4
<1>7. SameAsks(asked, other)
      /\ \A k \in DOMAIN asked :
           /\ other[k].age = asked[k].age
           /\ \/ other[k].ends = asked[k].ends
              \/ /\ \E i \in DOMAIN node[n].requests : node[n].requests[i].no = k
                 /\ \A x \in DOMAIN other[k].ends : other[k].ends[x].how # "expired"
  BY <1>2
<1> HIDE DEF nd, w, other, late
<1>8. Timed(w, other, late, d)
  <2>1. \A j \in DOMAIN w.requests :
          \E i \in DOMAIN nd.requests :
            /\ w.requests[j] = nd.requests[i]
            /\ SameTimes(asked[nd.requests[i].no], other[nd.requests[i].no])
    BY <1>5, <1>6 DEF Ends
  <2>2. w.now = nd.now /\ w.next_sweep_ms = nd.next_sweep_ms
    BY <1>6 DEF SameNode
  <2> QED BY <1>6, <2>1, <2>2, TimedKept
<1>9. \A k \in DOMAIN other : EndTimed(other[k], mix.late[other[k].from])
  BY <1>7, EndsInTime
<1>10. \A k \in DOMAIN asked' : EndTimed(asked'[k], mix.late[asked'[k].from])
  BY <1>9 DEF other
<1>11. Timed(node'[n], asked', mix.late[n], d)
  BY <1>8 DEF w, other, late
<1> QED BY <1>1, <1>3, <1>4, <1>10, <1>11, TimedOne

\* A restart: a clock at zero, a sweep a period away and nothing listed.
LEMMA RestartInTime ==
  ASSUME IInv, IInv', TimeInv, NEW n \in Node, RestartShape(n)
  PROVE  TimeInv'
<1> DEFINE other == Forgotten(asked, n)
           late == mix.late[n]
           w == node'[n]
           d == -EXPIRY_PERIOD_MS
<1>1. /\ mix' = mix /\ node' = [node EXCEPT ![n] = w] /\ asked' = other
      /\ w.requests = <<>> /\ w.now = 0 /\ w.next_sweep_ms = EXPIRY_PERIOD_MS
  BY DEF RestartShape
<1>2. late \in Nat /\ EXPIRY_PERIOD_MS \in Nat /\ ClockWrap \in Nat \ {0}
  BY LateFacts
<1>3. /\ SameAsks(asked, other)
      /\ \A k \in DOMAIN asked :
           /\ other[k].age = asked[k].age
           /\ \/ other[k].ends = asked[k].ends
              \/ \A i \in DOMAIN other[k].ends : other[k].ends[i].how = "forgotten"
  BY ForgottenFacts DEF IInv
<1>4. ASSUME NEW k \in DOMAIN asked, other[k].ends # asked[k].ends
      PROVE  \E i \in DOMAIN node[n].requests : node[n].requests[i].no = k
  <2>1. asked[k].from = n /\ asked[k].ends = <<>>
    <3>1. CASE asked[k].from # n \/ asked[k].ends # <<>>
      BY <1>4, <3>1 DEF Forgotten
    <3> QED BY <3>1
  <2> QED BY <2>1 DEF IInv, NodeInv, RequestsInv
<1> HIDE DEF other, late, w
<1>5. \A k \in DOMAIN other : EndTimed(other[k], mix.late[other[k].from])
  BY <1>3, <1>4, EndsInTime
<1>6. Timed(w, other, late, d)
  <2>1. (EXPIRY_PERIOD_MS + d) % ClockWrap = 0
    BY <1>2
  <2>2. DOMAIN <<>> = {}
    OBVIOUS
  <2> HIDE DEF d
  <2> QED BY <1>1, <2>1, <2>2 DEF Timed
<1>7. \A k \in DOMAIN asked : SameTimes(asked[k], other[k])
  BY <1>3 DEF SameAsks, SameAsk, SameTimes
<1>8. d \in -EXPIRY_PERIOD_MS..late
  BY <1>2
<1> HIDE DEF d
<1>9. /\ node' = [node EXCEPT ![n] = node'[n]]
      /\ Timed(node'[n], asked', mix.late[n], d) /\ d \in -EXPIRY_PERIOD_MS..mix.late[n]
      /\ \A k \in DOMAIN asked : SameTimes(asked[k], asked'[k])
      /\ \A k \in DOMAIN asked' : EndTimed(asked'[k], mix.late[asked'[k].from])
  BY <1>1, <1>5, <1>6, <1>7, <1>8 DEF late, w
<1> QED BY <1>1, <1>9, TimedOne

\* A new request is listed at its start.
LEMMA AskInTime ==
  ASSUME IInv, IInv', TimeInv, NEW n \in Node, AskShape(n)
  PROVE  TimeInv'
<1> DEFINE nd == node[n]
           w == node'[n]
           late == mix.late[n]
<1>1. PICK d \in -EXPIRY_PERIOD_MS..mix.late[n] : Timed(node[n], asked, mix.late[n], d)
  BY DEF TimeInv
<1>2. PICK timeout_s \in Nat : \E service :
        /\ asked' = Append(asked, NewAsk(nd, n, timeout_s * MS))
        /\ w.requests = Append(nd.requests, NewRequest(nd, service, timeout_s, Len(asked) + 1))
  BY DEF AskShape
<1>3. PICK service :
        /\ asked' = Append(asked, NewAsk(nd, n, timeout_s * MS))
        /\ w.requests = Append(nd.requests, NewRequest(nd, service, timeout_s, Len(asked) + 1))
  BY <1>2
<1>4. mix' = mix /\ node' = [node EXCEPT ![n] = w] /\ w.now = nd.now
      /\ w.next_sweep_ms = nd.next_sweep_ms
  BY DEF AskShape
<1> DEFINE ms == timeout_s * MS
           a == NewAsk(nd, n, ms)
           no == Len(asked) + 1
           r == NewRequest(nd, service, timeout_s, no)
           top == Len(nd.requests) + 1
<1>5. /\ IsList(nd.requests) /\ asked \in Seq(Ask) /\ nd.now \in Clock
      /\ nd.request_count \in 0..IdWrap - 1 /\ nd.boots \in Nat
      /\ \A i \in DOMAIN nd.requests : nd.requests[i].no \in DOMAIN asked
  BY DEF IInv, NodeInv, RequestsInv, IsNode, Asked, LogInv
<1>6. /\ late \in Nat /\ EXPIRY_PERIOD_MS \in Nat /\ ClockWrap \in Nat \ {0} /\ MaxAge \in Nat
      /\ d \in -EXPIRY_PERIOD_MS..late
  BY LateFacts
<1>7. ms \in Nat
  BY PubSubAssumption
<1>8. /\ a.age = 0 /\ a.timeout = ms /\ a.ends = <<>> /\ a.from = n
      /\ r.start_ms = nd.now /\ r.timeout_ms = ms % ClockWrap /\ r.no = no
  BY DEF NewAsk, NewRequest
<1>9. a \in Ask
  <2>1. <<>> \in Seq([how : Ending, re : Nat])
    OBVIOUS
  <2> HIDE DEF nd, ms
  <2> QED BY <1>5, <1>7, <2>1 DEF Ask, NewAsk
<1>10. Len(asked) \in Nat
  BY <1>5, AskFacts
<1>11. no \in 1..no
  BY <1>10
<1> HIDE DEF a, ms
<1>12. /\ DOMAIN Append(asked, a) = 1..no /\ DOMAIN asked \subseteq DOMAIN Append(asked, a)
       /\ \A k \in DOMAIN asked : Append(asked, a)[k] = asked[k]
       /\ Append(asked, a)[no] = a
       /\ \A k \in DOMAIN Append(asked, a) : k \in DOMAIN asked \/ k = no
  BY <1>5, <1>9, LogGrows
<1> HIDE DEF r, no
<1>13. /\ asked' = Append(asked, a) /\ w.requests = Append(nd.requests, r)
  BY <1>3 DEF a, ms, r, no
<1>14. /\ DOMAIN w.requests = 1..top
       /\ \A i \in DOMAIN nd.requests : w.requests[i] = nd.requests[i]
       /\ w.requests[top] = r
  <2> HIDE DEF nd
  <2> QED BY <1>5, <1>13, AppendList
<1>15. DOMAIN nd.requests = 1..Len(nd.requests)
  BY <1>5, ListFacts
<1>16. \A i \in 1..top : i \in 1..Len(nd.requests) \/ i = top
  <2>1. Len(nd.requests) \in Nat
    BY <1>5, ListFacts
  <2> QED BY <2>1
<1> DEFINE other == asked'
<1>17. /\ \A k \in DOMAIN asked : other[k] = asked[k]
       /\ other[no] = a /\ \A k \in DOMAIN other : k \in DOMAIN asked \/ k = no
  BY <1>12, <1>13
<1> HIDE DEF nd, w, late, other, top
<1>18. Since(r, w.now, a, late, d, 0)
  <2>1. (nd.now + 0) % ClockWrap = nd.now
    BY <1>5, ClockSteps
  <2>2. a.age = IF 0 < MaxAge THEN 0 ELSE MaxAge
    BY <1>6, <1>8
  <2>3. Wait(a, late) \in Nat
    BY <1>6, <1>7, <1>8, WaitFacts
  <2>4. 0 <= Wait(a, late) + d + EXPIRY_PERIOD_MS
    BY <1>6, <2>3
  <2> QED BY <1>4, <1>8, <2>1, <2>2, <2>4 DEF Since
<1>19. Timed(w, other, late, d)
  <2>1. ASSUME NEW i \in DOMAIN w.requests
        PROVE  \E e \in Nat : Since(w.requests[i], w.now, other[w.requests[i].no], late, d, e)
    <3>1. CASE i = top
      <4>1. 0 \in Nat
        OBVIOUS
      <4> QED BY <1>8, <1>14, <1>17, <1>18, <3>1, <4>1
    <3>2. CASE i \in DOMAIN nd.requests
      <4>1. PICK e \in Nat : Since(nd.requests[i], nd.now, asked[nd.requests[i].no], late, d, e)
        BY <1>1, <3>2 DEF Timed, nd, late
      <4> QED BY <1>4, <1>5, <1>14, <1>17, <3>2, <4>1
    <3> QED BY <1>14, <1>15, <1>16, <3>1, <3>2
  <2> QED BY <1>1, <1>4, <2>1 DEF Timed, nd, late
<1>20. ASSUME NEW k \in DOMAIN other
       PROVE  EndTimed(other[k], mix.late[other[k].from])
  <2>1. CASE k = no
    BY <1>8, <1>17, <2>1 DEF EndTimed
  <2>2. CASE k \in DOMAIN asked
    BY <1>17, <2>2 DEF TimeInv
  <2> QED BY <1>17, <2>1, <2>2
<1>21. \A k \in DOMAIN asked : SameTimes(asked[k], other[k])
  BY <1>17 DEF SameTimes
<1>22. /\ node' = [node EXCEPT ![n] = node'[n]] /\ Timed(node'[n], asked', mix.late[n], d)
       /\ \A k \in DOMAIN asked : SameTimes(asked[k], asked'[k])
       /\ \A k \in DOMAIN asked' : EndTimed(asked'[k], mix.late[asked'[k].from])
  BY <1>4, <1>19, <1>20, <1>21 DEF w, late, other
<1> QED BY <1>1, <1>4, <1>22, TimedOne

------------------------------------------------------------------------------
(* The clock and the sweeps. *)

\* What a clock that has run e on says is left.
LEMMA LeftFacts ==
  ASSUME NEW start \in Clock, NEW e \in Int, NEW timeout \in Int
  PROVE  (start + timeout - ((start + e) % ClockWrap)) % ClockWrap = (timeout - e) % ClockWrap
<1> USE ClockAssumption
<1> DEFINE a == start + e
           b == start + timeout
           x == a % ClockWrap
<1>1. a \in Int /\ b \in Int /\ b - a = timeout - e
  BY DEF Clock
<1>2. x \in Int
  <2> HIDE DEF a
  <2> QED BY <1>1, DivMod
<1> HIDE DEF a, b
<1>3. (b - x) % ClockWrap = (b - a) % ClockWrap
  BY <1>1, ModSub
<1> HIDE DEF x
<1>4. start + timeout - x = b - x
  BY <1>2 DEF b, Clock
<1> QED BY <1>1, <1>3, <1>4 DEF x, a

\* A timeout too far ahead for the clock is over.
LEMMA PastFacts ==
  ASSUME NEW start \in Clock, NEW timeout \in Clock, NEW slack \in Nat, NEW e \in Nat,
         e <= slack, 2 * (timeout - slack) >= ClockWrap
  PROVE  TimeRemaining(start, (start + e) % ClockWrap, timeout) = 0
<1> DEFINE left == (start + timeout - ((start + e) % ClockWrap)) % ClockWrap
<1>1. timeout \in Int /\ e \in Int /\ timeout - e \in 0..ClockWrap - 1
  BY ClockAssumption DEF Clock
<1>2. left = (timeout - e) % ClockWrap
  BY <1>1, LeftFacts
<1>3. (timeout - e) % ClockWrap = timeout - e
  BY <1>1, ClockAssumption
<1>4. TimeRemaining(start, (start + e) % ClockWrap, timeout)
        = IF 2 * left >= ClockWrap THEN 0 ELSE left
  BY DEF TimeRemaining
<1> HIDE DEF left
<1>5. 2 * left >= ClockWrap
  BY <1>1, <1>2, <1>3, ClockAssumption
<1> QED BY <1>4, <1>5

\* A sweep is due when it is not early, and then it is known how late it is.
LEMMA DueFacts ==
  ASSUME NEW next \in Clock, NEW late \in Nat, 2 * (late + 1) < ClockWrap,
         NEW d \in -EXPIRY_PERIOD_MS..late
  PROVE  LET now == (next + d) % ClockWrap
         IN  /\ SweepDue(next, now) <=> d >= 0
             /\ d >= 0 => (now - next) % ClockWrap = d
<1>1. /\ EXPIRY_PERIOD_MS \in Nat \ {0} /\ 2 * EXPIRY_PERIOD_MS < ClockWrap
      /\ ClockWrap \in Nat \ {0}
  BY PubSubAssumption, ClockAssumption
<1> DEFINE now == (next + d) % ClockWrap
           x == (now - next) % ClockWrap
<1>2. d \in Int /\ d <= late /\ d >= -EXPIRY_PERIOD_MS
  BY <1>1
<1>3. x = d % ClockWrap
  <2> DEFINE a == next + d
             b == -next
             m == a % ClockWrap
  <2>1. a \in Int /\ b \in Int /\ a + b = d
    BY <1>2 DEF Clock
  <2>2. m \in Int
    <3> HIDE DEF a
    <3> QED BY <1>1, <2>1, DivMod
  <2> HIDE DEF a, b
  <2>3. (m + b) % ClockWrap = (a + b) % ClockWrap
    BY <1>1, <2>1, ModAdd
  <2> HIDE DEF m
  <2>4. m + b = m - next
    BY <2>2 DEF b, Clock
  <2>5. now = m
    BY DEF m, a
  <2> HIDE DEF now
  <2> QED BY <2>1, <2>3, <2>4, <2>5
<1>4. SweepDue(next, now) <=> 2 * x < ClockWrap
  BY DEF SweepDue
<1> HIDE DEF x, now
<1>5. CASE d >= 0
  <2>1. d % ClockWrap = d
    BY <1>1, <1>2, <1>5
  <2>2. 2 * d < ClockWrap
    BY <1>1, <1>2, <1>5
  <2> QED BY <1>3, <1>4, <1>5, <2>1, <2>2 DEF x, now
<1>6. CASE d < 0
  <2> DEFINE r == ClockWrap + d
  <2>1. r \in 0..ClockWrap - 1 /\ d = ClockWrap * (-1) + r /\ 2 * r >= ClockWrap
    BY <1>1, <1>2, <1>6
  <2> HIDE DEF r
  <2>2. (ClockWrap * (-1) + r) % ClockWrap = r
    BY <1>1, <2>1, ModUnique
  <2>3. x = r
    BY <1>3, <2>1, <2>2
  <2>4. ~(2 * x < ClockWrap)
    BY <1>1, <2>1, <2>3
  <2> QED BY <1>2, <1>4, <1>6, <2>4 DEF now
<1> QED BY <1>2, <1>5, <1>6 DEF now, x

\* The next sweep is due within a period after now, on the grid.
LEMMA NextDue ==
  ASSUME NEW next \in Clock, NEW d \in Nat,
         (((next + d) % ClockWrap) - next) % ClockWrap = d
  PROVE  LET now == (next + d) % ClockWrap
             after == (d % EXPIRY_PERIOD_MS) - EXPIRY_PERIOD_MS
         IN  /\ now = (NextSweep(next, now) + after) % ClockWrap
             /\ after \in -EXPIRY_PERIOD_MS..(-1)
<1>1. EXPIRY_PERIOD_MS \in Nat \ {0} /\ ClockWrap \in Nat \ {0}
  BY PubSubAssumption, ClockAssumption
<1> DEFINE now == (next + d) % ClockWrap
           missed == d \div EXPIRY_PERIOD_MS
           rest == d % EXPIRY_PERIOD_MS
           gone == EXPIRY_PERIOD_MS * missed
           k == EXPIRY_PERIOD_MS * (missed + 1)
           after == rest - EXPIRY_PERIOD_MS
<1>2. /\ missed \in Int /\ rest \in 0..EXPIRY_PERIOD_MS - 1
      /\ d = EXPIRY_PERIOD_MS * missed + rest
  BY <1>1, DivMod
<1>3. NextSweep(next, now) = (next + k) % ClockWrap
  BY DEF NextSweep
<1> HIDE DEF missed, rest
<1>4. gone \in Int /\ k = gone + EXPIRY_PERIOD_MS /\ d = gone + rest
  BY <1>1, <1>2
<1> HIDE DEF gone, k
<1>5. k \in Int /\ after \in -EXPIRY_PERIOD_MS..(-1)
  BY <1>1, <1>2, <1>4
<1> DEFINE a == next + k
<1>6. a \in Int /\ a + after = next + d /\ after \in Int
  BY <1>1, <1>2, <1>4, <1>5 DEF Clock
<1> HIDE DEF a, after
<1>7. ((a % ClockWrap) + after) % ClockWrap = (a + after) % ClockWrap
  BY <1>1, <1>6, ModAdd
<1>8. now = (NextSweep(next, now) + after) % ClockWrap
  BY <1>3, <1>6, <1>7 DEF a, now
<1> QED BY <1>5, <1>8 DEF after, rest, now

\* At a sweep d late: a request that has not expired is not past its timeout,
\* and one that has is.
LEMMA AtSweep ==
  ASSUME NEW r, r.start_ms \in Clock, NEW a, a.timeout \in Nat, NEW late \in Nat,
         NEW d \in 0..late, NEW e \in Nat, NEW now, Since(r, now, a, late, d, e), Bounded(a, late)
  PROVE  IF ExpiredAt(r, now) THEN e >= Wait(a, late) ELSE e <= Wait(a, late)
<1> DEFINE w == a.timeout % ClockWrap
           slack == EXPIRY_PERIOD_MS + late
           start == r.start_ms
           left == TimeRemaining(start, (start + e) % ClockWrap, w)
<1>1. w \in Clock
  BY ClockAssumption, DivMod DEF Clock
<1>2. EXPIRY_PERIOD_MS \in Nat /\ ClockWrap \in Nat \ {0}
  BY PubSubAssumption, ClockAssumption
<1>3. /\ now = (start + e) % ClockWrap /\ r.timeout_ms = w
      /\ e <= Wait(a, late) + d + EXPIRY_PERIOD_MS
  BY DEF Since
<1>4. ExpiredAt(r, now) <=> left = 0
  BY <1>3 DEF ExpiredAt
<1>5. /\ Wait(a, late) = IF 2 * (w - slack) >= ClockWrap THEN 0 ELSE w
      /\ 2 * (w - slack) >= ClockWrap \/ 2 * (w + slack + 1) < ClockWrap
  BY DEF Wait, Bounded
<1>6. slack \in Nat /\ d + EXPIRY_PERIOD_MS <= slack
  BY <1>2
<1> HIDE DEF w, slack, left
<1>7. w \in Nat
  BY <1>1, <1>2 DEF Clock
<1>8. CASE 2 * (w - slack) >= ClockWrap
  <2>1. Wait(a, late) = 0
    BY <1>5, <1>8
  <2>2. e <= slack
    BY <1>2, <1>3, <1>6, <2>1
  <2>3. left = 0
    BY <1>1, <1>6, <1>8, <2>2, PastFacts DEF left
  <2> QED BY <1>4, <2>1, <2>3
<1>9. CASE ~(2 * (w - slack) >= ClockWrap)
  <2>1. Wait(a, late) = w /\ 2 * (w + slack + 1) < ClockWrap
    BY <1>5, <1>9
  <2>2. e <= w + slack
    BY <1>2, <1>3, <1>6, <1>7, <2>1
  <2>3. left = IF e < w THEN w - e ELSE 0
    BY <1>6, <1>7, <2>1, <2>2, RemainingFacts DEF left
  <2>4. left = 0 <=> e >= w
    BY <1>7, <2>3
  <2>5. ~(left = 0) => e <= w
    BY <1>7, <2>4
  <2> QED BY <1>4, <2>1, <2>4, <2>5
<1> QED BY <1>8, <1>9

\* After a sweep, what is listed is not past its timeout, and what went was.
LEMMA SweepInTime ==
  ASSUME IInv, IInv', TimeInv, NEW n \in Node, SweepShape(n)
  PROVE  TimeInv'
<1> DEFINE nd == node[n]
           w == node'[n]
           late == mix.late[n]
           other == SweptLog(asked, nd)
<1>1. /\ mix' = mix /\ SweepDue(nd.next_sweep_ms, nd.now)
      /\ node' = [node EXCEPT ![n] = w] /\ asked' = other
      /\ w.now = nd.now /\ w.next_sweep_ms = NextSweep(nd.next_sweep_ms, nd.now)
      /\ Unexpired(nd, w)
  BY DEF SweepShape
<1>2. PICK d \in -EXPIRY_PERIOD_MS..late : Timed(nd, asked, late, d)
  BY DEF TimeInv
<1>3. /\ late \in Nat /\ 2 * (late + 1) < ClockWrap /\ EXPIRY_PERIOD_MS \in Nat \ {0}
      /\ ClockWrap \in Nat \ {0} /\ MaxAge \in Nat
  BY LateFacts
<1>4. /\ NodeInv(nd, n, asked) /\ RequestsInv(nd, n, asked) /\ nd.next_sweep_ms \in Clock
      /\ nd.now \in Clock /\ asked \in Seq(Ask)
  BY DEF IInv, NodeInv, IsNode, LogInv
<1>5. ASSUME NEW i \in DOMAIN nd.requests
      PROVE  /\ nd.requests[i].no \in DOMAIN asked
             /\ asked[nd.requests[i].no].from = n /\ nd.requests[i].start_ms \in Clock
             /\ asked[nd.requests[i].no].timeout \in Nat
  <2>1. nd.requests[i].no \in DOMAIN asked /\ asked[nd.requests[i].no].from = n
    BY <1>4, <1>5 DEF RequestsInv, Asked
  <2>2. nd.requests[i].start_ms \in Clock
    BY <1>4, <1>5 DEF RequestsInv, IsRequests
  <2>3. asked[nd.requests[i].no].timeout \in Nat
    BY <1>4, <2>1, AskFacts
  <2> QED BY <2>1, <2>2, <2>3
<1> HIDE DEF nd, late
<1>6. nd.now = (nd.next_sweep_ms + d) % ClockWrap
  BY <1>2 DEF Timed
<1>7. d \in 0..late /\ (nd.now - nd.next_sweep_ms) % ClockWrap = d
  <2>1. d >= 0 /\ (nd.now - nd.next_sweep_ms) % ClockWrap = d
    BY <1>1, <1>2, <1>3, <1>4, <1>6, DueFacts
  <2> QED BY <1>2, <1>3, <2>1
<1> DEFINE after == (d % EXPIRY_PERIOD_MS) - EXPIRY_PERIOD_MS
<1>8. /\ nd.now = (NextSweep(nd.next_sweep_ms, nd.now) + after) % ClockWrap
      /\ after \in -EXPIRY_PERIOD_MS..(-1)
  <2>1. d \in Nat /\ (((nd.next_sweep_ms + d) % ClockWrap) - nd.next_sweep_ms) % ClockWrap = d
    BY <1>3, <1>6, <1>7
  <2> HIDE DEF after
  <2>2. /\ (nd.next_sweep_ms + d) % ClockWrap
             = (NextSweep(nd.next_sweep_ms, (nd.next_sweep_ms + d) % ClockWrap) + after) % ClockWrap
        /\ after \in -EXPIRY_PERIOD_MS..(-1)
    BY <1>4, <2>1, NextDue DEF after
  <2> QED BY <1>6, <2>2
<1> HIDE DEF after
<1>9. /\ SameAsks(asked, other)
      /\ \A k \in DOMAIN asked :
           /\ other[k].age = asked[k].age
           /\ \/ other[k].ends = asked[k].ends
              \/ /\ other[k].ends = <<[how |-> "expired", re |-> k]>>
                 /\ \E i \in Expired(nd) : nd.requests[i].no = k
  BY <1>4, SweptLogFacts
<1> HIDE DEF w, other
<1>10. \A k \in DOMAIN asked : SameTimes(asked[k], other[k]) /\ other[k].from = asked[k].from
  BY <1>9 DEF SameAsks, SameAsk, SameTimes
<1>11. Timed(w, other, late, after)
  <2>1. ASSUME NEW j \in DOMAIN w.requests
        PROVE  \E e \in Nat : Since(w.requests[j], w.now, other[w.requests[j].no], late, after, e)
    <3>1. PICK i \in DOMAIN nd.requests :
            w.requests[j] = nd.requests[i] /\ ~ExpiredAt(nd.requests[i], nd.now)
      BY <1>1 DEF Unexpired
    <3> DEFINE r == nd.requests[i]
               a == asked[r.no]
    <3>2. PICK e \in Nat : Since(r, nd.now, a, late, d, e)
      BY <1>2 DEF Timed
    <3>3. r.start_ms \in Clock /\ a.timeout \in Nat /\ r.no \in DOMAIN asked
      BY <1>5
    <3>4. w.requests[j] = r /\ ~ExpiredAt(r, nd.now)
      BY <3>1
    <3> HIDE DEF r
    <3>5. SameTimes(a, other[r.no])
      BY <1>10, <3>3
    <3> HIDE DEF a
    <3>6. Wait(a, late) \in Nat
      BY <1>3, <3>3, WaitFacts
    <3>7. Bounded(a, late) => e <= Wait(a, late)
      BY <1>3, <1>7, <3>2, <3>3, <3>4, AtSweep
    <3>8. Bounded(a, late) => e <= Wait(a, late) + after + EXPIRY_PERIOD_MS
      <4>1. after \in Int /\ after + EXPIRY_PERIOD_MS >= 0
        BY <1>3, <1>8
      <4> QED BY <1>3, <3>6, <3>7, <4>1
    <3>9. Since(r, nd.now, a, late, after, e)
      BY <3>2, <3>8 DEF Since
    <3>10. Since(r, nd.now, other[r.no], late, after, e)
      BY <3>5, <3>9, SinceSame
    <3> QED BY <1>1, <3>4, <3>10
  <2> QED BY <1>1, <1>8, <2>1 DEF Timed
<1>12. ASSUME NEW k \in DOMAIN asked
       PROVE  EndTimed(other[k], mix.late[other[k].from])
  <2>1. CASE other[k].ends = asked[k].ends
    BY <1>10, <2>1, EndSame DEF TimeInv
  <2>2. CASE \E i \in Expired(nd) : nd.requests[i].no = k
    <3>1. PICK i \in Expired(nd) : nd.requests[i].no = k
      BY <2>2
    <3>2. i \in DOMAIN nd.requests /\ ExpiredAt(nd.requests[i], nd.now)
      BY <3>1 DEF Expired
    <3> DEFINE r == nd.requests[i]
               a == asked[k]
               b == other[k]
    <3>3. PICK e \in Nat : Since(r, nd.now, asked[r.no], late, d, e)
      BY <1>2, <3>2 DEF Timed
    <3>4. Since(r, nd.now, a, late, d, e) /\ ExpiredAt(r, nd.now)
      BY <3>1, <3>2, <3>3
    <3>5. r.start_ms \in Clock /\ a.timeout \in Nat /\ a.from = n
      BY <1>5, <3>1, <3>2
    <3>6. SameTimes(a, b) /\ mix.late[b.from] = late
      BY <1>10, <3>5 DEF late
    <3> HIDE DEF r, a, b
    <3>7. Wait(a, late) \in Nat
      BY <1>3, <3>5, WaitFacts
    <3>8. ASSUME Bounded(a, late)
          PROVE  /\ a.age <= Wait(a, late) + EXPIRY_PERIOD_MS + late
                 /\ Wait(a, late) <= MaxAge => a.age >= Wait(a, late)
      <4>1. e >= Wait(a, late)
        BY <1>3, <1>7, <3>4, <3>5, <3>8, AtSweep
      <4>2. e <= Wait(a, late) + d + EXPIRY_PERIOD_MS /\ a.age = IF e < MaxAge THEN e ELSE MaxAge
        BY <3>4, <3>8 DEF Since
      <4>3. d \in Nat /\ d <= late
        BY <1>3, <1>7
      <4> QED BY <1>3, <3>7, <4>1, <4>2, <4>3
    <3>9. EndTimed(b, late)
      BY <3>6, <3>8 DEF EndTimed, SameTimes, Bounded, Wait
    <3> QED BY <3>6, <3>9 DEF b
  <2> QED BY <1>9, <2>1, <2>2
<1>13. DOMAIN other = DOMAIN asked
  BY <1>9 DEF SameAsks
<1>14. after \in -EXPIRY_PERIOD_MS..late
  BY <1>3, <1>8
<1>15. /\ node' = [node EXCEPT ![n] = node'[n]] /\ Timed(node'[n], asked', mix.late[n], after)
       /\ after \in -EXPIRY_PERIOD_MS..mix.late[n]
       /\ \A k \in DOMAIN asked : SameTimes(asked[k], asked'[k])
       /\ \A k \in DOMAIN asked' : EndTimed(asked'[k], mix.late[asked'[k].from])
  BY <1>1, <1>10, <1>11, <1>12, <1>13, <1>14 DEF w, late
<1> QED BY <1>1, <1>15, TimedOne

\* The clock runs while no sweep is as late as it can be.
LEMMA AdvanceInTime ==
  ASSUME IInv, IInv', TimeInv, AdvanceShape
  PROVE  TimeInv'
<1> DEFINE other == Aged(asked)
<1>1. /\ mix' = mix /\ asked' = other /\ DOMAIN other = DOMAIN asked
      /\ \A k \in DOMAIN asked :
           /\ SameAsk(asked, k, other) /\ other[k].ends = asked[k].ends
           /\ other[k].age = IF asked[k].ends # <<>> \/ asked[k].age = MaxAge THEN asked[k].age
                             ELSE asked[k].age + 1
  BY AgedFacts DEF AdvanceShape, IInv, SameAsks
<1> HIDE DEF other
<1>2. ASSUME NEW n \in Node
      PROVE  \E x \in -EXPIRY_PERIOD_MS..mix.late[n] : Timed(node'[n], other, mix.late[n], x)
  <2> DEFINE nd == node[n]
             w == node'[n]
             late == mix.late[n]
  <2>1. /\ w.requests = nd.requests /\ w.now = (nd.now + 1) % ClockWrap
        /\ w.next_sweep_ms = nd.next_sweep_ms
        /\ SweepDue(nd.next_sweep_ms, nd.now) => (nd.now - nd.next_sweep_ms) % ClockWrap < late
    BY DEF AdvanceShape
  <2>2. PICK d \in -EXPIRY_PERIOD_MS..late : Timed(nd, asked, late, d)
    BY DEF TimeInv
  <2>3. /\ late \in Nat /\ 2 * (late + 1) < ClockWrap /\ EXPIRY_PERIOD_MS \in Nat \ {0}
        /\ ClockWrap \in Nat \ {0} /\ MaxAge \in Nat
    BY LateFacts
  <2>4. RequestsInv(nd, n, asked) /\ nd.next_sweep_ms \in Clock /\ asked \in Seq(Ask)
    BY DEF IInv, NodeInv, IsNode, LogInv
  <2> HIDE DEF nd, w, late
  <2>5. nd.now = (nd.next_sweep_ms + d) % ClockWrap
    BY <2>2 DEF Timed
  <2>6. d + 1 \in -EXPIRY_PERIOD_MS..late
    <3>1. d >= 0 => d < late
      BY <2>1, <2>2, <2>3, <2>4, <2>5, DueFacts
    <3> QED BY <2>2, <2>3, <3>1
  <2>7. d \in Int
    BY <2>2, <2>3
  <2>8. w.now = (w.next_sweep_ms + (d + 1)) % ClockWrap
    BY <2>1, <2>4, <2>5, <2>7, ClockSteps
  <2>9. ASSUME NEW i \in DOMAIN w.requests
        PROVE  \E e \in Nat : Since(w.requests[i], w.now, other[w.requests[i].no], late, d + 1, e)
    <3> DEFINE r == nd.requests[i]
               a == asked[r.no]
               b == other[r.no]
    <3>1. i \in DOMAIN nd.requests /\ w.requests[i] = r
      BY <2>1
    <3>2. PICK e \in Nat : Since(r, nd.now, a, late, d, e)
      BY <2>2, <3>1 DEF Timed
    <3>3. r.no \in DOMAIN asked /\ a.ends = <<>> /\ r.start_ms \in Clock
      BY <2>4, <3>1 DEF RequestsInv, Asked, IsRequests
    <3>4. a.timeout \in Nat
      BY <2>4, <3>3, AskFacts
    <3>5. b.timeout = a.timeout /\ b.age = IF a.age = MaxAge THEN a.age ELSE a.age + 1
      BY <1>1, <3>3 DEF SameAsk
    <3> HIDE DEF r, a, b
    <3>6. /\ nd.now = (r.start_ms + e) % ClockWrap
          /\ a.age = IF e < MaxAge THEN e ELSE MaxAge
          /\ r.timeout_ms = a.timeout % ClockWrap
          /\ Bounded(a, late) => e <= Wait(a, late) + d + EXPIRY_PERIOD_MS
      BY <3>2 DEF Since
    <3>7. w.now = (r.start_ms + (e + 1)) % ClockWrap
      BY <2>1, <3>3, <3>6, ClockSteps
    <3>8. b.age = IF e + 1 < MaxAge THEN e + 1 ELSE MaxAge
      BY <2>3, <3>5, <3>6
    <3>9. Wait(a, late) \in Nat
      BY <2>3, <3>4, WaitFacts
    <3>10. Bounded(a, late) => e + 1 <= Wait(a, late) + (d + 1) + EXPIRY_PERIOD_MS
      BY <2>3, <2>7, <3>6, <3>9
    <3>11. Since(r, w.now, b, late, d + 1, e + 1)
      BY <3>5, <3>6, <3>7, <3>8, <3>10 DEF Since, Bounded, Wait
    <3>12. e + 1 \in Nat
      OBVIOUS
    <3>13. \E x \in Nat : Since(r, w.now, b, late, d + 1, x)
      BY <3>11, <3>12
    <3> QED BY <3>1, <3>13 DEF b
  <2>10. Timed(w, other, late, d + 1)
    BY <2>8, <2>9 DEF Timed
  <2> QED BY <2>6, <2>10 DEF w, late
<1>3. ASSUME NEW k \in DOMAIN asked
      PROVE  EndTimed(other[k], mix.late[other[k].from])
  <2>1. CASE asked[k].ends = <<>>
    BY <1>1, <2>1 DEF EndTimed
  <2>2. CASE asked[k].ends # <<>>
    <3>1. /\ SameTimes(asked[k], other[k]) /\ other[k].ends = asked[k].ends
          /\ other[k].from = asked[k].from
      BY <1>1, <2>2 DEF SameTimes, SameAsk
    <3> QED BY <3>1, EndSame DEF TimeInv
  <2> QED BY <2>1, <2>2
<1> QED BY <1>1, <1>2, <1>3 DEF TimeInv

LEMMA InitInTime == Init => TimeInv
<1> SUFFICES ASSUME Init
             PROVE  TimeInv
  OBVIOUS
<1>1. mix \in Mixes /\ node = mix.start /\ asked = <<>> /\ DOMAIN <<>> = {}
  BY DEF Init
<1>2. ASSUME NEW n \in Node
      PROVE  \E d \in -EXPIRY_PERIOD_MS..mix.late[n] : Timed(node[n], asked, mix.late[n], d)
  <2>1. Starting(node[n], mix.late[n])
    BY <1>1, MixAssumption
  <2> QED BY <1>1, <2>1 DEF Starting, Timed
<1> QED BY <1>1, <1>2 DEF TimeInv

LEMMA NextInTime ==
  ASSUME IInv, TimeInv, [Next]_vars
  PROVE  TimeInv'
<1>1. IInv' /\ StepShape
  BY NextHolds
<1> QED BY <1>1, QuietInTime, AnswerInTime, AskInTime, SweepInTime, RestartInTime, AdvanceInTime
        DEF StepShape

\* on_tick: no request is listed longer than its timeout, a period and the
\* lateness of the loop, and none expires before its timeout, whenever the
\* clock wraps; a timeout that 32 bits make more than half the range ahead is
\* over at the first sweep.
THEOREM RequestsExpireInTime == Spec => []ExpiresInTime
<1>1. IInv /\ TimeInv /\ [Next]_vars => IInv' /\ TimeInv'
  BY NextHolds, NextInTime
<1>2. ASSUME IInv, TimeInv
      PROVE  ExpiresInTime
  <2> SUFFICES ASSUME NEW k \in DOMAIN asked,
                      LET a == asked[k]
                          late == mix.late[a.from]
                      IN  Bounded(a, late) /\ Wait(a, late) + EXPIRY_PERIOD_MS + late < MaxAge
               PROVE  LET a == asked[k]
                          late == mix.late[a.from]
                      IN  /\ a.age <= Wait(a, late) + EXPIRY_PERIOD_MS + late
                          /\ \A i \in DOMAIN a.ends : a.ends[i].how = "expired" => a.age >= Wait(a, late)
    <3>1. \A k \in DOMAIN asked : asked[k].from \in Node /\ asked[k].timeout \in Nat
      BY <1>2, AskFacts DEF IInv, LogInv
    <3>2. \A k \in DOMAIN asked :
            Wait(asked[k], mix.late[asked[k].from]) \in Nat /\ mix.late[asked[k].from] \in Nat
      BY <1>2, <3>1, LateFacts, WaitFacts
    <3>3. EXPIRY_PERIOD_MS \in Nat
      BY PubSubAssumption
    <3>4. ASSUME NEW k \in DOMAIN asked
          PROVE  LET w == Wait(asked[k], mix.late[asked[k].from])
                     l == mix.late[asked[k].from]
                 IN  w + EXPIRY_PERIOD_MS + l = w + (EXPIRY_PERIOD_MS + l)
      BY <3>2, <3>3
    <3> QED BY <3>4 DEF ExpiresInTime, Bounded, Wait
  <2> DEFINE a == asked[k]
             n == a.from
             late == mix.late[n]
             wait == Wait(a, late)
  <2>1. asked \in Seq(Ask)
    BY <1>2 DEF IInv, LogInv
  <2>2. n \in Node /\ a.timeout \in Nat
    BY <2>1, AskFacts
  <2>3. late \in Nat /\ MaxAge \in Nat /\ EXPIRY_PERIOD_MS \in Nat
    BY <1>2, <2>2, LateFacts
  <2>4. Bounded(a, late) /\ wait + EXPIRY_PERIOD_MS + late < MaxAge
    OBVIOUS
  <2>5. EndTimed(a, late)
    BY <1>2 DEF TimeInv
  <2>6. CASE a.ends = <<>>
    <3>1. PICK i \in DOMAIN node[n].requests : node[n].requests[i].no = k
      BY <1>2, <2>2, <2>6 DEF IInv, NodeInv, RequestsInv
    <3>2. PICK d \in -EXPIRY_PERIOD_MS..mix.late[n] : Timed(node[n], asked, mix.late[n], d)
      BY <1>2, <2>2 DEF TimeInv
    <3>3. a.age <= wait + EXPIRY_PERIOD_MS + late
      BY <1>2, <2>2, <2>4, <3>1, <3>2, ListedInTime
    <3> QED BY <2>6, <3>3
  <2>7. CASE a.ends # <<>>
    <3>1. wait \in Nat
      BY <2>2, <2>3, WaitFacts
    <3> HIDE DEF a, late, wait
    <3>2. wait <= MaxAge
      BY <2>3, <2>4, <3>1
    <3>3. /\ a.age <= wait + EXPIRY_PERIOD_MS + late
          /\ \A i \in DOMAIN a.ends : a.ends[i].how = "expired" => a.age >= wait
      BY <2>4, <2>5, <2>7, <3>2 DEF EndTimed, wait
    <3> QED BY <3>3 DEF a, late, wait
  <2> QED BY <2>6, <2>7
<1>3. Init => IInv /\ TimeInv
  BY InitHolds, InitInTime
<1>4. IInv /\ TimeInv => ExpiresInTime
  BY <1>2
<1> QED BY <1>1, <1>3, <1>4, PTL DEF Spec

------------------------------------------------------------------------------
(* What is sent reaches everyone it is meant for, once.  A link of a tree  *)
(* divides it; a frame in flight has ahead of it the part it flies into.   *)
(* Ahead of the frames of a flood are those who are still to get it, and   *)
(* no two of them have a node ahead of them in common.                     *)

\* The part of the tree that a link leads into.
Beyond(l) == CHOOSE S \in SUBSET Node : Into(S) = {l}

\* Passed on by those it reaches, or for those on the link alone.
Spreads(f) == f.scope = "global" \/ f.to # Everyone
Ahead(f, l) == IF Spreads(f) THEN Beyond(l) ELSE {l[1]}
Audience(f) ==
  IF f.scope = "global" THEN Node \ {f.from}
  ELSE IF f.to = Everyone THEN {l[1] : l \in Out(f.from, Port)} ELSE (Node \ {f.from}) \cap {f.to}

\* A flood f whose frames are on the links F.
Flooded(f, F) ==
  /\ \A l \in F : f.from \notin Ahead(f, l) /\ \A n \in Ahead(f, l) : f.got[n] = 0
  /\ \A l \in F : Spreads(f) \/ l[1] \in Audience(f)
  /\ \A l, m \in F : l # m => Ahead(f, l) \cap Ahead(f, m) = {}
  /\ \A n \in Node : f.got[n] = 0 \/ (f.got[n] = 1 /\ n \in Audience(f))
  /\ \A n \in Audience(f) : f.got[n] = 0 /\ ~f.lost => \E l \in F : n \in Ahead(f, l)

Floods ==
  [from : Node, scope : {"global", "link"}, to : Nat, re : Nat, got : [Node -> Nat], lost : BOOLEAN]
\* A frame of flood f says what the flood is.
Carries(g, f) ==
  /\ g.scope = f.scope /\ (f.scope = "global" => f.to = Everyone)
  /\ \/ g.body.kind \in {"pub", "udp"} /\ f.to = Everyone
     \/ g.body.kind = "bcmp" /\ g.scope = "link" /\ g.body.to = f.to /\ g.body.from = f.from
\* Where the frames of flood k are.
Flying(links, k) == {l \in DOMAIN links : \E i \in DOMAIN links[l] : links[l][i].no = k}
Linked(links) == DOMAIN links = DOMAIN Peer /\ \A l \in DOMAIN links : IsList(links[l])
FliesRight(links, log) ==
  \A l \in DOMAIN links : \A i \in DOMAIN links[l] :
    /\ links[l][i].no \in DOMAIN log /\ Carries(links[l][i], log[links[l][i].no])
    /\ \A j \in DOMAIN links[l] : links[l][i].no = links[l][j].no => i = j
AnswersRight(log, k) ==
  LET f == log[k]
  IN  f.re # 0 => f.re \in DOMAIN log /\ (f.to # Everyone => f.to = log[f.re].from)
FloodInv(links, log) ==
  /\ log \in Seq(Floods) /\ Linked(links)
  /\ FliesRight(links, log)
  /\ \A k \in DOMAIN log : Flooded(log[k], Flying(links, k)) /\ AnswersRight(log, k)

\* The ports that a node's frames go to.
LEMMA OutFacts ==
  ASSUME NEW n, NEW P
  PROVE  \A l : l \in Out(n, P) <=> l \in DOMAIN Peer /\ Peer[l][1] = n /\ Peer[l][2] \in P
<1>1. \A l \in DOMAIN Peer : Peer[l] \in DOMAIN Peer /\ Peer[Peer[l]] = l
  BY ServicesAssumption
<1>2. ASSUME NEW l \in Out(n, P)
      PROVE  l \in DOMAIN Peer /\ Peer[l][1] = n /\ Peer[l][2] \in P
  <2>1. PICK x \in DOMAIN Peer : x[1] = n /\ x[2] \in P /\ l = Peer[x]
    BY <1>2 DEF Out
  <2> QED BY <1>1, <2>1
<1>3. ASSUME NEW l \in DOMAIN Peer, Peer[l][1] = n, Peer[l][2] \in P
      PROVE  l \in Out(n, P)
  BY <1>1, <1>3 DEF Out
<1> QED BY <1>2, <1>3

\* A link and the part it leads into.
LEMMA BeyondFacts ==
  ASSUME NEW l \in DOMAIN Peer
  PROVE  /\ Beyond(l) \subseteq Node /\ l[1] \in Beyond(l) /\ Peer[l][1] \notin Beyond(l)
         /\ Peer[l][1] \in Node
         /\ \A m \in DOMAIN Peer : m[1] \in Beyond(l) /\ Peer[m][1] \notin Beyond(l) => m = l
         /\ \A m \in DOMAIN Peer : m[1] \notin Beyond(l) /\ Peer[m][1] \in Beyond(l) => m = Peer[l]
<1>1. Beyond(l) \in SUBSET Node /\ Into(Beyond(l)) = {l}
  <2>1. \E S \in SUBSET Node : Into(S) = {l}
    BY ServicesAssumption
  <2> QED BY <2>1 DEF Beyond
<1> DEFINE B == Beyond(l)
<1> HIDE DEF B
<1>2. B \subseteq Node /\ \A m \in DOMAIN Peer : m[1] \in B /\ Peer[m][1] \notin B <=> m = l
  BY <1>1 DEF Into, B
<1>3. /\ \A m \in DOMAIN Peer : Peer[m] \in DOMAIN Peer /\ Peer[Peer[m]] = m
      /\ DOMAIN Peer \subseteq Node \X Port
  BY ServicesAssumption
<1>4. Peer[l][1] \in Node
  BY <1>3
<1>5. ASSUME NEW m \in DOMAIN Peer, m[1] \notin B, Peer[m][1] \in B
      PROVE  m = Peer[l]
  <2>1. Peer[m] = l
    BY <1>2, <1>3, <1>5
  <2> QED BY <1>3, <2>1
<1> QED BY <1>2, <1>4, <1>5 DEF B

\* A part that no link leads into is all or nothing.
LEMMA ClosedPart ==
  ASSUME NEW U \in SUBSET Node, NEW n \in Node, n \notin U,
         \A l \in DOMAIN Peer : ~(l[1] \in U /\ Peer[l][1] \notin U)
  PROVE  U = {}
<1>1. Into(U) = {}
  BY DEF Into
<1> QED BY <1>1, ServicesAssumption

\* The links out of a node lead into parts that are apart, and not back.
LEMMA OutApart ==
  ASSUME NEW n \in Node, NEW k \in Out(n, Port), NEW m \in Out(n, Port)
  PROVE  /\ k \in DOMAIN Peer /\ n \notin Beyond(k)
         /\ k # m => Beyond(k) \cap Beyond(m) = {}
<1>1. k \in DOMAIN Peer /\ m \in DOMAIN Peer /\ Peer[k][1] = n /\ Peer[m][1] = n
  BY OutFacts
<1>2. n \notin Beyond(k) /\ n \notin Beyond(m)
  BY <1>1, BeyondFacts
<1>3. ASSUME k # m
      PROVE  Beyond(k) \cap Beyond(m) = {}
  <2> DEFINE U == Beyond(k) \cap Beyond(m)
  <2>1. ASSUME NEW l \in DOMAIN Peer, l[1] \in U, Peer[l][1] \notin U
        PROVE  FALSE
    <3>1. CASE Peer[l][1] \notin Beyond(k)
      <4>1. l = k
        BY <1>1, <2>1, <3>1, BeyondFacts
      <4>2. l = m
        BY <1>1, <1>2, <2>1, <4>1, BeyondFacts
      <4> QED BY <1>3, <4>1, <4>2
    <3>2. CASE Peer[l][1] \notin Beyond(m)
      <4>1. l = m
        BY <1>1, <2>1, <3>2, BeyondFacts
      <4>2. l = k
        BY <1>1, <1>2, <2>1, <4>1, BeyondFacts
      <4> QED BY <1>3, <4>1, <4>2
    <3> QED BY <2>1, <3>1, <3>2
  <2>2. U \in SUBSET Node /\ n \notin U
    BY <1>1, <1>2, BeyondFacts
  <2> HIDE DEF U
  <2>3. U = {}
    BY <2>1, <2>2, ClosedPart
  <2> QED BY <2>3 DEF U
<1> QED BY <1>1, <1>2, <1>3

\* The links out of a node lead to all others.
LEMMA OutCovers ==
  ASSUME NEW n \in Node, NEW x \in Node, x # n
  PROVE  \E m \in Out(n, Port) : x \in Beyond(m)
<1> DEFINE U == {y \in Node : y # n /\ \A m \in Out(n, Port) : y \notin Beyond(m)}
<1>1. ASSUME NEW l \in DOMAIN Peer, l[1] \in U, Peer[l][1] \notin U
      PROVE  FALSE
  <2>1. Peer[l] \in DOMAIN Peer /\ Peer[l] \in Node \X Port /\ Peer[l][1] \in Node /\ Peer[l][2] \in Port
    BY ServicesAssumption
  <2>2. CASE Peer[l][1] = n
    <3>1. l \in Out(n, Port)
      BY <2>1, <2>2, OutFacts
    <3>2. l[1] \in Beyond(l)
      BY BeyondFacts
    <3> QED BY <1>1, <3>1, <3>2
  <2>3. CASE Peer[l][1] # n
    <3>1. PICK m \in Out(n, Port) : Peer[l][1] \in Beyond(m)
      BY <1>1, <2>1, <2>3
    <3>2. m \in DOMAIN Peer /\ Peer[m][1] = n
      BY OutFacts
    <3>3. l[1] \notin Beyond(m) /\ l[1] # n
      BY <1>1
    <3>4. l = Peer[m]
      BY <3>1, <3>2, <3>3, BeyondFacts
    <3>5. l[1] = n
      BY <3>2, <3>4
    <3> QED BY <3>3, <3>5
  <2> QED BY <2>2, <2>3
<1>2. U \in SUBSET Node /\ n \notin U
  OBVIOUS
<1> HIDE DEF U
<1>3. U = {}
  BY <1>1, <1>2, ClosedPart
<1> QED BY <1>3 DEF U

\* A relay is on the other ports, and they lead into what was ahead.
LEMMA RelayFacts ==
  ASSUME NEW l \in DOMAIN Peer
  PROVE  LET O == Out(l[1], EgressPorts(l[2]))
         IN  /\ l[1] \in Node /\ O \subseteq Out(l[1], Port)
             /\ \A m \in O : Beyond(m) \subseteq Beyond(l)
             /\ \A x \in Beyond(l) : x # l[1] => \E m \in O : x \in Beyond(m)
<1> DEFINE n == l[1]
           O == Out(n, EgressPorts(l[2]))
<1>1. n \in Node /\ l \in Node \X Port /\ Peer[l] \in DOMAIN Peer /\ Peer[Peer[l]] = l
      /\ \A k \in DOMAIN Peer : k \in Node \X Port /\ Peer[k] \in DOMAIN Peer /\ Peer[Peer[k]] = k
  BY ServicesAssumption
<1>2. ASSUME NEW m
      PROVE  m \in O <=> m \in Out(n, Port) /\ m # Peer[l]
  <2>1. m \in O <=> m \in DOMAIN Peer /\ Peer[m][1] = n /\ Peer[m][2] \in Port \ {l[2]}
    BY OutFacts DEF EgressPorts
  <2>2. m \in Out(n, Port) <=> m \in DOMAIN Peer /\ Peer[m][1] = n /\ Peer[m][2] \in Port
    BY OutFacts
  <2>3. ASSUME m \in DOMAIN Peer, Peer[m][1] = n
        PROVE  Peer[m][2] = l[2] <=> m = Peer[l]
    <3>1. Peer[m] \in Node \X Port /\ Peer[Peer[m]] = m
      BY <1>1, <2>3
    <3>2. Peer[m] = <<Peer[m][1], Peer[m][2]>> /\ l = <<l[1], l[2]>>
      BY <1>1, <3>1
    <3>3. Peer[m][2] = l[2] <=> Peer[m] = l
      BY <2>3, <3>2
    <3> QED BY <1>1, <3>1, <3>3
  <2> QED BY <2>1, <2>2, <2>3
<1>3. ASSUME NEW m \in O
      PROVE  Beyond(m) \subseteq Beyond(l)
  <2> DEFINE U == Beyond(m) \ Beyond(l)
  <2>1. m \in DOMAIN Peer /\ Peer[m][1] = n /\ m # Peer[l]
    BY <1>2, OutFacts
  <2>2. m # l
    <3>1. Peer[l][1] # l[1]
      BY ServicesAssumption
    <3> QED BY <2>1, <3>1
  <2>3. n \in Beyond(l) /\ n \notin Beyond(m)
    BY <2>1, BeyondFacts
  <2>4. ASSUME NEW k \in DOMAIN Peer, k[1] \in U, Peer[k][1] \notin U
        PROVE  FALSE
    <3>1. CASE Peer[k][1] \notin Beyond(m)
      <4>1. k = m
        BY <2>1, <2>4, <3>1, BeyondFacts
      <4>2. m[1] \notin Beyond(l) /\ Peer[m][1] \in Beyond(l)
        BY <2>1, <2>3, <2>4, <4>1
      <4>3. m = Peer[l]
        BY <2>1, <4>2, BeyondFacts
      <4> QED BY <2>1, <4>3
    <3>2. CASE Peer[k][1] \in Beyond(m)
      <4>1. Peer[k][1] \in Beyond(l) /\ k[1] \notin Beyond(l)
        BY <2>4, <3>2
      <4>2. k = Peer[l]
        BY <4>1, BeyondFacts
      <4>3. Peer[k][1] = n
        BY <1>1, <4>2
      <4> QED BY <2>3, <3>2, <4>3
    <3> QED BY <3>1, <3>2
  <2>5. U \in SUBSET Node /\ n \notin U
    BY <2>1, <2>3, BeyondFacts
  <2> HIDE DEF U
  <2>6. U = {}
    BY <1>1, <2>4, <2>5, ClosedPart
  <2> QED BY <2>6 DEF U
<1>4. ASSUME NEW x \in Beyond(l), x # n
      PROVE  \E m \in O : x \in Beyond(m)
  <2>1. x \in Node
    BY BeyondFacts
  <2>2. PICK m \in Out(n, Port) : x \in Beyond(m)
    BY <1>1, <1>4, <2>1, OutCovers
  <2>3. CASE m # Peer[l]
    BY <1>2, <2>2, <2>3
  <2>4. CASE m = Peer[l]
    \* Then x is on both sides of the link.
    <3> DEFINE U == Beyond(l) \cap Beyond(m)
    <3>1. m \in DOMAIN Peer /\ Peer[m] = l
      BY <1>1, <2>4
    <3>2. n \notin U
      BY <3>1, BeyondFacts
    <3>3. ASSUME NEW k \in DOMAIN Peer, k[1] \in U, Peer[k][1] \notin U
          PROVE  FALSE
      <4>1. CASE Peer[k][1] \notin Beyond(l)
        <5>1. k = l
          BY <3>3, <4>1, BeyondFacts
        <5> QED BY <3>2, <3>3, <5>1
      <4>2. CASE Peer[k][1] \notin Beyond(m)
        <5>1. k = m
          BY <3>1, <3>3, <4>2, BeyondFacts
        <5>2. m[1] \notin Beyond(l)
          BY <2>4, BeyondFacts
        <5> QED BY <3>3, <5>1, <5>2
      <4> QED BY <3>3, <4>1, <4>2
    <3>4. U \in SUBSET Node
      BY BeyondFacts
    <3>5. x \in U
      BY <2>2
    <3> HIDE DEF U
    <3>6. U = {}
      BY <1>1, <3>2, <3>3, <3>4, ClosedPart
    <3> QED BY <3>5, <3>6
  <2> QED BY <2>3, <2>4
<1>5. O \subseteq Out(n, Port)
  BY <1>2
<1> QED BY <1>1, <1>3, <1>4, <1>5

\* The same flood, whoever got it since.
SameFlood(f, g) == g.from = f.from /\ g.scope = f.scope /\ g.to = f.to /\ g.re = f.re

LEMMA SameFloodFacts ==
  ASSUME NEW f, NEW g, SameFlood(f, g)
  PROVE  /\ Audience(g) = Audience(f) /\ Spreads(g) = Spreads(f) /\ \A l : Ahead(g, l) = Ahead(f, l)
         /\ \A h : Carries(h, f) => Carries(h, g)
<1>1. Audience(g) = Audience(f) /\ Spreads(g) = Spreads(f)
  BY DEF SameFlood, Audience, Spreads
<1>2. \A l : Ahead(g, l) = Ahead(f, l)
  BY DEF SameFlood, Ahead, Spreads
<1>3. \A h : Carries(h, f) => Carries(h, g)
  BY DEF SameFlood, Carries
<1> QED BY <1>1, <1>2, <1>3

\* What is ahead of a frame: its receiver, and nodes.
LEMMA AheadFacts ==
  ASSUME NEW f, NEW l \in DOMAIN Peer
  PROVE  Ahead(f, l) \subseteq Node /\ l[1] \in Ahead(f, l) /\ l[1] \in Node
<1>1. l[1] \in Node
  BY ServicesAssumption
<1> QED BY <1>1, BeyondFacts DEF Ahead

\* A new flood has everyone it is meant for ahead of it.
LEMMA FloodStarts ==
  ASSUME NEW n \in Node, NEW scope \in {"global", "link"}, NEW to \in Nat, NEW re,
         scope = "global" => to = Everyone
  PROVE  Flooded(Flood(n, scope, to, re), Out(n, Port))
<1> DEFINE f == Flood(n, scope, to, re)
           O == Out(n, Port)
<1>1. f.from = n /\ f.scope = scope /\ f.to = to /\ f.lost = FALSE /\ f.got = [m \in Node |-> 0]
  BY DEF Flood
<1> HIDE DEF f
<1>2. \A l \in O : l \in DOMAIN Peer /\ n \notin Beyond(l) /\ l[1] \in Beyond(l) /\ Beyond(l) \subseteq Node
  BY OutApart, BeyondFacts
<1>3. \A l, m \in O : l # m => Beyond(l) \cap Beyond(m) = {}
  BY OutApart
<1>4. \A l \in O : n \notin Ahead(f, l) /\ Ahead(f, l) \subseteq Beyond(l) /\ Ahead(f, l) \subseteq Node
  BY <1>2 DEF Ahead
<1>5. \A l \in O : f.from \notin Ahead(f, l) /\ \A x \in Ahead(f, l) : f.got[x] = 0
  BY <1>1, <1>4
<1>6. \A l, m \in O : l # m => Ahead(f, l) \cap Ahead(f, m) = {}
  BY <1>3, <1>4
<1>7. \A x \in Node : f.got[x] = 0
  BY <1>1
<1>8. ASSUME NEW x \in Audience(f)
      PROVE  \E l \in O : x \in Ahead(f, l)
  <2>1. CASE Spreads(f)
    <3>1. x \in Node /\ x # n
      BY <1>1, <1>8, <2>1 DEF Audience, Spreads
    <3> QED BY <2>1, <3>1, OutCovers DEF Ahead
  <2>2. CASE ~Spreads(f)
    <3>1. Audience(f) = {l[1] : l \in O}
      BY <1>1, <2>2 DEF Audience, Spreads
    <3> QED BY <1>8, <2>2, <3>1 DEF Ahead
  <2> QED BY <2>1, <2>2
<1>10. \A l \in O : Spreads(f) \/ l[1] \in Audience(f)
  BY <1>1 DEF Spreads, Audience
<1>9. Flooded(f, O)
  BY <1>5, <1>6, <1>7, <1>8, <1>10 DEF Flooded
<1> QED BY <1>9 DEF f

\* Frames on the links O have ahead of them what a frame on l had, but for its
\* receiver, as far as the flood is meant for it.
PassesOn(f, l, O) ==
  /\ \A m \in O : Ahead(f, m) \subseteq Ahead(f, l) \ {l[1]}
  /\ \A m, k \in O : m # k => Ahead(f, m) \cap Ahead(f, k) = {}
  /\ \A m \in O : Spreads(f) \/ m[1] \in Audience(f)
  /\ \A x \in Ahead(f, l) \cap Audience(f) : x = l[1] \/ \E m \in O : x \in Ahead(f, m)
\* Node n got it, if it was meant for it.
Gets(f, g, n) ==
  /\ SameFlood(f, g) /\ g.lost = f.lost
  /\ \A x \in Node : x # n => g.got[x] = f.got[x]
  /\ g.got[n] = IF n \in Audience(f) THEN 1 ELSE 0

\* One frame less, and those that its receiver passes on.
LEMMA FloodPasses ==
  ASSUME NEW f, NEW F \in SUBSET DOMAIN Peer, Flooded(f, F), NEW l \in F, NEW O \in SUBSET DOMAIN Peer,
         NEW g, Gets(f, g, l[1]), PassesOn(f, l, O)
  PROVE  Flooded(g, (F \ {l}) \cup O) /\ O \cap F = {}
<1> USE DEF PassesOn, Gets
<1> DEFINE n == l[1]
           R == (F \ {l}) \cup O
<1>1. /\ Audience(g) = Audience(f) /\ Spreads(g) = Spreads(f) /\ \A k : Ahead(g, k) = Ahead(f, k)
      /\ g.from = f.from
  BY SameFloodFacts DEF SameFlood
<1>2. \A k \in F \cup O : Ahead(f, k) \subseteq Node /\ k[1] \in Ahead(f, k)
  BY AheadFacts
<1>3. n \in Node /\ n \in Ahead(f, l)
  BY AheadFacts
<1>4. \A k \in F \ {l} : Ahead(f, k) \cap Ahead(f, l) = {}
  BY DEF Flooded
<1>5. \A k \in R : Ahead(f, k) \subseteq Node /\ n \notin Ahead(f, k)
  BY <1>2, <1>3, <1>4
<1>6. \A k \in F : f.from \notin Ahead(f, k) /\ \A x \in Ahead(f, k) : f.got[x] = 0
  BY DEF Flooded
<1>7. \A k \in R : f.from \notin Ahead(f, k) /\ \A x \in Ahead(f, k) : f.got[x] = 0
  BY <1>6
<1>8. \A k \in R : g.from \notin Ahead(g, k) /\ \A x \in Ahead(g, k) : g.got[x] = 0
  BY <1>1, <1>5, <1>7
<1>9. \A k, m \in R : k # m => Ahead(g, k) \cap Ahead(g, m) = {}
  <2>1. ASSUME NEW k \in R, NEW m \in R, k # m
        PROVE  Ahead(f, k) \cap Ahead(f, m) = {}
    <3>1. CASE k \in F \ {l} /\ m \in F \ {l}
      BY <2>1, <3>1 DEF Flooded
    <3>2. CASE k \in O /\ m \in O
      BY <2>1, <3>2
    <3>3. CASE k \in F \ {l} /\ m \in O
      BY <1>4, <3>3
    <3>4. CASE m \in F \ {l} /\ k \in O
      BY <1>4, <3>4
    <3> QED BY <3>1, <3>2, <3>3, <3>4
  <2> QED BY <1>1, <2>1
<1>10. \A x \in Node : g.got[x] = 0 \/ (g.got[x] = 1 /\ x \in Audience(g))
  <2>1. \A x \in Node : f.got[x] = 0 \/ (f.got[x] = 1 /\ x \in Audience(f))
    BY DEF Flooded
  <2> QED BY <1>1, <2>1
<1>11. ASSUME NEW x \in Audience(g), g.got[x] = 0, ~g.lost
       PROVE  \E k \in R : x \in Ahead(g, k)
  <2>1. x # n /\ x \in Audience(f)
    BY <1>1, <1>11
  <2>2. x \in Node
    <3>1. \A y \in Out(f.from, Port) : y[1] \in Node
      BY OutFacts, BeyondFacts
    <3> QED BY <2>1, <3>1 DEF Audience
  <2>3. f.got[x] = 0
    BY <1>11, <2>1, <2>2
  <2>4. PICK k \in F : x \in Ahead(f, k)
    BY <1>11, <2>1, <2>3 DEF Flooded
  <2>5. CASE k # l
    BY <1>1, <2>4, <2>5
  <2>6. CASE k = l
    BY <1>1, <2>1, <2>4, <2>6
  <2> QED BY <2>5, <2>6
<1>12. O \cap F = {}
  <2>1. ASSUME NEW m \in O, m \in F
        PROVE  FALSE
    <3>1. m[1] \in Ahead(f, m) /\ m[1] \in Ahead(f, l) /\ m[1] # n
      BY <1>2, <2>1
    <3>2. m # l
      BY <3>1
    <3> QED BY <1>4, <2>1, <3>1, <3>2
  <2> QED BY <2>1
<1>14. \A k \in R : Spreads(g) \/ k[1] \in Audience(g)
  BY <1>1 DEF Flooded
<1>13. Flooded(g, R)
  BY <1>8, <1>9, <1>10, <1>11, <1>14 DEF Flooded
<1> QED BY <1>12, <1>13

\* The relay and the re-flood pass on what spreads.
LEMMA FloodRelayed ==
  ASSUME NEW f, NEW F \in SUBSET DOMAIN Peer, Flooded(f, F), NEW l \in F, Spreads(f),
         NEW g, Gets(f, g, l[1])
  PROVE  LET O == Out(l[1], EgressPorts(l[2]))
         IN  Flooded(g, (F \ {l}) \cup O) /\ O \cap F = {}
<1> DEFINE n == l[1]
           O == Out(n, EgressPorts(l[2]))
<1>1. /\ n \in Node /\ O \subseteq Out(n, Port)
      /\ \A m \in O : Beyond(m) \subseteq Beyond(l)
      /\ \A x \in Beyond(l) : x # n => \E m \in O : x \in Beyond(m)
  BY RelayFacts
<1>2. \A m \in O : m \in DOMAIN Peer /\ n \notin Beyond(m)
  BY <1>1, OutApart
<1>3. \A m, k \in O : m # k => Beyond(m) \cap Beyond(k) = {}
  BY <1>1, OutApart
<1>4. \A k : Ahead(f, k) = Beyond(k)
  BY DEF Ahead
<1>5. O \in SUBSET DOMAIN Peer
  BY <1>2
<1>6. \A m \in O : Ahead(f, m) \subseteq Ahead(f, l) \ {n}
  BY <1>1, <1>2, <1>4
<1>7. \A m, k \in O : m # k => Ahead(f, m) \cap Ahead(f, k) = {}
  BY <1>3, <1>4
<1>8. \A x \in Ahead(f, l) \cap Audience(f) : x = n \/ \E m \in O : x \in Ahead(f, m)
  BY <1>1, <1>4
<1>9. PassesOn(f, l, O)
  BY <1>6, <1>7, <1>8 DEF PassesOn
<1> HIDE DEF O, n
<1>10. Flooded(g, (F \ {l}) \cup O) /\ O \cap F = {}
  BY <1>5, <1>9, FloodPasses
<1> QED BY <1>10 DEF O, n

\* What is not passed on was for its receiver.
LEMMA FloodStops ==
  ASSUME NEW f, NEW F \in SUBSET DOMAIN Peer, Flooded(f, F), NEW l \in F,
         Ahead(f, l) \cap Audience(f) \subseteq {l[1]}, NEW g, Gets(f, g, l[1])
  PROVE  Flooded(g, F \ {l})
<1> DEFINE O == {}
<1>1. O \in SUBSET DOMAIN Peer /\ PassesOn(f, l, O)
  BY DEF PassesOn
<1>2. (F \ {l}) \cup O = F \ {l}
  OBVIOUS
<1> HIDE DEF O
<1>3. Flooded(g, (F \ {l}) \cup O)
  BY <1>1, FloodPasses
<1> QED BY <1>2, <1>3

\* A frame that is lost.
LEMMA FloodLoses ==
  ASSUME NEW f, NEW F, Flooded(f, F), NEW l \in F, NEW g, SameFlood(f, g), g.lost = TRUE, g.got = f.got
  PROVE  Flooded(g, F \ {l})
<1>1. Audience(g) = Audience(f) /\ Spreads(g) = Spreads(f) /\ (\A k : Ahead(g, k) = Ahead(f, k)) /\ g.from = f.from
  BY SameFloodFacts DEF SameFlood
<1> QED BY <1>1 DEF Flooded

\* A frame is taken from its link.
LEMMA TailFlies ==
  ASSUME NEW links, NEW log, Linked(links), FliesRight(links, log), NEW l \in DOMAIN Peer,
         links[l] # <<>>
  PROVE  LET g == Head(links[l])
             w == [links EXCEPT ![l] = Tail(@)]
         IN  /\ Linked(w) /\ FliesRight(w, log) /\ g.no \in DOMAIN log /\ Carries(g, log[g.no])
             /\ l \in Flying(links, g.no) /\ Flying(links, g.no) \in SUBSET DOMAIN Peer
             /\ Flying(w, g.no) = Flying(links, g.no) \ {l}
             /\ \A k : k # g.no => Flying(w, k) = Flying(links, k)
<1> DEFINE g == Head(links[l])
           q == Tail(links[l])
           w == [links EXCEPT ![l] = q]
<1>1. DOMAIN links = DOMAIN Peer /\ IsList(links[l])
  BY DEF Linked
<1>2. /\ IsList(q) /\ DOMAIN q = 1..Len(links[l]) - 1 /\ 1 \in DOMAIN links[l] /\ g = links[l][1]
      /\ \A i \in DOMAIN q : i + 1 \in DOMAIN links[l] /\ q[i] = links[l][i + 1]
  BY <1>1, TailList
<1>3. DOMAIN links[l] = 1..Len(links[l]) /\ Len(links[l]) \in Nat
  BY <1>1, ListFacts
<1>4. DOMAIN w = DOMAIN links /\ w[l] = q /\ \A k \in DOMAIN links : k # l => w[k] = links[k]
  BY <1>1
<1> HIDE DEF w, q, g
<1>5. Linked(w)
  BY <1>1, <1>2, <1>4 DEF Linked
<1>6. \A i \in DOMAIN q : i \in Nat /\ i + 1 # 1
  BY <1>2
<1>7. \A i, j \in DOMAIN q : i + 1 = j + 1 => i = j
  BY <1>2
<1>8. /\ \A i \in DOMAIN links[l] :
           /\ links[l][i].no \in DOMAIN log /\ Carries(links[l][i], log[links[l][i].no])
           /\ \A j \in DOMAIN links[l] : links[l][i].no = links[l][j].no => i = j
      /\ \A m \in DOMAIN links : m # l =>
           \A i \in DOMAIN links[m] :
             /\ links[m][i].no \in DOMAIN log /\ Carries(links[m][i], log[links[m][i].no])
             /\ \A j \in DOMAIN links[m] : links[m][i].no = links[m][j].no => i = j
  BY <1>1 DEF FliesRight
<1>9. ASSUME NEW m \in DOMAIN w, NEW i \in DOMAIN w[m]
      PROVE  /\ w[m][i].no \in DOMAIN log /\ Carries(w[m][i], log[w[m][i].no])
             /\ \A j \in DOMAIN w[m] : w[m][i].no = w[m][j].no => i = j
  <2>1. CASE m # l
    BY <1>4, <1>8, <1>9, <2>1
  <2>2. CASE m = l
    BY <1>2, <1>4, <1>7, <1>8, <1>9, <2>2
  <2> QED BY <2>1, <2>2
<1>10. FliesRight(w, log)
  BY <1>9 DEF FliesRight
<1>11. \A i \in DOMAIN q : q[i].no # g.no
  BY <1>2, <1>6, <1>8
<1>12. l \in Flying(links, g.no) /\ \A k : Flying(links, k) \subseteq DOMAIN Peer
  BY <1>1, <1>2 DEF Flying
<1>13. Flying(w, g.no) = Flying(links, g.no) \ {l}
  BY <1>1, <1>4, <1>11 DEF Flying
<1>14. ASSUME NEW k, k # g.no
       PROVE  Flying(w, k) = Flying(links, k)
  <2>1. (\E i \in DOMAIN q : q[i].no = k) <=> \E i \in DOMAIN links[l] : links[l][i].no = k
    <3>1. ASSUME NEW i \in DOMAIN links[l], links[l][i].no = k
          PROVE  \E j \in DOMAIN q : q[j].no = k
      <4>1. i # 1
        BY <1>2, <1>14, <3>1
      <4>2. i - 1 \in DOMAIN q /\ (i - 1) + 1 = i
        BY <1>2, <1>3, <4>1
      <4>3. q[i - 1] = links[l][i]
        BY <1>2, <4>2
      <4> QED BY <3>1, <4>2, <4>3
    <3>2. ASSUME NEW j \in DOMAIN q, q[j].no = k
          PROVE  \E i \in DOMAIN links[l] : links[l][i].no = k
      BY <1>2, <3>2
    <3> QED BY <3>1, <3>2
  <2>2. Flying(w, k) \subseteq Flying(links, k)
    BY <1>4, <2>1 DEF Flying
  <2>3. Flying(links, k) \subseteq Flying(w, k)
    BY <1>4, <2>1 DEF Flying
  <2> QED BY <2>2, <2>3
<1>15. g.no \in DOMAIN log /\ Carries(g, log[g.no])
  BY <1>2, <1>8
<1> QED BY <1>5, <1>10, <1>12, <1>13, <1>14, <1>15 DEF w, q, g

\* A frame is sent where no other of its flood is.
LEMMA SentFlies ==
  ASSUME NEW links, NEW log, Linked(links), FliesRight(links, log), NEW n, NEW P, NEW g,
         g.no \in DOMAIN log, Carries(g, log[g.no]), Out(n, P) \cap Flying(links, g.no) = {}
  PROVE  LET w == Sent(links, n, P, g)
         IN  /\ Linked(w) /\ FliesRight(w, log)
             /\ Flying(w, g.no) = Flying(links, g.no) \cup Out(n, P)
             /\ \A k : k # g.no => Flying(w, k) = Flying(links, k)
<1> DEFINE w == Sent(links, n, P, g)
           O == Out(n, P)
<1>1. /\ DOMAIN w = DOMAIN links /\ DOMAIN links = DOMAIN Peer /\ \A l \in DOMAIN links : IsList(links[l])
      /\ \A l \in DOMAIN links : w[l] = IF l \in O THEN Append(links[l], g) ELSE links[l]
      /\ O \subseteq DOMAIN Peer
  BY OutFacts DEF Sent, Linked
<1> HIDE DEF w, O
<1>2. ASSUME NEW l \in O
      PROVE  /\ IsList(w[l]) /\ Len(links[l]) + 1 \in DOMAIN w[l] /\ w[l][Len(links[l]) + 1] = g
             /\ \A i \in DOMAIN links[l] : i \in DOMAIN w[l] /\ w[l][i] = links[l][i]
             /\ \A i \in DOMAIN w[l] : i \in DOMAIN links[l] \/ i = Len(links[l]) + 1
             /\ \A i \in DOMAIN links[l] : links[l][i].no # g.no
  <2> DEFINE q == Append(links[l], g)
  <2>4. l \in DOMAIN links /\ IsList(links[l]) /\ w[l] = q
    BY <1>1
  <2>5. /\ IsList(q) /\ DOMAIN q = 1..Len(links[l]) + 1 /\ q[Len(links[l]) + 1] = g
        /\ \A i \in DOMAIN links[l] : q[i] = links[l][i]
    BY <2>4, AppendList
  <2> HIDE DEF q
  <2>1. /\ IsList(w[l]) /\ DOMAIN w[l] = 1..Len(links[l]) + 1 /\ w[l][Len(links[l]) + 1] = g
        /\ \A i \in DOMAIN links[l] : w[l][i] = links[l][i]
    BY <2>4, <2>5
  <2>2. DOMAIN links[l] = 1..Len(links[l]) /\ Len(links[l]) \in Nat
    BY <1>1, ListFacts
  <2>3. \A i \in DOMAIN links[l] : links[l][i].no # g.no
    BY <1>1 DEF Flying, O
  <2> QED BY <2>1, <2>2, <2>3
<1>3. ASSUME NEW l \in DOMAIN links, l \notin O
      PROVE  w[l] = links[l] /\ IsList(w[l])
  BY <1>1, <1>3
<1>4. Linked(w)
  BY <1>1, <1>2, <1>3 DEF Linked
<1>5. ASSUME NEW l \in DOMAIN w, NEW i \in DOMAIN w[l]
      PROVE  /\ w[l][i].no \in DOMAIN log /\ Carries(w[l][i], log[w[l][i].no])
             /\ \A j \in DOMAIN w[l] : w[l][i].no = w[l][j].no => i = j
  <2>1. \A x \in DOMAIN links[l] :
           /\ links[l][x].no \in DOMAIN log /\ Carries(links[l][x], log[links[l][x].no])
           /\ \A j \in DOMAIN links[l] : links[l][x].no = links[l][j].no => x = j
    BY <1>1, <1>5 DEF FliesRight
  <2>2. CASE l \notin O
    BY <1>1, <1>3, <1>5, <2>1, <2>2
  <2>3. CASE l \in O
    <3>1. w[l][i].no \in DOMAIN log /\ Carries(w[l][i], log[w[l][i].no])
      BY <1>2, <1>5, <2>1, <2>3
    <3>2. ASSUME NEW j \in DOMAIN w[l], w[l][i].no = w[l][j].no
          PROVE  i = j
      BY <1>2, <1>5, <2>1, <2>3, <3>2
    <3> QED BY <3>1, <3>2
  <2> QED BY <2>2, <2>3
<1>6. FliesRight(w, log)
  BY <1>5 DEF FliesRight
<1>7. Flying(w, g.no) = Flying(links, g.no) \cup O
  <2>1. \A l \in O : l \in Flying(w, g.no)
    BY <1>1, <1>2 DEF Flying
  <2>2. \A l \in DOMAIN links \ O : l \in Flying(w, g.no) <=> l \in Flying(links, g.no)
    BY <1>1, <1>3 DEF Flying
  <2>3. Flying(w, g.no) \subseteq DOMAIN links /\ Flying(links, g.no) \subseteq DOMAIN links /\ O \subseteq DOMAIN links
    BY <1>1 DEF Flying
  <2> QED BY <2>1, <2>2, <2>3
<1>8. ASSUME NEW k, k # g.no
      PROVE  Flying(w, k) = Flying(links, k)
  <2>1. ASSUME NEW l \in O
        PROVE  (\E i \in DOMAIN w[l] : w[l][i].no = k) <=> \E i \in DOMAIN links[l] : links[l][i].no = k
    BY <1>2, <1>8
  <2>2. \A l \in DOMAIN links : l \in Flying(w, k) <=> l \in Flying(links, k)
    BY <1>1, <1>3, <2>1 DEF Flying
  <2>3. Flying(w, k) \subseteq DOMAIN links /\ Flying(links, k) \subseteq DOMAIN links
    BY <1>1 DEF Flying
  <2> QED BY <2>2, <2>3
<1> QED BY <1>4, <1>6, <1>7, <1>8 DEF w, O

\* What a change to the record of one flood leaves of the invariant.
OneFlood(log, other, k) ==
  /\ other \in Seq(Floods) /\ DOMAIN other = DOMAIN log /\ SameFlood(log[k], other[k])
  /\ \A j \in DOMAIN log : j # k => other[j] = log[j]

LEMMA OneFloodRight ==
  ASSUME NEW log, NEW k \in DOMAIN log, NEW other, OneFlood(log, other, k), NEW links
  PROVE  /\ FliesRight(links, log) => FliesRight(links, other)
         /\ \A g : g.no \in DOMAIN log /\ Carries(g, log[g.no]) => Carries(g, other[g.no])
         /\ \A j \in DOMAIN log : AnswersRight(log, j) => AnswersRight(other, j)
<1>1. DOMAIN other = DOMAIN log /\ \A j \in DOMAIN log : SameFlood(log[j], other[j])
  BY DEF OneFlood, SameFlood
<1>2. \A j \in DOMAIN log : \A g : Carries(g, log[j]) => Carries(g, other[j])
  BY <1>1, SameFloodFacts
<1>3. FliesRight(links, log) => FliesRight(links, other)
  BY <1>1, <1>2 DEF FliesRight
<1>4. \A j \in DOMAIN log : AnswersRight(log, j) => AnswersRight(other, j)
  BY <1>1 DEF AnswersRight, SameFlood
<1> QED BY <1>2, <1>3, <1>4

LEMMA FloodMoves ==
  ASSUME NEW links, NEW log, FloodInv(links, log), NEW k \in DOMAIN log,
         NEW other, OneFlood(log, other, k),
         NEW w, Linked(w), FliesRight(w, other), \A j : j # k => Flying(w, j) = Flying(links, j),
         Flooded(other[k], Flying(w, k))
  PROVE  FloodInv(w, other)
<1>1. \A j \in DOMAIN log : Flooded(log[j], Flying(links, j)) /\ AnswersRight(log, j)
  BY DEF FloodInv
<1>2. \A j \in DOMAIN other : AnswersRight(other, j)
  BY <1>1, OneFloodRight DEF OneFlood
<1>3. \A j \in DOMAIN other : Flooded(other[j], Flying(w, j))
  BY <1>1 DEF OneFlood
<1> QED BY <1>2, <1>3 DEF FloodInv, OneFlood

\* A node got a frame of flood k.
LEMMA GotFacts ==
  ASSUME NEW log \in Seq(Floods), NEW g, g.no \in DOMAIN log, NEW n \in Node
  PROVE  LET k == g.no
             other == GotBy(log, g, n)
         IN  /\ OneFlood(log, other, k) /\ other[k].lost = log[k].lost
             /\ other[k].got[n] = log[k].got[n] + 1 /\ Len(other) = Len(log)
             /\ \A x \in Node : x # n => other[k].got[x] = log[k].got[x]
<1> DEFINE k == g.no
           f == log[k]
           w == [f.got EXCEPT ![n] = @ + 1]
           h == [f EXCEPT !.got = w]
           other == [log EXCEPT ![k] = h]
<1>1. f \in Floods
  OBVIOUS
<1> HIDE DEF f, k
<1>2. /\ h \in Floods /\ h.from = f.from /\ h.scope = f.scope /\ h.to = f.to /\ h.re = f.re
      /\ h.lost = f.lost /\ h.got[n] = f.got[n] + 1
      /\ \A x \in Node : x # n => h.got[x] = f.got[x]
  <2>1. f.got \in [Node -> Nat]
    BY <1>1 DEF Floods
  <2>2. w \in [Node -> Nat] /\ w[n] = f.got[n] + 1 /\ \A x \in Node : x # n => w[x] = f.got[x]
    BY <2>1
  <2> HIDE DEF w
  <2>3. /\ h \in Floods /\ h.from = f.from /\ h.scope = f.scope /\ h.to = f.to /\ h.re = f.re
        /\ h.lost = f.lost /\ h.got = w
    BY <1>1, <2>2 DEF Floods
  <2> HIDE DEF h
  <2> QED BY <2>2, <2>3
<1> HIDE DEF h
<1>3. k \in DOMAIN log
  BY DEF k
<1>4. /\ other \in Seq(Floods) /\ DOMAIN other = DOMAIN log /\ Len(other) = Len(log) /\ other[k] = h
      /\ \A j \in DOMAIN log : j # k => other[j] = log[j]
  BY <1>2, <1>3
<1>5. GotBy(log, g, n) = other
  BY DEF GotBy, k, f, h
<1> HIDE DEF other
<1>6. OneFlood(log, other, k)
  BY <1>2, <1>4 DEF OneFlood, SameFlood, f
<1> QED BY <1>2, <1>4, <1>5, <1>6 DEF k, f

\* An arrival that nobody is told of is no change to the history.
LEMMA KeptFacts ==
  ASSUME NEW log \in Seq(Floods), NEW k \in DOMAIN log
  PROVE  OneFlood(log, log, k)
BY DEF OneFlood, SameFlood

\* A frame that arrives was ahead of itself: its receiver did not get it before.
LEMMA ArrivesNew ==
  ASSUME NEW f, NEW F \in SUBSET DOMAIN Peer, Flooded(f, F), NEW l \in F
  PROVE  /\ f.got[l[1]] = 0 /\ l[1] \in Node /\ l[1] # f.from
         /\ Spreads(f) \/ l[1] \in Audience(f)
BY AheadFacts DEF Flooded

\* Who is meant by a publication or a datagram, on the bus or the link, and
\* who by a message.
LEMMA MeantFacts ==
  ASSUME NEW f, NEW g, Carries(g, f), NEW l \in DOMAIN Peer, l[1] \in Node, l[1] # f.from,
         Spreads(f) \/ l[1] \in Audience(f)
  PROVE  /\ g.body.kind \in {"pub", "udp"} =>
              /\ l[1] \in Audience(f)
              /\ g.scope = "global" => Spreads(f)
              /\ g.scope # "global" => Ahead(f, l) = {l[1]}
         /\ g.body.kind = "bcmp" /\ IsLocal(g.body, l[1]) =>
              l[1] \in Audience(f) /\ Ahead(f, l) \cap Audience(f) \subseteq {l[1]}
         /\ g.body.kind = "bcmp" /\ ~IsLocal(g.body, l[1]) => Spreads(f) /\ l[1] \notin Audience(f)
<1>1. l[1] # Everyone
  BY ServicesAssumption
<1>2. g.scope = f.scope
  BY DEF Carries
<1>3. ASSUME g.body.kind = "bcmp"
      PROVE  f.scope # "global" /\ g.body.to = f.to
  BY <1>3 DEF Carries
<1>4. ASSUME g.body.kind \in {"pub", "udp"}
      PROVE  /\ l[1] \in Audience(f)
             /\ g.scope = "global" => Spreads(f)
             /\ g.scope # "global" => Ahead(f, l) = {l[1]}
  <2>1. f.to = Everyone
    BY <1>4 DEF Carries
  <2> QED BY <1>2, <2>1 DEF Ahead, Spreads, Audience
<1>5. ASSUME g.body.kind = "bcmp", IsLocal(g.body, l[1])
      PROVE  l[1] \in Audience(f) /\ Ahead(f, l) \cap Audience(f) \subseteq {l[1]}
  <2>1. f.to = l[1] \/ f.to = Everyone
    BY <1>3, <1>5 DEF IsLocal
  <2>2. CASE f.to = Everyone
    BY <1>3, <1>5, <2>2 DEF Ahead, Spreads
  <2>3. CASE f.to = l[1]
    BY <1>1, <1>3, <1>5, <2>3 DEF Audience
  <2> QED BY <2>1, <2>2, <2>3
<1>6. ASSUME g.body.kind = "bcmp", ~IsLocal(g.body, l[1])
      PROVE  Spreads(f) /\ l[1] \notin Audience(f)
  <2>1. f.to # l[1] /\ f.to # Everyone
    BY <1>3, <1>6 DEF IsLocal
  <2> QED BY <1>3, <1>6, <2>1 DEF Spreads, Audience
<1> QED BY <1>4, <1>5, <1>6

\* A frame is taken from its link, and nothing is sent.
LEMMA FrameTaken ==
  ASSUME NEW links, NEW log, FloodInv(links, log), NEW l \in DOMAIN Peer, links[l] # <<>>,
         NEW other, OneFlood(log, other, Head(links[l]).no),
         LET k == Head(links[l]).no IN Flooded(other[k], Flying(links, k) \ {l})
  PROVE  FloodInv([links EXCEPT ![l] = Tail(@)], other)
<1> DEFINE k == Head(links[l]).no
           w == [links EXCEPT ![l] = Tail(@)]
<1>1. /\ Linked(w) /\ FliesRight(w, log) /\ k \in DOMAIN log
      /\ Flying(w, k) = Flying(links, k) \ {l}
      /\ \A j : j # k => Flying(w, j) = Flying(links, j)
  BY TailFlies DEF FloodInv
<1> HIDE DEF w, k
<1>2. OneFlood(log, other, k) /\ Flooded(other[k], Flying(w, k))
  BY <1>1 DEF k
<1>3. FliesRight(w, other)
  BY <1>1, <1>2, OneFloodRight
<1>4. FloodInv(w, other)
  BY <1>1, <1>2, <1>3, FloodMoves
<1> QED BY <1>4 DEF w

\* It is passed on from its receiver's other ports.
LEMMA FramePassed ==
  ASSUME NEW links, NEW log, FloodInv(links, log), NEW l \in DOMAIN Peer, links[l] # <<>>,
         NEW other, OneFlood(log, other, Head(links[l]).no),
         NEW h, h.no = Head(links[l]).no, Carries(h, log[h.no]), Spreads(log[h.no]),
         Gets(log[h.no], other[h.no], l[1])
  PROVE  FloodInv(Sent([links EXCEPT ![l] = Tail(@)], l[1], EgressPorts(l[2]), h), other)
<1> DEFINE k == Head(links[l]).no
           rest == [links EXCEPT ![l] = Tail(@)]
           n == l[1]
           P == EgressPorts(l[2])
           F == Flying(links, k)
           w == Sent(rest, n, P, h)
<1>1. /\ Linked(rest) /\ FliesRight(rest, log) /\ k \in DOMAIN log /\ l \in F /\ F \in SUBSET DOMAIN Peer
      /\ Flying(rest, k) = F \ {l}
      /\ \A j : j # k => Flying(rest, j) = Flying(links, j)
  BY TailFlies DEF FloodInv
<1>2. Flooded(log[k], F)
  BY <1>1 DEF FloodInv
<1> HIDE DEF rest, k, F, n, P
<1>3. h.no = k /\ OneFlood(log, other, k)
  BY DEF k
<1>4. Flooded(other[k], (F \ {l}) \cup Out(n, P)) /\ Out(n, P) \cap F = {}
  BY <1>1, <1>2, <1>3, FloodRelayed DEF n, P
<1>5. FliesRight(rest, other) /\ Carries(h, other[k]) /\ DOMAIN other = DOMAIN log
  BY <1>1, <1>3, OneFloodRight DEF OneFlood
<1>6. Out(n, P) \cap Flying(rest, k) = {}
  BY <1>1, <1>4
<1> HIDE DEF w
<1>7. /\ Linked(w) /\ FliesRight(w, other)
      /\ Flying(w, k) = Flying(rest, k) \cup Out(n, P)
      /\ \A j : j # k => Flying(w, j) = Flying(rest, j)
  BY <1>1, <1>3, <1>5, <1>6, SentFlies DEF w
<1>8. Flooded(other[k], Flying(w, k)) /\ \A j : j # k => Flying(w, j) = Flying(links, j)
  BY <1>1, <1>4, <1>7
<1>9. FloodInv(w, other)
  BY <1>1, <1>3, <1>7, <1>8, FloodMoves
<1> QED BY <1>9 DEF w, rest, n, P

\* A frame arrives: what is known of it, and what its receiver makes of it.
LEMMA ArrivalFacts ==
  ASSUME NEW links, NEW log, FloodInv(links, log), NEW l \in DOMAIN Peer, links[l] # <<>>
  PROVE  LET g == Head(links[l])
             n == l[1]
             f == log[g.no]
             other == GotBy(log, g, n)
         IN  /\ g.no \in DOMAIN log /\ f \in Floods /\ Carries(g, f) /\ n \in Node
             /\ Flooded(f, Flying(links, g.no)) /\ l \in Flying(links, g.no)
             /\ Flying(links, g.no) \in SUBSET DOMAIN Peer
             /\ n # f.from /\ (Spreads(f) \/ n \in Audience(f)) /\ f.got[n] = 0
             /\ OneFlood(log, other, g.no) /\ Len(other) = Len(log)
             /\ n \in Audience(f) => Gets(f, other[g.no], n)
             /\ n \notin Audience(f) => Gets(f, f, n)
<1> DEFINE g == Head(links[l])
           n == l[1]
           f == log[g.no]
           other == GotBy(log, g, n)
           F == Flying(links, g.no)
<1>1. g.no \in DOMAIN log /\ Carries(g, f) /\ l \in F /\ F \in SUBSET DOMAIN Peer
  BY TailFlies DEF FloodInv
<1>2. Flooded(f, F) /\ f \in Floods /\ log \in Seq(Floods)
  BY <1>1 DEF FloodInv
<1>3. n \in Node /\ n # f.from /\ (Spreads(f) \/ n \in Audience(f)) /\ f.got[n] = 0
  <2> HIDE DEF f, F
  <2> QED BY <1>1, <1>2, ArrivesNew
<1> HIDE DEF n, F
<1>4. /\ OneFlood(log, other, g.no) /\ other[g.no].lost = f.lost
      /\ other[g.no].got[n] = f.got[n] + 1 /\ Len(other) = Len(log)
      /\ \A x \in Node : x # n => other[g.no].got[x] = f.got[x]
  BY <1>1, <1>2, <1>3, GotFacts
<1>5. ASSUME n \in Audience(f)
      PROVE  Gets(f, other[g.no], n)
  <2> DEFINE h == other[g.no]
  <2>1. SameFlood(f, h)
    BY <1>4 DEF OneFlood
  <2>2. h.lost = f.lost /\ h.got[n] = 1 /\ \A x \in Node : x # n => h.got[x] = f.got[x]
    BY <1>3, <1>4
  <2> HIDE DEF h, f
  <2> QED BY <1>5, <2>1, <2>2 DEF Gets, h
<1>6. n \notin Audience(f) => Gets(f, f, n)
  BY <1>3 DEF Gets, SameFlood
<1> QED BY <1>1, <1>2, <1>3, <1>4, <1>5, <1>6 DEF n, F

\* rx_apply: a publication or a datagram, processed and relayed.
LEMMA DatagramArrives ==
  ASSUME NEW links, NEW log, FloodInv(links, log), NEW l \in DOMAIN Peer, links[l] # <<>>,
         Head(links[l]).body.kind \in {"pub", "udp"}
  PROVE  LET g == Head(links[l])
         IN  FloodInv(Relayed([links EXCEPT ![l] = Tail(@)], l, g), GotBy(log, g, l[1]))
<1> DEFINE g == Head(links[l])
           n == l[1]
           f == log[g.no]
           other == GotBy(log, g, n)
           F == Flying(links, g.no)
           rest == [links EXCEPT ![l] = Tail(@)]
<1>1. /\ g.no \in DOMAIN log /\ Carries(g, f) /\ n \in Node /\ Flooded(f, F) /\ l \in F
      /\ F \in SUBSET DOMAIN Peer /\ n # f.from /\ (Spreads(f) \/ n \in Audience(f))
      /\ OneFlood(log, other, g.no) /\ (n \in Audience(f) => Gets(f, other[g.no], n))
  BY ArrivalFacts
<1>2. n \in Audience(f) /\ (g.scope = "global" => Spreads(f)) /\ (g.scope # "global" => Ahead(f, l) = {n})
  <2> HIDE DEF f, g, F, other, rest
  <2>1. g.body.kind \in {"pub", "udp"}
    BY DEF g
  <2> QED BY <1>1, <2>1, MeantFacts
<1>3. Gets(f, other[g.no], n)
  BY <1>1, <1>2
<1>4. CASE g.scope = "global"
  <2>1. FloodInv(Sent(rest, n, EgressPorts(l[2]), g), other)
    <3> HIDE DEF other
    <3> QED BY <1>1, <1>2, <1>3, <1>4, FramePassed
  <2> QED BY <1>4, <2>1 DEF Relayed
<1>5. CASE g.scope # "global"
  <2>1. Flooded(other[g.no], F \ {l})
    <3>1. Ahead(f, l) \cap Audience(f) \subseteq {n}
      BY <1>2, <1>5
    <3> HIDE DEF other, F, f
    <3> QED BY <1>1, <1>3, <3>1, FloodStops
  <2>2. FloodInv(rest, other)
    <3> HIDE DEF other
    <3> QED BY <1>1, <2>1, FrameTaken
  <2> QED BY <1>5, <2>2 DEF Relayed
<1> QED BY <1>4, <1>5

\* forward_link_local and process_system_time: a message for this node or all,
\* and one for another.
LEMMA MessageArrives ==
  ASSUME NEW links, NEW log, FloodInv(links, log), NEW l \in DOMAIN Peer, links[l] # <<>>,
         Head(links[l]).body.kind = "bcmp"
  PROVE  LET g == Head(links[l])
             rest == [links EXCEPT ![l] = Tail(@)]
         IN  /\ IsLocal(g.body, l[1]) => FloodInv(rest, GotBy(log, g, l[1]))
             /\ ~IsLocal(g.body, l[1]) =>
                  \A h : h.no = g.no /\ h.scope = g.scope /\ h.body = g.body =>
                    FloodInv(Sent(rest, l[1], EgressPorts(l[2]), h), log)
<1> DEFINE g == Head(links[l])
           n == l[1]
           f == log[g.no]
           other == GotBy(log, g, n)
           F == Flying(links, g.no)
           rest == [links EXCEPT ![l] = Tail(@)]
<1>1. /\ g.no \in DOMAIN log /\ Carries(g, f) /\ n \in Node /\ Flooded(f, F) /\ l \in F
      /\ F \in SUBSET DOMAIN Peer /\ n # f.from /\ (Spreads(f) \/ n \in Audience(f))
      /\ OneFlood(log, other, g.no) /\ (n \in Audience(f) => Gets(f, other[g.no], n))
      /\ n \notin Audience(f) => Gets(f, f, n)
  BY ArrivalFacts
<1>2. /\ IsLocal(g.body, n) => n \in Audience(f) /\ Ahead(f, l) \cap Audience(f) \subseteq {n}
      /\ ~IsLocal(g.body, n) => Spreads(f) /\ n \notin Audience(f)
  <2> HIDE DEF f, g, F, other, rest
  <2>1. g.body.kind = "bcmp"
    BY DEF g
  <2> QED BY <1>1, <2>1, MeantFacts
<1>3. ASSUME IsLocal(g.body, n)
      PROVE  FloodInv(rest, other)
  <2>1. Flooded(other[g.no], F \ {l})
    <3>1. Ahead(f, l) \cap Audience(f) \subseteq {n} /\ Gets(f, other[g.no], n)
      BY <1>1, <1>2, <1>3
    <3> HIDE DEF other, F, f
    <3> QED BY <1>1, <3>1, FloodStops
  <2> HIDE DEF other
  <2> QED BY <1>1, <2>1, FrameTaken
<1>4. ASSUME ~IsLocal(g.body, n), NEW h, h.no = g.no, h.scope = g.scope, h.body = g.body
      PROVE  FloodInv(Sent(rest, n, EgressPorts(l[2]), h), log)
  <2>1. OneFlood(log, log, g.no)
    BY <1>1, KeptFacts DEF FloodInv
  <2>2. Carries(h, f)
    BY <1>1, <1>4 DEF Carries
  <2>3. Spreads(f) /\ Gets(f, f, n)
    BY <1>1, <1>2, <1>4
  <2> QED BY <1>4, <2>1, <2>2, <2>3, FramePassed
<1> QED BY <1>3, <1>4

\* A frame is lost.
LEMMA FrameLost ==
  ASSUME NEW links, NEW log, FloodInv(links, log), NEW l \in DOMAIN Peer, links[l] # <<>>
  PROVE  FloodInv([links EXCEPT ![l] = Tail(@)], [log EXCEPT ![Head(links[l]).no].lost = TRUE])
<1> DEFINE k == Head(links[l]).no
           f == log[k]
           h == [f EXCEPT !.lost = TRUE]
           other == [log EXCEPT ![k] = h]
           F == Flying(links, k)
<1>1. k \in DOMAIN log /\ f \in Floods /\ Flooded(f, F) /\ l \in F /\ log \in Seq(Floods)
  BY ArrivalFacts DEF FloodInv
<1> HIDE DEF f
<1>2. /\ h \in Floods /\ h.from = f.from /\ h.scope = f.scope /\ h.to = f.to /\ h.re = f.re
      /\ h.lost = TRUE /\ h.got = f.got
  BY <1>1 DEF Floods
<1> HIDE DEF h, k, F
<1>3. /\ other \in Seq(Floods) /\ DOMAIN other = DOMAIN log /\ other[k] = h
      /\ \A j \in DOMAIN log : j # k => other[j] = log[j]
  BY <1>1, <1>2
<1>4. OneFlood(log, other, k)
  BY <1>2, <1>3 DEF OneFlood, SameFlood, f
<1>5. Flooded(other[k], F \ {l})
  BY <1>1, <1>2, <1>3, FloodLoses DEF SameFlood
<1>6. other = [log EXCEPT ![k].lost = TRUE]
  BY DEF h, f
<1> HIDE DEF other
<1>7. FloodInv([links EXCEPT ![l] = Tail(@)], other)
  BY <1>4, <1>5, FrameTaken DEF k, F
<1> QED BY <1>6, <1>7 DEF k

\* What a node sends is new to everyone.
LEMMA FloodSent ==
  ASSUME NEW links, NEW log, FloodInv(links, log), NEW n \in Node, NEW scope \in {"global", "link"},
         NEW to \in Nat, scope = "global" => to = Everyone, NEW re \in Nat,
         re # 0 => re \in DOMAIN log /\ (to # Everyone => to = log[re].from), NEW body,
         \/ body.kind \in {"pub", "udp"} /\ to = Everyone
         \/ body.kind = "bcmp" /\ scope = "link" /\ body.to = to /\ body.from = n
  PROVE  FloodInv(Sent(links, n, Port, Frame(Len(log) + 1, scope, n, body)),
                  Append(log, Flood(n, scope, to, re)))
<1> DEFINE k == Len(log) + 1
           g == Frame(k, scope, n, body)
           f == Flood(n, scope, to, re)
           other == Append(log, f)
           w == Sent(links, n, Port, g)
<1>1. log \in Seq(Floods) /\ Linked(links) /\ FliesRight(links, log)
  BY DEF FloodInv
<1>2. f \in Floods /\ f.from = n /\ f.scope = scope /\ f.to = to /\ f.re = re
  BY DEF Floods, Flood
<1>3. g.no = k /\ g.scope = scope /\ g.body = body
  BY DEF Frame
<1>4. Carries(g, f)
  BY <1>2, <1>3 DEF Carries
<1>5. Flooded(f, Out(n, Port))
  BY FloodStarts
<1> HIDE DEF f, g
<1>6. /\ other \in Seq(Floods) /\ DOMAIN other = DOMAIN log \cup {k} /\ other[k] = f
      /\ k \notin DOMAIN log /\ \A j \in DOMAIN log : other[j] = log[j]
  BY <1>1, <1>2
<1> HIDE DEF other, k
<1>7. FliesRight(links, other)
  BY <1>1, <1>6 DEF FliesRight
<1>8. Flying(links, k) = {}
  BY <1>1, <1>6 DEF FliesRight, Flying
<1>9. Out(n, Port) \cap Flying(links, g.no) = {}
  BY <1>3, <1>8
<1>10. g.no \in DOMAIN other /\ Carries(g, other[g.no])
  BY <1>3, <1>4, <1>6
<1>11. /\ Linked(w) /\ FliesRight(w, other) /\ Flying(w, k) = Flying(links, k) \cup Out(n, Port)
       /\ \A j : j # k => Flying(w, j) = Flying(links, j)
  BY <1>1, <1>3, <1>7, <1>9, <1>10, SentFlies
<1> HIDE DEF w
<1>12. \A j \in DOMAIN log : Flooded(log[j], Flying(links, j)) /\ AnswersRight(log, j)
  BY DEF FloodInv
<1>13. \A j \in DOMAIN other : Flooded(other[j], Flying(w, j))
  BY <1>5, <1>6, <1>8, <1>11, <1>12
<1>14. AnswersRight(other, k)
  BY <1>2, <1>6 DEF AnswersRight
<1>15. \A j \in DOMAIN log : AnswersRight(other, j)
  BY <1>6, <1>12 DEF AnswersRight
<1>16. FloodInv(w, other)
  BY <1>6, <1>11, <1>13, <1>14, <1>15 DEF FloodInv
<1> QED BY <1>16 DEF w, g, f, k, other

\* Node::submit of a publication, with what a service of the node answers.
LEMMA PublicationFloods ==
  ASSUME IInv, FloodInv(net, floods), NEW l \in DOMAIN Peer, ReceivePublication(l)
  PROVE  FloodInv(net', floods')
<1> DEFINE g == Head(net[l])
           n == l[1]
           relayed == Relayed(Rest(l), l, g)
           got == GotBy(floods, g, n)
<1>1. net[l] # <<>> /\ g.body.kind = "pub" /\ n \in Node
  BY ServicesAssumption DEF ReceivePublication, Takes
<1>2. FloodInv(relayed, got)
  BY <1>1, DatagramArrives DEF Rest
<1>3. g.no \in DOMAIN floods /\ Len(got) = Len(floods) /\ OneFlood(floods, got, g.no)
  BY <1>1, ArrivalFacts
<1>4. g.no \in DOMAIN got /\ g.no \in Nat
  BY <1>3 DEF OneFlood, FloodInv
<1>5. \/ net' = relayed /\ floods' = got
      \/ \E body : /\ body.kind = "pub"
                   /\ net' = Sent(relayed, n, Port, Frame(Len(got) + 1, "global", n, body))
                   /\ floods' = Append(got, Flood(n, "global", Everyone, g.no))
  <2>1. ASSUME NEW topic, NEW data
        PROVE  [kind |-> "pub", topic |-> topic, data |-> data].kind = "pub"
    OBVIOUS
  <2> QED BY <2>1 DEF ReceivePublication
<1> HIDE DEF relayed, got, g
<1>6. CASE net' = relayed /\ floods' = got
  BY <1>2, <1>6
<1>7. ASSUME NEW body, body.kind = "pub",
             net' = Sent(relayed, n, Port, Frame(Len(got) + 1, "global", n, body)),
             floods' = Append(got, Flood(n, "global", Everyone, g.no))
      PROVE  FloodInv(net', floods')
  BY <1>1, <1>2, <1>4, <1>7, FloodSent DEF Everyone
<1> QED BY <1>5, <1>6, <1>7

\* Node::submit of a message, with its answer.
LEMMA MessageFloods ==
  ASSUME IInv, FloodInv(net, floods), NEW l \in DOMAIN Peer, ReceiveBcmp(l)
  PROVE  FloodInv(net', floods')
<1> DEFINE g == Head(net[l])
           n == l[1]
           got == GotBy(floods, g, n)
           h == [g EXCEPT !.src = n]
<1>1. net[l] # <<>> /\ g.body.kind = "bcmp" /\ n \in Node
  BY ServicesAssumption DEF ReceiveBcmp, Takes
<1>2. /\ IsLocal(g.body, n) => FloodInv(Rest(l), got)
      /\ ~IsLocal(g.body, n) =>
           \A w : w.no = g.no /\ w.scope = g.scope /\ w.body = g.body =>
             FloodInv(Sent(Rest(l), n, EgressPorts(l[2]), w), floods)
  BY <1>1, MessageArrives DEF Rest
<1>3. /\ g.no \in DOMAIN floods /\ Len(got) = Len(floods) /\ OneFlood(floods, got, g.no)
      /\ floods[g.no] \in Floods /\ Carries(g, floods[g.no])
  BY <1>1, ArrivalFacts
<1>4. CASE ~IsLocal(g.body, n) /\ net' = Sent(Rest(l), n, EgressPorts(l[2]), h) /\ UNCHANGED floods
  <2>1. DOMAIN g = {"no", "scope", "src", "body"}
    <3>1. NetInv(net, asked)
      BY DEF IInv
    <3>2. FrameInv(g, asked)
      BY <1>1, <3>1, RestStays DEF NetInv
    <3> QED BY <3>2 DEF FrameInv
  <2>2. h.no = g.no /\ h.scope = g.scope /\ h.body = g.body
    <3> HIDE DEF g
    <3> QED BY <2>1
  <2> HIDE DEF h, g
  <2> QED BY <1>2, <1>4, <2>2
<1>5. CASE IsLocal(g.body, n) /\ net' = Rest(l) /\ floods' = got
  BY <1>2, <1>5
<1>6. CASE /\ IsLocal(g.body, n)
           /\ net' = Sent(Rest(l), n, Port,
                          Frame(Len(got) + 1, "link", n,
                                [kind |-> "bcmp", from |-> n, to |-> AnswerTo(g),
                                 asks |-> "nothing"]))
           /\ floods' = Append(got, Flood(n, "link", AnswerTo(g), g.no))
  <2> DEFINE to == AnswerTo(g)
             body == [kind |-> "bcmp", from |-> n, to |-> to, asks |-> "nothing"]
  <2>1. to = floods[g.no].from /\ to \in Nat
    <3>1. to = floods[g.no].from
      BY <1>1, <1>3 DEF AnswerTo, Carries
    <3>2. floods[g.no].from \in Node
      BY <1>3 DEF Floods
    <3> QED BY <3>1, <3>2, ServicesAssumption
  <2>2. body.kind = "bcmp" /\ body.to = to /\ body.from = n
    OBVIOUS
  <2>3. g.no \in DOMAIN got /\ to = got[g.no].from /\ g.no \in Nat
    BY <1>3, <2>1 DEF OneFlood, SameFlood, FloodInv
  <2>4. /\ net' = Sent(Rest(l), n, Port, Frame(Len(got) + 1, "link", n, body))
        /\ floods' = Append(got, Flood(n, "link", to, g.no))
    BY <1>6
  <2>5. FloodInv(Rest(l), got)
    BY <1>2, <1>6
  <2> HIDE DEF to, body, got, g
  <2> QED BY <1>1, <2>1, <2>2, <2>3, <2>4, <2>5, FloodSent
<1> QED BY <1>4, <1>5, <1>6 DEF ReceiveBcmp

\* What the application publishes, asks and sends.
LEMMA CallFloods ==
  ASSUME IInv, FloodInv(net, floods), NEW c, Publish(c) \/ ServiceRequest(c) \/ Send(c)
  PROVE  FloodInv(net', floods')
<1> DEFINE n == c.node
<1>1. n \in Node /\ Input(c)
  <2>1. \E name : Calls(name, c)
    BY DEF Publish, ServiceRequest, Send
  <2> QED BY <2>1, CallFacts
<1>2. CASE UNCHANGED <<net, floods>>
  BY <1>2
<1>3. ASSUME NEW body, body.kind = "pub",
             net' = Sent(net, n, Port, Frame(Len(floods) + 1, "global", n, body)),
             floods' = Append(floods, Flood(n, "global", Everyone, 0))
      PROVE  FloodInv(net', floods')
  BY <1>1, <1>3, FloodSent DEF Everyone
<1>4. ASSUME NEW topic, NEW data
      PROVE  [kind |-> "pub", topic |-> topic, data |-> data].kind = "pub"
  OBVIOUS
<1>5. CASE Publish(c)
  BY <1>2, <1>3, <1>4, <1>5 DEF Publish
<1>6. CASE ServiceRequest(c)
  BY <1>2, <1>3, <1>4, <1>6 DEF ServiceRequest
<1>7. CASE Send(c)
  <2>1. /\ net' = Sent(net, n, Port, Frame(Len(floods) + 1, c.scope, n, c.body))
        /\ floods' = Append(floods, Flood(n, c.scope, c.to, 0))
    BY <1>7 DEF Send
  <2>2. Sendable(c)
    BY <1>1, <1>7 DEF Send, Calls, Input
  <2>3. /\ c.scope \in {"global", "link"} /\ c.to \in Nat /\ (c.scope = "global" => c.to = Everyone)
        /\ \/ c.body.kind \in {"pub", "udp"} /\ c.to = Everyone
           \/ c.body.kind = "bcmp" /\ c.scope = "link" /\ c.body.to = c.to /\ c.body.from = n
    BY <2>2 DEF Sendable
  <2> QED BY <1>1, <2>1, <2>3, FloodSent
<1> QED BY <1>5, <1>6, <1>7

LEMMA NextFloods ==
  ASSUME IInv, FloodInv(net, floods), [Next]_vars
  PROVE  FloodInv(net', floods')
<1>1. CASE UNCHANGED <<net, floods>>
  BY <1>1
<1>2. CASE Call
  <2>1. PICK c \in mix.inputs :
          \/ Subscribe(c) \/ Unsubscribe(c) \/ Publish(c)
          \/ RegisterService(c) \/ UnregisterService(c) \/ ServiceRequest(c)
          \/ Send(c) \/ Restart(c)
    BY <1>2 DEF Call
  <2>2. CASE Publish(c) \/ ServiceRequest(c) \/ Send(c)
    BY <2>2, CallFloods
  <2>3. CASE Subscribe(c) \/ Unsubscribe(c) \/ RegisterService(c) \/ UnregisterService(c) \/ Restart(c)
    BY <1>1, <2>3 DEF Subscribe, Unsubscribe, RegisterService, UnregisterService, Restart
  <2> QED BY <2>1, <2>2, <2>3
<1>3. ASSUME NEW l \in DOMAIN Peer, Receive(l) \/ Lose(l)
      PROVE  FloodInv(net', floods')
  <2>1. CASE ReceivePublication(l)
    BY <2>1, PublicationFloods
  <2>2. CASE ReceiveBcmp(l)
    BY <2>2, MessageFloods
  <2>3. CASE ReceiveUdp(l)
    BY <2>3, DatagramArrives DEF ReceiveUdp, Takes, Rest
  <2>4. CASE Lose(l)
    BY <2>4, FrameLost DEF Lose, Rest
  <2> QED BY <1>3, <2>1, <2>2, <2>3, <2>4 DEF Receive
<1>4. CASE \E n \in Node : Sweep(n)
  BY <1>1, <1>4 DEF Sweep
<1>5. CASE Advance
  BY <1>1, <1>5 DEF Advance
<1>6. CASE UNCHANGED vars
  BY <1>1, <1>6 DEF vars
<1> QED BY <1>2, <1>3, <1>4, <1>5, <1>6 DEF Next

FloodsRight == FloodInv(net, floods)

LEMMA InitFloods == Init => FloodsRight
<1> USE DEF FloodsRight
<1> SUFFICES ASSUME Init
             PROVE  FloodInv(net, floods)
  OBVIOUS
<1>1. DOMAIN net = DOMAIN Peer /\ floods = <<>> /\ \A l \in DOMAIN net : net[l] = <<>>
  BY DEF Init
<1>2. IsList(<<>>) /\ DOMAIN <<>> = {}
  BY DEF IsList
<1>3. Linked(net) /\ FliesRight(net, floods)
  BY <1>1, <1>2 DEF Linked, FliesRight
<1> QED BY <1>1, <1>2, <1>3 DEF FloodInv

\* rx_apply, forward_link_local and the answers: on any tree of nodes, whatever
\* is sent, relayed, answered and lost, at once and in any order, no node
\* processes a thing twice, or one that is not meant for it or is its own; what
\* is no longer in flight, and was not lost, reached everyone it was meant for;
\* and an answer goes to the node that asked.
THEOREM DeliversOnce == Spec => []DeliveredOnce
<1>1. IInv /\ FloodsRight /\ [Next]_vars => FloodsRight'
  BY NextFloods DEF FloodsRight
<1>2. ASSUME FloodsRight
      PROVE  DeliveredOnce
  <2>1. ASSUME NEW k \in DOMAIN floods
        PROVE  LET f == floods[k]
               IN  /\ \A n \in Node : f.got[n] <= (IF n \in Meant(k) THEN 1 ELSE 0)
                   /\ ~InFlight(k) /\ ~f.lost => \A n \in Meant(k) : f.got[n] = 1
                   /\ f.re # 0 /\ f.to # Everyone => f.to = floods[f.re].from
    <3> DEFINE f == floods[k]
               F == Flying(net, k)
    <3>1. Flooded(f, F) /\ AnswersRight(floods, k) /\ f \in Floods
      BY <1>2, <2>1 DEF FloodsRight, FloodInv
    <3>2. Meant(k) = Audience(f)
      BY DEF Meant, Audience
    <3>3. ~InFlight(k) => F = {}
      BY DEF InFlight, Flying
    <3> HIDE DEF f, F
    <3>4. \A n \in Node : f.got[n] <= (IF n \in Meant(k) THEN 1 ELSE 0)
      BY <3>1, <3>2 DEF Flooded
    <3>5. Meant(k) \subseteq Node
      <4>1. \A l \in Out(f.from, Port) : l[1] \in Node
        BY OutFacts, BeyondFacts
      <4> QED BY <3>2, <4>1 DEF Audience
    <3>6. ~InFlight(k) /\ ~f.lost => \A n \in Meant(k) : f.got[n] = 1
      BY <3>1, <3>2, <3>3, <3>5 DEF Flooded
    <3>7. f.re # 0 /\ f.to # Everyone => f.to = floods[f.re].from
      BY <3>1 DEF AnswersRight, f
    <3> QED BY <3>4, <3>6, <3>7 DEF f
  <2> QED BY <2>1 DEF DeliveredOnce
<1> QED BY InitFloods, Invariant, <1>1, <1>2, PTL DEF Spec
=============================================================================
