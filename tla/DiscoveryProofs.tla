-------------------------- MODULE DiscoveryProofs --------------------------
(***************************************************************************)
(* Proofs about Discovery, for every value of its constants.               *)
(*                                                                         *)
(* The inductive invariant has four parts.  Typed gives every variable its *)
(* type, the history included.  Placed is what the table and the cache say *)
(* of each other.  LeaseInv gives each neighbour the time since it was     *)
(* heard, which the clock and the history both measure, and bounds it by   *)
(* the ticks.  AskedInv does the same for the one neighbour-table request. *)
(***************************************************************************)
EXTENDS Discovery, ListsProofs, FiniteSetTheorems

Asked ==
  [open : BOOLEAN, report : BOOLEAN, answered : BOOLEAN, since : Nat, reports : Nat,
   timeouts : Nat, early : BOOLEAN]
InfoEntry == [node_id : Id, name : STRING]
RequestEntry == [key : 0..KeyWrap - 1, kind : Kind]

Typed ==
  /\ TypeOK
  /\ mix \in Mixes /\ silence \in [Id -> 0..MaxSilence] /\ asked \in Asked

Placed == OnePerPort /\ CacheIsNeighbours

Lease(n) == n.heartbeat_period_s * 2 * MS
\* The leases LeaseIsKept is about.
Measured(n) ==
  /\ 2 * (Lease(n) + HEARTBEAT_PERIOD_MS + Late + 1) < ClockWrap
  /\ Lease(n) + HEARTBEAT_PERIOD_MS + Late < MaxSilence
\* n was heard e milliseconds ago: what the clock says, what the history says,
\* and what the ticks since then did about it.
HeardAgo(n, e) ==
  /\ now = (n.last_heartbeat_ms + e) % ClockWrap
  /\ silence[n.node_id] <= e
  /\ n.node_id # 0 => silence[n.node_id] = IF e <= MaxSilence THEN e ELSE MaxSilence
  /\ Measured(n) => IF n.online THEN e + tick_in <= Lease(n) + HEARTBEAT_PERIOD_MS
                    ELSE e >= Lease(n)
LeaseInv == \A i \in DOMAIN neighbors : \E e \in Nat : HeardAgo(neighbors[i], e)

Running == table_requests.started # Never
\* The timer runs for a request not answered nor timed out, and measures it;
\* a callback that is armed has not been called.
AskedInv ==
  /\ Running =>
       /\ asked.open /\ ~asked.answered /\ asked.timeouts = 0
       /\ asked.since <= NEIGHBOR_REQUEST_TIMEOUT_MS + Late
       /\ now = (table_requests.started + asked.since) % ClockWrap
  /\ ~Running /\ asked.open => asked.answered \/ asked.timeouts = 1
  /\ asked.timeouts <= 1 /\ ~asked.early
  /\ table_requests.armed => asked.report /\ asked.reports = 0
  /\ asked.reports <= IF asked.report THEN 1 ELSE 0

Inv == Typed /\ Placed /\ LeaseInv /\ AskedInv

------------------------------------------------------------------------------
(* Types. *)

\* What TypeOK says, for use in leaves.
LEMMA TypeFacts ==
  ASSUME Typed
  PROVE  /\ neighbors \in Seq(Neighbor) /\ Len(neighbors) \in Nat /\ Len(neighbors) <= NEIGHBORS
         /\ DOMAIN neighbors = 1..Len(neighbors)
         /\ \A i \in DOMAIN neighbors : neighbors[i] \in Neighbor
         /\ info \in Seq(InfoEntry) /\ Len(info) \in Nat /\ Len(info) <= NEIGHBORS
         /\ DOMAIN info = 1..Len(info)
         /\ \A i \in DOMAIN info : info[i] \in InfoEntry /\ info[i].node_id \in Id
         /\ info_requests \in Seq(RequestEntry) /\ Len(info_requests) <= INFO_REQUESTS
         /\ resource_requests \in Seq(RequestEntry) /\ Len(resource_requests) <= RESOURCE_REQUESTS
         /\ now \in Clock /\ tick_in \in Int
<1>1. /\ neighbors \in Seq(Neighbor) /\ Len(neighbors) <= NEIGHBORS
      /\ info \in Seq(InfoEntry) /\ Len(info) <= NEIGHBORS
      /\ info_requests \in Seq(RequestEntry) /\ Len(info_requests) <= INFO_REQUESTS
      /\ resource_requests \in Seq(RequestEntry) /\ Len(resource_requests) <= RESOURCE_REQUESTS
  BY DEF Typed, TypeOK, NeighborTable, InfoCache, InfoRequests, ResourceRequests, UpTo,
         InfoEntry, RequestEntry
<1>2. now \in Clock /\ tick_in \in Int
  BY DiscoveryAssumption DEF Typed, TypeOK
<1>3. \A n \in InfoEntry : n.node_id \in Id
  BY DEF InfoEntry
<1> QED BY <1>1, <1>2, <1>3

\* The fields of a neighbour.
LEMMA NeighborFields ==
  ASSUME NEW n \in Neighbor
  PROVE  /\ n.node_id \in Id /\ n.node_id \in Nat /\ n.port \in Port /\ n.last_heartbeat_ms \in Clock
         /\ n.heartbeat_period_s \in Nat /\ n.online \in BOOLEAN /\ Lease(n) \in Nat
         /\ n.last_time_since_boot_us \in Nat
<1>0. Id \subseteq Nat /\ Periods \subseteq Nat /\ Boots \subseteq Nat /\ MS \in Nat
  BY DiscoveryAssumption
<1>f. /\ n.heartbeat_period_s \in Periods \cup {0} /\ n.node_id \in Id
      /\ n.last_time_since_boot_us \in Boots \cup {0}
  BY DEF Neighbor
<1>g. Periods \cup {0} \subseteq Nat /\ Boots \cup {0} \subseteq Nat
  BY <1>0
<1>1. n.heartbeat_period_s \in Nat /\ n.node_id \in Nat /\ n.last_time_since_boot_us \in Nat
  BY <1>0, <1>f, <1>g, Zenon
<1> DEFINE x == n.heartbeat_period_s * 2
<1>2. x \in Nat
  BY <1>1
<1> HIDE DEF x
<1>3. x * MS \in Nat
  BY <1>0, <1>2
<1>4. Lease(n) \in Nat
  BY <1>3 DEF Lease, x
<1> QED BY <1>1, <1>4 DEF Neighbor

\* A list key is one of its range.
LEMMA KeyType ==
  ASSUME NEW id \in Nat
  PROVE  Key(id) \in 0..KeyWrap - 1
<1>1. KeyWrap \in Nat \ {0}
  BY DiscoveryAssumption
<1>2. id \in Int
  OBVIOUS
<1> QED BY <1>1, <1>2, DivMod DEF Key

\* What reaches a handler or a call is well formed.
LEMMA InputFacts ==
  ASSUME Typed, NEW m \in mix.inputs
  PROVE  WellFormed(m) /\ mix.max \in Nat
BY DiscoveryAssumption DEF Typed

\* record of the two request lists.
LEMMA RecordedType ==
  ASSUME NEW q \in Seq(RequestEntry), NEW n \in Nat, Len(q) <= n, NEW id \in Nat, NEW k \in Kind
  PROVE  Recorded(q, n, id, k) \in Seq(RequestEntry) /\ Len(Recorded(q, n, id, k)) <= n
<1> DEFINE e == [key |-> Key(id), kind |-> k]
<1>1. e \in RequestEntry
  BY KeyType DEF RequestEntry
<1> HIDE DEF e
<1>2. AppendUpTo(q, n, e) \in Seq(RequestEntry) /\ Len(AppendUpTo(q, n, e)) <= n
  BY <1>1, AppendFacts DEF Appended
<1> QED BY <1>2 DEF Recorded, e

\* request_device_info leaves a list of requests.
LEMMA RequestType ==
  ASSUME Typed, NEW id \in Nat, NEW k \in Kind, RequestDeviceInfo(id, k)
  PROVE  info_requests' \in InfoRequests
<1> DEFINE r == Recorded(info_requests, INFO_REQUESTS, id, k)
<1>1. r \in Seq(RequestEntry) /\ Len(r) <= INFO_REQUESTS /\ Len(r) \in Nat
  BY TypeFacts, RecordedType, DiscoveryAssumption
<1>2. info_requests' = r \/ info_requests' = WithoutFirst(r, AskedFor(r, id))
  BY DEF RequestDeviceInfo
<1> HIDE DEF r
<1>3. AskedFor(r, id) \in SUBSET DOMAIN r
  BY DEF AskedFor
<1>4. /\ WithoutFirst(r, AskedFor(r, id)) \in Seq(RequestEntry)
      /\ Len(WithoutFirst(r, AskedFor(r, id))) \in Nat
      /\ Len(WithoutFirst(r, AskedFor(r, id))) <= Len(r)
  BY <1>1, <1>3, WithoutFirstFacts
<1>5. Len(WithoutFirst(r, AskedFor(r, id))) <= INFO_REQUESTS
  BY <1>1, <1>4, DiscoveryAssumption
<1> QED BY <1>1, <1>2, <1>4, <1>5 DEF InfoRequests, UpTo, RequestEntry

------------------------------------------------------------------------------
(* on_heartbeat. *)

\* OnePerPort of a list.
PortsDiffer(q) ==
  \A i, j \in DOMAIN q :
    i # j => q[i].port # q[j].port /\ (q[i].node_id = q[j].node_id => q[i].node_id = 0)

\* A neighbour heard is a neighbour.
LEMMA HeardType ==
  ASSUME Typed, NEW m, m.source \in Id, m.boot \in Boots, m.lease \in Periods, NEW p \in Port
  PROVE  /\ Heard(m, p) \in Neighbor /\ Heard(m, p).node_id = m.source /\ Heard(m, p).port = p
         /\ Heard(m, p).last_heartbeat_ms = now /\ Heard(m, p).online = TRUE
BY TypeFacts DEF Heard, Neighbor

\* The table with room made for a node not in it: nobody on its port, and
\* everyone else still there.
Room(q, m) ==
  /\ q \in Seq(Neighbor) /\ Len(q) \in Nat /\ Len(q) <= NEIGHBORS
  /\ PortsDiffer(q)
  /\ \A a \in DOMAIN q : /\ q[a].port # m.port
                         /\ \E b \in DOMAIN neighbors : q[a] = neighbors[b]
  /\ \A b \in DOMAIN neighbors :
       neighbors[b].port # m.port => \E a \in DOMAIN q : q[a] = neighbors[b]
  /\ Len(q) = NEIGHBORS => OnPort(m.port) = {}

LEMMA ClearedFacts ==
  ASSUME Typed, Placed, NEW m, ~Known(m.source)
  PROVE  Room(Cleared(m), m)
<1> DEFINE q == Cleared(m)
           I == OnPort(m.port)
<1>0. q = WithoutFirst(neighbors, I)
  BY DEF Cleared
<1>t. /\ neighbors \in Seq(Neighbor) /\ Len(neighbors) \in Nat /\ Len(neighbors) <= NEIGHBORS
      /\ DOMAIN neighbors = 1..Len(neighbors) /\ NEIGHBORS \in Nat
  BY TypeFacts, DiscoveryAssumption
<1>p. PortsDiffer(neighbors)
  BY DEF Placed, OnePerPort, PortsDiffer
<1>i. I \in SUBSET DOMAIN neighbors /\ \A b \in DOMAIN neighbors : b \in I <=> neighbors[b].port = m.port
  BY DEF OnPort
<1> HIDE DEF q, I
<1>1. CASE I = {}
  <2>1. q = neighbors
    BY <1>0, <1>1 DEF WithoutFirst
  <2> QED BY <1>1, <1>t, <1>p, <1>i, <2>1 DEF Room, q, I
<1>2. CASE I # {}
  <2> DEFINE k == First(I)
  <2>1. k \in I /\ Shortened(q, neighbors, k, Neighbor)
    BY <1>0, <1>2, <1>t, <1>i, WithoutFirstFacts
  <2> HIDE DEF k
  <2>2. /\ q \in Seq(Neighbor) /\ Len(q) = Len(neighbors) - 1 /\ DOMAIN q = 1..Len(neighbors) - 1
        /\ \A j \in DOMAIN q : /\ Before(k, j) \in DOMAIN neighbors /\ Before(k, j) # k
                               /\ q[j] = neighbors[Before(k, j)]
        /\ \A b \in DOMAIN neighbors : b # k => \E j \in DOMAIN q : Before(k, j) = b
    BY <2>1 DEF Shortened
  <2>3. k \in DOMAIN neighbors /\ neighbors[k].port = m.port /\ k \in Nat
    BY <1>t, <1>i, <2>1
  <2>4. \A i, j \in DOMAIN q : i # j => Before(k, i) # Before(k, j)
    BY <1>t, <2>2, <2>3 DEF Before
  <2>5. PortsDiffer(q)
    <3> SUFFICES ASSUME NEW i \in DOMAIN q, NEW j \in DOMAIN q, i # j
                 PROVE  /\ q[i].port # q[j].port
                        /\ q[i].node_id = q[j].node_id => q[i].node_id = 0
      BY DEF PortsDiffer
    <3> QED BY <1>p, <2>2, <2>4 DEF PortsDiffer
  <2>6. \A a \in DOMAIN q : q[a].port # m.port /\ \E b \in DOMAIN neighbors : q[a] = neighbors[b]
    BY <1>p, <2>2, <2>3 DEF PortsDiffer
  <2>7. \A b \in DOMAIN neighbors :
          neighbors[b].port # m.port => \E a \in DOMAIN q : q[a] = neighbors[b]
    BY <2>2, <2>3
  <2>8. Len(q) \in Nat /\ Len(q) < NEIGHBORS
    BY <1>t, <2>2
  <2> QED BY <2>2, <2>5, <2>6, <2>7, <2>8, <1>t DEF Room, q
<1> QED BY <1>1, <1>2

\* What on_heartbeat makes of the table: the node heard is in it once, with the
\* clock's time, and of the others only the one evicted is gone.
Updated(m) ==
  /\ neighbors' \in NeighborTable
  /\ PortsDiffer(neighbors')
  /\ \A a \in DOMAIN neighbors' :
       \/ \E b \in DOMAIN neighbors :
            /\ neighbors'[a] = neighbors[b]
            /\ neighbors[b].node_id = m.source /\ m.source # 0 => TableFull(m)
       \/ ~TableFull(m) /\ \E p \in Port : neighbors'[a] = Heard(m, p)
  /\ \A b \in DOMAIN neighbors :
       neighbors[b].node_id \notin Evicted(m) =>
         \E a \in DOMAIN neighbors' : neighbors'[a].node_id = neighbors[b].node_id

LEMMA KnownUpdated ==
  ASSUME Typed, Placed, NEW m, m.source \in Id, m.boot \in Boots, m.lease \in Periods,
         Known(m.source), neighbors' = OnHeartbeat(m)
  PROVE  Updated(m)
<1> DEFINE i == First(At(m.source))
           h == Heard(m, neighbors[i].port)
<1>t. /\ neighbors \in Seq(Neighbor) /\ Len(neighbors) \in Nat /\ Len(neighbors) <= NEIGHBORS
      /\ DOMAIN neighbors = 1..Len(neighbors)
      /\ \A j \in DOMAIN neighbors : neighbors[j] \in Neighbor
  BY TypeFacts
<1>p. PortsDiffer(neighbors)
  BY DEF Placed, OnePerPort, PortsDiffer
<1>0. m.source # 0 /\ At(m.source) # {} /\ At(m.source) \in SUBSET Nat
  BY <1>t DEF Known, At
<1>1. i \in At(m.source)
  BY <1>0, FirstFacts
<1>2. neighbors' = [neighbors EXCEPT ![i] = h]
  BY DEF OnHeartbeat
<1>3. i \in DOMAIN neighbors /\ neighbors[i].node_id = m.source
  BY <1>0, <1>1 DEF At
<1>4. neighbors[i].port \in Port
  BY <1>t, <1>3, NeighborFields
<1>5. h \in Neighbor /\ h.node_id = m.source /\ h.port = neighbors[i].port
  BY <1>4, HeardType
<1>6. ~TableFull(m)
  BY DEF TableFull
<1>h. \E p \in Port : h = Heard(m, p)
  BY <1>4
<1> HIDE DEF i, h
<1>7. /\ neighbors' \in Seq(Neighbor) /\ Len(neighbors') = Len(neighbors)
      /\ DOMAIN neighbors' = DOMAIN neighbors /\ neighbors'[i] = h
      /\ \A j \in DOMAIN neighbors : j # i => neighbors'[j] = neighbors[j]
  BY <1>t, <1>2, <1>3, <1>5
<1>8. neighbors' \in NeighborTable
  BY <1>t, <1>7 DEF NeighborTable, UpTo
<1>9. PortsDiffer(neighbors')
  BY <1>p, <1>3, <1>5, <1>7 DEF PortsDiffer
<1>10. ASSUME NEW a \in DOMAIN neighbors'
       PROVE  \/ \E b \in DOMAIN neighbors :
                   /\ neighbors'[a] = neighbors[b]
                   /\ neighbors[b].node_id = m.source /\ m.source # 0 => TableFull(m)
              \/ ~TableFull(m) /\ \E p \in Port : neighbors'[a] = Heard(m, p)
  <2>1. CASE a = i
    BY <1>6, <1>7, <1>h, <2>1
  <2>2. CASE a # i
    <3>1. neighbors[a].node_id # m.source
      BY <1>0, <1>p, <1>3, <1>7, <2>2 DEF PortsDiffer
    <3> QED BY <1>7, <2>2, <3>1
  <2> QED BY <2>1, <2>2
<1>11. \A b \in DOMAIN neighbors : neighbors'[b].node_id = neighbors[b].node_id
  BY <1>3, <1>5, <1>7
<1> QED BY <1>7, <1>8, <1>9, <1>10, <1>11 DEF Updated

LEMMA NewUpdated ==
  ASSUME Typed, Placed, NEW m, m.source \in Id, m.boot \in Boots, m.lease \in Periods,
         m.port \in Port, ~Known(m.source), neighbors' = OnHeartbeat(m)
  PROVE  Updated(m)
<1> DEFINE q == Cleared(m)
           h == Heard(m, m.port)
<1>1. Room(q, m)
  BY ClearedFacts
<1>2. h \in Neighbor /\ h.node_id = m.source /\ h.port = m.port
  BY HeardType
<1>3. neighbors' = AppendUpTo(q, NEIGHBORS, h)
  BY DEF OnHeartbeat
<1>4. TableFull(m) <=> Len(q) = NEIGHBORS
  BY DEF TableFull
<1>n. NEIGHBORS \in Nat
  BY DiscoveryAssumption
<1>k. \A b \in DOMAIN neighbors : m.source # 0 => neighbors[b].node_id # m.source
  BY DEF Known, At
<1>h. \E p \in Port : h = Heard(m, p)
  OBVIOUS
<1> HIDE DEF q, h
<1>5. /\ q \in Seq(Neighbor) /\ Len(q) \in Nat /\ Len(q) <= NEIGHBORS /\ DOMAIN q = 1..Len(q)
      /\ PortsDiffer(q)
      /\ \A a \in DOMAIN q : /\ q[a].port # m.port
                             /\ \E b \in DOMAIN neighbors : q[a] = neighbors[b]
      /\ \A b \in DOMAIN neighbors :
           neighbors[b].port # m.port => \E a \in DOMAIN q : q[a] = neighbors[b]
  BY <1>1 DEF Room
<1>6. /\ neighbors' \in Seq(Neighbor) /\ Len(neighbors') <= NEIGHBORS
      /\ \A i \in DOMAIN q : i \in DOMAIN neighbors' /\ neighbors'[i] = q[i]
      /\ \A i \in DOMAIN neighbors' : i \in DOMAIN q \/ (i = Len(q) + 1 /\ neighbors'[i] = h)
  <2>1. Appended(neighbors', q, NEIGHBORS, h, Neighbor)
    BY <1>2, <1>3, <1>5, <1>n, AppendFacts
  <2> QED BY <2>1 DEF Appended
<1>7. Len(q) = NEIGHBORS => neighbors' = q
  BY <1>3 DEF AppendUpTo
<1>8. neighbors' \in NeighborTable
  BY <1>6 DEF NeighborTable, UpTo
<1>9. PortsDiffer(neighbors')
  <2> SUFFICES ASSUME NEW i \in DOMAIN neighbors', NEW j \in DOMAIN neighbors', i # j
               PROVE  /\ neighbors'[i].port # neighbors'[j].port
                      /\ neighbors'[i].node_id = neighbors'[j].node_id => neighbors'[i].node_id = 0
    BY DEF PortsDiffer
  <2>0. \A a \in DOMAIN q : q[a].node_id = m.source => m.source = 0
    BY <1>5, <1>k
  <2>1. CASE i \in DOMAIN q /\ j \in DOMAIN q
    BY <1>5, <1>6, <2>1 DEF PortsDiffer
  <2>2. CASE i \in DOMAIN q /\ j \notin DOMAIN q
    BY <1>2, <1>5, <1>6, <2>0, <2>2
  <2>3. CASE i \notin DOMAIN q /\ j \in DOMAIN q
    BY <1>2, <1>5, <1>6, <2>0, <2>3
  <2>4. CASE i \notin DOMAIN q /\ j \notin DOMAIN q
    BY <1>6, <2>4
  <2> QED BY <2>1, <2>2, <2>3, <2>4
<1>10. ASSUME NEW a \in DOMAIN neighbors'
       PROVE  \/ \E b \in DOMAIN neighbors :
                   /\ neighbors'[a] = neighbors[b]
                   /\ neighbors[b].node_id = m.source /\ m.source # 0 => TableFull(m)
              \/ ~TableFull(m) /\ \E p \in Port : neighbors'[a] = Heard(m, p)
  <2>1. CASE a \in DOMAIN q
    BY <1>5, <1>6, <1>k, <2>1
  <2>2. CASE a \notin DOMAIN q
    BY <1>4, <1>6, <1>7, <1>h, <2>2
  <2> QED BY <2>1, <2>2
<1>11. ASSUME NEW b \in DOMAIN neighbors, neighbors[b].node_id \notin Evicted(m)
       PROVE  \E a \in DOMAIN neighbors' : neighbors'[a].node_id = neighbors[b].node_id
  <2>1. neighbors[b].port # m.port
    <3> SUFFICES ASSUME neighbors[b].port = m.port PROVE FALSE
      OBVIOUS
    <3>1. b \in OnPort(m.port) /\ OnPort(m.port) \in SUBSET Nat
      BY TypeFacts DEF OnPort
    <3>2. First(OnPort(m.port)) \in OnPort(m.port)
      BY <3>1, FirstFacts
    <3>3. First(OnPort(m.port)) = b
      BY <3>1, <3>2 DEF OnPort, Placed, OnePerPort
    <3>4. Evicted(m) = {neighbors[b].node_id}
      BY <3>1, <3>3 DEF Evicted
    <3> QED BY <1>11, <3>4
  <2>2. PICK a \in DOMAIN q : q[a] = neighbors[b]
    BY <1>5, <2>1
  <2> QED BY <1>6, <2>2
<1> QED BY <1>8, <1>9, <1>10, <1>11 DEF Updated

LEMMA HeartbeatUpdates ==
  ASSUME Typed, Placed, NEW m \in mix.inputs, Heartbeat(m)
  PROVE  Updated(m) /\ m.source \in Id
<1>1. m.type = "HEARTBEAT" /\ neighbors' = OnHeartbeat(m)
  BY DEF Heartbeat, Arrives
<1>2. m.source \in Id /\ m.port \in Port /\ m.boot \in Boots /\ m.lease \in Periods
  BY <1>1, InputFacts DEF WellFormed
<1> QED BY <1>1, <1>2, KnownUpdated, NewUpdated

\* Forgetting what was cached of the ids evicted leaves the rest of the cache.
LEMMA ForgetFacts ==
  ASSUME Typed, Placed, NEW m
  PROVE  /\ Forget(Evicted(m)) \in InfoCache
         /\ \A a \in DOMAIN Forget(Evicted(m)) :
              \E b \in DOMAIN info : /\ Forget(Evicted(m))[a] = info[b]
                                     /\ info[b].node_id \notin Evicted(m)
         /\ \A a, c \in DOMAIN Forget(Evicted(m)) :
              Forget(Evicted(m))[a].node_id = Forget(Evicted(m))[c].node_id => a = c
<1> DEFINE ids == Evicted(m)
           I == UNION {Cached(id) : id \in ids}
           w == Forget(ids)
<1>t. info \in Seq(InfoEntry) /\ Len(info) \in Nat /\ Len(info) <= NEIGHBORS
      /\ DOMAIN info = 1..Len(info)
  BY TypeFacts
<1>u. \A i, j \in DOMAIN info : info[i].node_id = info[j].node_id => i = j
  BY DEF Placed, CacheIsNeighbours
<1>1. \A i \in DOMAIN info : i \in I <=> info[i].node_id \in ids
  BY DEF Cached
<1>2. I \in SUBSET DOMAIN info
  BY DEF Cached
<1>3. \A x, y \in ids : x = y
  BY DEF Evicted
<1>4. w = WithoutFirst(info, I)
  BY DEF Forget
<1> HIDE DEF I, w, ids
<1>5. CASE I = {}
  <2>1. w = info
    BY <1>4, <1>5 DEF WithoutFirst
  <2>2. w \in InfoCache
    BY <1>t, <2>1 DEF InfoCache, UpTo, InfoEntry
  <2> QED BY <1>1, <1>5, <1>u, <2>1, <2>2 DEF w, ids
<1>6. CASE I # {}
  <2> DEFINE k == First(I)
  <2>1. k \in I /\ Shortened(w, info, k, InfoEntry)
    BY <1>t, <1>2, <1>4, <1>6, WithoutFirstFacts
  <2> HIDE DEF k
  <2>2. /\ w \in Seq(InfoEntry) /\ Len(w) = Len(info) - 1 /\ DOMAIN w = 1..Len(info) - 1
        /\ \A j \in DOMAIN w : /\ Before(k, j) \in DOMAIN info /\ Before(k, j) # k
                               /\ w[j] = info[Before(k, j)]
    BY <2>1 DEF Shortened
  <2>3. k \in DOMAIN info /\ info[k].node_id \in ids /\ k \in Nat
    BY <1>t, <1>1, <1>2, <2>1
  <2>4. Len(w) <= NEIGHBORS
    BY <1>t, <2>2, DiscoveryAssumption
  <2>5. w \in InfoCache
    BY <2>2, <2>4 DEF InfoCache, UpTo, InfoEntry
  <2>6. \A a \in DOMAIN w : \E b \in DOMAIN info : w[a] = info[b] /\ info[b].node_id \notin ids
    BY <1>3, <1>u, <2>2, <2>3
  <2>7. \A a, c \in DOMAIN w : Before(k, a) = Before(k, c) => a = c
    BY <1>t, <2>2, <2>3 DEF Before
  <2>8. \A a, c \in DOMAIN w : w[a].node_id = w[c].node_id => a = c
    BY <1>u, <2>2, <2>7
  <2> QED BY <2>5, <2>6, <2>8 DEF w, ids
<1> QED BY <1>5, <1>6

\* A neighbour that has an id is known by it.
LEMMA KnownFacts ==
  ASSUME NEW id
  PROVE  Known(id) <=> id # 0 /\ \E i \in DOMAIN neighbors : neighbors[i].node_id = id
BY DEF Known, At

LEMMA HeartbeatPlaced ==
  ASSUME Typed, Placed, NEW m \in mix.inputs, Heartbeat(m)
  PROVE  Placed' /\ neighbors' \in NeighborTable /\ info' \in InfoCache
<1>1. Updated(m)
  BY HeartbeatUpdates
<1>2. info' = Forget(Evicted(m))
  BY DEF Heartbeat
<1>3. OnePerPort'
  BY <1>1 DEF Updated, PortsDiffer, OnePerPort
<1>4. ASSUME NEW a \in DOMAIN info'
      PROVE  /\ info'[a].node_id # 0
             /\ \E c \in DOMAIN neighbors' : neighbors'[c].node_id = info'[a].node_id
  <2>1. PICK b \in DOMAIN info : info'[a] = info[b] /\ info[b].node_id \notin Evicted(m)
    BY <1>2, <1>4, ForgetFacts
  <2>2. Known(info[b].node_id)
    BY DEF Placed, CacheIsNeighbours
  <2>3. PICK i \in DOMAIN neighbors : neighbors[i].node_id = info[b].node_id
    BY <2>2, KnownFacts
  <2>4. info[b].node_id # 0
    BY <2>2, KnownFacts
  <2>5. \E c \in DOMAIN neighbors' : neighbors'[c].node_id = info[b].node_id
    BY <1>1, <2>1, <2>3 DEF Updated
  <2> QED BY <2>1, <2>4, <2>5
<1>5. \A a, c \in DOMAIN info' : info'[a].node_id = info'[c].node_id => a = c
  BY <1>2, ForgetFacts
<1>6. CacheIsNeighbours'
  BY <1>4, <1>5 DEF CacheIsNeighbours, Known, At
<1>7. neighbors' \in NeighborTable
  BY <1>1 DEF Updated
<1>8. info' \in InfoCache
  BY <1>2, ForgetFacts
<1> QED BY <1>3, <1>6, <1>7, <1>8 DEF Placed

\* A node heard now was heard no time ago; the others as before.
LEMMA HeartbeatLease ==
  ASSUME Typed, Placed, LeaseInv, NEW m \in mix.inputs, Heartbeat(m)
  PROVE  LeaseInv'
<1>1. Updated(m) /\ m.source \in Id
  BY HeartbeatUpdates
<1>2. silence' = IF TableFull(m) THEN silence ELSE [silence EXCEPT ![m.source] = 0]
  BY DEF Heartbeat
<1>3. now' = now /\ tick_in' = tick_in
  BY DEF Heartbeat, time
<1>4. silence \in [Id -> 0..MaxSilence] /\ MaxSilence \in Nat
  BY DiscoveryAssumption DEF Typed
<1>5. now \in Clock /\ tick_in \in Int /\ tick_in <= HEARTBEAT_PERIOD_MS
      /\ HEARTBEAT_PERIOD_MS \in Nat
  BY TypeFacts, DiscoveryAssumption DEF Typed, TypeOK
<1> SUFFICES ASSUME NEW a \in DOMAIN neighbors'
             PROVE  \E e \in Nat : HeardAgo(neighbors[a], e)'
  BY DEF LeaseInv
<1>6. CASE \E b \in DOMAIN neighbors :
             /\ neighbors'[a] = neighbors[b]
             /\ neighbors[b].node_id = m.source /\ m.source # 0 => TableFull(m)
  <2>1. PICK b \in DOMAIN neighbors :
             /\ neighbors'[a] = neighbors[b]
             /\ neighbors[b].node_id = m.source /\ m.source # 0 => TableFull(m)
    BY <1>6
  <2>2. PICK e \in Nat : HeardAgo(neighbors[b], e)
    BY DEF LeaseInv
  <2>3. neighbors[b].node_id \in Id
    BY TypeFacts, NeighborFields
  <2>4. \/ silence'[neighbors[b].node_id] = silence[neighbors[b].node_id]
        \/ neighbors[b].node_id = 0 /\ silence'[neighbors[b].node_id] = 0
    BY <1>1, <1>2, <1>4, <2>1, <2>3
  <2>5. HeardAgo(neighbors[a], e)'
    BY <1>3, <2>1, <2>2, <2>4 DEF HeardAgo, Measured, Lease
  <2> QED BY <2>5
<1>7. CASE ~TableFull(m) /\ \E p \in Port : neighbors'[a] = Heard(m, p)
  <2>1. PICK p \in Port : neighbors'[a] = Heard(m, p)
    BY <1>7
  <2> DEFINE n == neighbors'[a]
  <2>2. m.type = "HEARTBEAT"
    BY DEF Heartbeat, Arrives
  <2>3. m.boot \in Boots /\ m.lease \in Periods
    BY <2>2, InputFacts DEF WellFormed
  <2>h. /\ Heard(m, p) \in Neighbor /\ Heard(m, p).node_id = m.source
        /\ Heard(m, p).last_heartbeat_ms = now /\ Heard(m, p).online = TRUE
    BY <1>1, <2>3, HeardType
  <2>4. n \in Neighbor /\ n.node_id = m.source /\ n.last_heartbeat_ms = now /\ n.online = TRUE
    BY <2>1, <2>h
  <2>5. Lease(n) \in Nat
    BY <2>4, NeighborFields
  <2>6. silence'[n.node_id] = 0
    BY <1>1, <1>2, <1>4, <1>7, <2>4
  <2>7. now = (now + 0) % ClockWrap
    BY <1>5, ClockSteps
  <2>8. now' = (n.last_heartbeat_ms + 0) % ClockWrap
    BY <1>3, <2>4, <2>7
  <2>9. 0 + tick_in' <= Lease(n) + HEARTBEAT_PERIOD_MS
    BY <1>3, <1>5, <2>5
  <2>10. HeardAgo(neighbors[a], 0)'
    BY <1>4, <2>4, <2>6, <2>8, <2>9 DEF HeardAgo, Measured, Lease
  <2> QED BY <2>10
<1> QED BY <1>1, <1>6, <1>7 DEF Updated

------------------------------------------------------------------------------
(* Steps that leave a part of the state alone. *)

LEMMA PlacedSame ==
  ASSUME Placed, UNCHANGED tables
  PROVE  Placed'
BY DEF Placed, OnePerPort, CacheIsNeighbours, Known, At, tables

LEMMA LeaseSame ==
  ASSUME LeaseInv, UNCHANGED <<neighbors, time, silence>>
  PROVE  LeaseInv'
BY DEF LeaseInv, HeardAgo, Measured, Lease, time

LEMMA AskedSame ==
  ASSUME AskedInv, UNCHANGED <<time, table_requests, asked>>
  PROVE  AskedInv'
BY DEF AskedInv, Running, time

\* One more input.
LEMMA InputCounted ==
  ASSUME Typed, inputs < mix.max, inputs' = inputs + 1
  PROVE  inputs' \in 0..mix.max
BY DiscoveryAssumption DEF Typed, TypeOK

LEMMA HeartbeatStep ==
  ASSUME Inv, NEW m \in mix.inputs, Heartbeat(m)
  PROVE  Inv'
<1> USE DEF Inv
<1>1. Placed' /\ neighbors' \in NeighborTable /\ info' \in InfoCache
  BY HeartbeatPlaced
<1>2. LeaseInv'
  BY HeartbeatLease
<1>3. AskedInv'
  BY AskedSame DEF Heartbeat
<1>4. m.source \in Id /\ m.source \in Nat /\ 0 \in Nat
  BY HeartbeatUpdates, DiscoveryAssumption
<1>5. info_requests' \in InfoRequests
  <2>1. CASE UNCHANGED info_requests
    BY <2>1 DEF Typed, TypeOK
  <2>2. CASE \E t \in Nat : RequestDeviceInfo(t, "Cache")
    BY <2>2, RequestType DEF Kind
  <2> QED BY <1>4, <2>1, <2>2 DEF Heartbeat
<1>6. silence' \in [Id -> 0..MaxSilence]
  BY <1>4, DiscoveryAssumption DEF Heartbeat, Typed
<1>7. inputs' \in 0..mix.max
  BY InputCounted DEF Heartbeat, Arrives
<1>8. Typed'
  BY <1>1, <1>5, <1>6, <1>7
     DEF Typed, TypeOK, Heartbeat, others, time, RtcTime
<1> QED BY <1>1, <1>2, <1>3, <1>8

------------------------------------------------------------------------------
(* The other arrivals and the calls. *)

\* What a step may do that leaves the tables, the timers and the history alone.
Aside ==
  /\ UNCHANGED <<tables, table_requests, time, mix, silence, asked>>
  /\ inputs < mix.max /\ inputs' = inputs + 1
  /\ info_requests' \in InfoRequests
  /\ resources' \in ResourceTable /\ resource_requests' \in ResourceRequests
  /\ ping' \in PingState /\ RtcTime(rtc')
  /\ registered' \subseteq MessageType /\ link_mask' \subseteq Port

LEMMA AsideStep ==
  ASSUME Inv, Aside
  PROVE  Inv'
<1>1. Placed'
  BY PlacedSame DEF Inv, Aside
<1>2. LeaseInv'
  BY LeaseSame DEF Inv, Aside, tables
<1>3. AskedInv'
  BY AskedSame DEF Inv, Aside
<1>4. inputs' \in 0..mix.max
  BY InputCounted DEF Inv, Aside
<1>5. Typed'
  BY <1>4 DEF Inv, Aside, Typed, TypeOK, tables, time, RtcTime
<1> QED BY <1>1, <1>2, <1>3, <1>5 DEF Inv

\* What the types say of the variables Aside lets change.
LEMMA AsideFacts ==
  ASSUME Typed
  PROVE  /\ info_requests \in InfoRequests
         /\ resources \in ResourceTable /\ resource_requests \in ResourceRequests
         /\ ping \in PingState /\ RtcTime(rtc)
         /\ registered \subseteq MessageType /\ link_mask \subseteq Port
BY DEF Typed, TypeOK

LEMMA QuietStep ==
  ASSUME Inv, inputs < mix.max, inputs' = inputs + 1,
         UNCHANGED <<tables, requests, others, time, mix, silence, asked>>
  PROVE  Inv'
BY AsideFacts, AsideStep DEF Inv, Aside, requests, others, RtcTime

\* The RTC is set to a whole unit.
LEMMA UnitFacts ==
  ASSUME NEW t \in Nat
  PROVE  RtcTime(t - (t % TimeUnit))
<1>1. TimeUnit \in Nat \ {0}
  BY DiscoveryAssumption
<1> DEFINE q == t \div TimeUnit
<1>2. q \in Int /\ t % TimeUnit \in Int /\ t = TimeUnit * q + (t % TimeUnit)
  BY <1>1, DivMod
<1> HIDE DEF q
<1>3. t - (t % TimeUnit) = TimeUnit * q + 0
  BY <1>1, <1>2
<1>4. (TimeUnit * q + 0) % TimeUnit = 0
  BY <1>1, <1>2, ModUnique
<1> QED BY <1>3, <1>4 DEF RtcTime

LEMMA SystemTimeStep ==
  ASSUME Inv, NEW m \in mix.inputs, SystemTime(m)
  PROVE  Inv'
<1>1. RtcTime(rtc) /\ Typed
  BY DEF Inv, Typed, TypeOK
<1>2. RtcTime(rtc')
  <2>1. CASE m.type = "SYSTEM_TIME_SET" /\ m.utc # Unknown /\ rtc' = m.utc - (m.utc % TimeUnit)
    <3>1. m.utc \in Nat
      BY <1>1, <2>1, InputFacts DEF WellFormed
    <3> QED BY <2>1, <3>1, UnitFacts
  <2>2. CASE rtc' = rtc
    BY <1>1, <2>2
  <2> QED BY <2>1, <2>2 DEF SystemTime
<1>3. inputs < mix.max /\ inputs' = inputs + 1
  BY DEF SystemTime, Arrives
<1>4. Aside
  BY <1>1, <1>2, <1>3, AsideFacts DEF SystemTime, Aside, requests
<1> QED BY <1>4, AsideStep

\* accept of a list of requests leaves a list of requests.
LEMMA TakenType ==
  ASSUME NEW q \in Seq(RequestEntry), NEW n \in Nat, Len(q) <= n, NEW I \in SUBSET DOMAIN q
  PROVE  WithoutFirst(q, I) \in Seq(RequestEntry) /\ Len(WithoutFirst(q, I)) <= n
<1>1. /\ WithoutFirst(q, I) \in Seq(RequestEntry)
      /\ Len(WithoutFirst(q, I)) \in Nat /\ Len(WithoutFirst(q, I)) <= Len(q)
  BY WithoutFirstFacts
<1> QED BY <1>1

LEMMA ResourceTableReplyStep ==
  ASSUME Inv, NEW m \in mix.inputs, ResourceTableReply(m)
  PROVE  Inv'
<1> DEFINE found == IF m.claim # m.source THEN {} ELSE AskedFor(resource_requests, m.source)
<1>1. found \in SUBSET DOMAIN resource_requests
  BY DEF AskedFor
<1>2. resource_requests' = WithoutFirst(resource_requests, found)
  BY DEF ResourceTableReply
<1>3. inputs < mix.max /\ inputs' = inputs + 1
      /\ UNCHANGED <<tables, info_requests, table_requests, resources, others, time, mix, silence,
                     asked>>
  BY DEF ResourceTableReply, Arrives
<1> HIDE DEF found
<1>4. resource_requests \in Seq(RequestEntry) /\ Len(resource_requests) <= RESOURCE_REQUESTS
      /\ RESOURCE_REQUESTS \in Nat
  BY TypeFacts, DiscoveryAssumption DEF Inv
<1>5. /\ resource_requests' \in Seq(RequestEntry)
      /\ Len(resource_requests') <= RESOURCE_REQUESTS
  BY <1>1, <1>2, <1>4, TakenType
<1>6. resource_requests' \in ResourceRequests
  BY <1>5 DEF ResourceRequests, UpTo, RequestEntry
<1>7. Aside
  BY <1>3, <1>6, AsideFacts DEF Inv, Aside, others, RtcTime
<1> QED BY <1>7, AsideStep

LEMMA RequestResourceTableStep ==
  ASSUME Inv, NEW c \in mix.inputs, RequestResourceTable(c)
  PROVE  Inv'
<1>1. c.type = "request_resource_table" /\ inputs < mix.max /\ inputs' = inputs + 1
      /\ UNCHANGED <<tables, info_requests, table_requests, resources, others, time, mix, silence,
                     asked>>
  BY DEF RequestResourceTable, Calls
<1>2. c.target \in Id /\ c.target \in Nat /\ c.kind \in Kind
  BY <1>1, InputFacts, DiscoveryAssumption DEF WellFormed, Inv
<1>3. resource_requests \in Seq(RequestEntry) /\ Len(resource_requests) <= RESOURCE_REQUESTS
      /\ RESOURCE_REQUESTS \in Nat
  BY TypeFacts, DiscoveryAssumption DEF Inv
<1> DEFINE r == Recorded(resource_requests, RESOURCE_REQUESTS, c.target, c.kind)
<1>4. r \in Seq(RequestEntry) /\ Len(r) <= RESOURCE_REQUESTS
  BY <1>2, <1>3, RecordedType
<1>5. resource_requests' = r \/ resource_requests' = resource_requests
  BY DEF RequestResourceTable
<1> HIDE DEF r
<1>6. resource_requests' \in ResourceRequests
  BY <1>3, <1>4, <1>5 DEF ResourceRequests, UpTo, RequestEntry
<1>7. Aside
  BY <1>1, <1>6, AsideFacts DEF Inv, Aside, others, RtcTime
<1> QED BY <1>7, AsideStep

LEMMA AddResourceStep ==
  ASSUME Inv, NEW c \in mix.inputs, AddResource(c)
  PROVE  Inv'
<1>1. c.type = "add_resource" /\ inputs < mix.max /\ inputs' = inputs + 1
      /\ UNCHANGED <<tables, info_requests, table_requests, resource_requests, others, time, mix,
                     silence, asked>>
  BY DEF AddResource, Calls
<1> DEFINE e == [name |-> c.name, kind |-> c.kind]
           Entry == [name : Names, kind : {"Publisher", "Subscriber"}]
<1>2. e \in Entry
  BY <1>1, InputFacts DEF WellFormed, Inv
<1>3. resources \in Seq(Entry) /\ Len(resources) <= RESOURCES /\ RESOURCES \in Nat
  BY DiscoveryAssumption DEF Inv, Typed, TypeOK, ResourceTable, UpTo
<1>4. resources' = resources \/ resources' = AppendUpTo(resources, RESOURCES, e)
  BY DEF AddResource
<1> HIDE DEF e, Entry
<1>5. resources' \in Seq(Entry) /\ Len(resources') <= RESOURCES
  BY <1>2, <1>3, <1>4, AppendFacts DEF Appended
<1>6. resources' \in ResourceTable
  BY <1>5 DEF ResourceTable, UpTo, Entry
<1>7. Aside
  BY <1>1, <1>6, AsideFacts DEF Inv, Aside, others, RtcTime
<1> QED BY <1>7, AsideStep

LEMMA PingStep ==
  ASSUME Inv, NEW c \in mix.inputs, Ping(c)
  PROVE  Inv'
<1>1. c.type = "ping" /\ inputs < mix.max /\ inputs' = inputs + 1
      /\ UNCHANGED <<tables, requests, rtc, registered, link_mask, time, mix, silence, asked>>
  BY DEF Ping, Calls
<1>2. c.payload \in Seq(STRING)
  BY <1>1, InputFacts DEF WellFormed, Inv
<1>3. ping' \in PingState
  <2>1. CASE Len(c.payload) > PING_PAYLOAD
    BY <2>1 DEF Ping, Inv, Typed, TypeOK
  <2>2. CASE ~(Len(c.payload) > PING_PAYLOAD)
    <3>1. c.payload \in UpTo(PING_PAYLOAD, STRING)
      BY <1>2, <2>2, DiscoveryAssumption DEF UpTo
    <3>2. ping.seq \in Clock /\ now \in Clock
      BY TypeFacts DEF Inv, Typed, TypeOK, PingState
    <3>3. ping.seq + 1 \in Int
      BY <3>2 DEF Clock
    <3> DEFINE s == (ping.seq + 1) % ClockWrap
    <3>4. s \in Clock
      BY <3>3, DivMod, ClockAssumption DEF Clock
    <3>5. ping' = [seq |-> s, sent_at_ms |-> now, expected |-> c.payload]
      BY <2>2 DEF Ping
    <3> HIDE DEF s
    <3> QED BY <3>1, <3>2, <3>4, <3>5 DEF PingState
  <2> QED BY <2>1, <2>2
<1>4. Aside
  BY <1>1, <1>3, AsideFacts DEF Inv, Aside, requests, RtcTime
<1> QED BY <1>4, AsideStep

LEMMA OtherCallsStep ==
  ASSUME Inv, NEW c \in mix.inputs,
         \/ CallRequestDeviceInfo(c) \/ CallTime(c) \/ Unregister(c) \/ Register(c) \/ SetLinkUp(c)
  PROVE  Inv'
<1>w. WellFormed(c)
  BY InputFacts DEF Inv
<1>1. CASE CallRequestDeviceInfo(c)
  <2>1. c.type = "request_device_info" /\ inputs < mix.max /\ inputs' = inputs + 1
        /\ UNCHANGED <<tables, table_requests, resources, resource_requests, others, time, mix,
                       silence, asked>>
        /\ RequestDeviceInfo(c.target, c.kind)
    BY <1>1 DEF CallRequestDeviceInfo, Calls
  <2>2. c.target \in Nat /\ c.kind \in Kind
    BY <1>w, <2>1, DiscoveryAssumption DEF WellFormed
  <2>3. info_requests' \in InfoRequests
    BY <2>1, <2>2, RequestType DEF Inv
  <2>4. Aside
    BY <2>1, <2>3, AsideFacts DEF Inv, Aside, others, RtcTime
  <2> QED BY <2>4, AsideStep
<1>2. CASE CallTime(c)
  BY <1>2, QuietStep DEF CallTime, Calls
<1>3. CASE Unregister(c)
  <2>1. Aside
    BY <1>3, AsideFacts DEF Unregister, Calls, Inv, Aside, requests, RtcTime
  <2> QED BY <2>1, AsideStep
<1>4. CASE Register(c)
  <2>0. c.type = "register"
    BY <1>4 DEF Register, Calls
  <2>1. c.message_type \in MessageType
    BY <1>w, <2>0 DEF WellFormed
  <2>2. Aside
    BY <1>4, <2>1, AsideFacts DEF Register, Calls, Inv, Aside, requests, RtcTime
  <2> QED BY <2>2, AsideStep
<1>5. CASE SetLinkUp(c)
  <2>0. c.type = "set_link_up"
    BY <1>5 DEF SetLinkUp, Calls
  <2>1. c.port \in Port
    BY <1>w, <2>0 DEF WellFormed
  <2>2. Aside
    BY <1>5, <2>1, AsideFacts DEF SetLinkUp, Calls, Inv, Aside, requests, RtcTime
  <2> QED BY <2>2, AsideStep
<1> QED BY <1>1, <1>2, <1>3, <1>4, <1>5

\* A reply that is cached is a neighbour's, and replaces what was cached of it.
LEMMA StoreFacts ==
  ASSUME Typed, Placed, NEW m, m.claim \in Id, m.name \in STRING, Known(m.claim),
         UNCHANGED neighbors, info' = Store(m)
  PROVE  Placed' /\ info' \in InfoCache
<1>t. /\ info \in Seq(InfoEntry) /\ Len(info) \in Nat /\ Len(info) <= NEIGHBORS
      /\ DOMAIN info = 1..Len(info) /\ NEIGHBORS \in Nat
      /\ \A i \in DOMAIN info : info[i] \in InfoEntry
  BY TypeFacts, DiscoveryAssumption
<1>u. /\ \A i, j \in DOMAIN info : info[i].node_id = info[j].node_id => i = j
      /\ \A i \in DOMAIN info : Known(info[i].node_id)
  BY DEF Placed, CacheIsNeighbours
<1>o. OnePerPort'
  BY DEF Placed, OnePerPort
<1>s. SUFFICES /\ info' \in InfoCache
               /\ \A i \in DOMAIN info' : Known(info'[i].node_id)
               /\ \A i, j \in DOMAIN info' : info'[i].node_id = info'[j].node_id => i = j
  BY <1>o DEF Placed, CacheIsNeighbours, Known, At
<1>1. CASE Cached(m.claim) = {}
  <2> DEFINE e == [node_id |-> m.claim, name |-> m.name]
  <2>1. e \in InfoEntry /\ e.node_id = m.claim
    BY DEF InfoEntry
  <2>2. info' = AppendUpTo(info, NEIGHBORS, e)
    BY <1>1 DEF Store
  <2> HIDE DEF e
  <2>3. /\ info' \in Seq(InfoEntry) /\ Len(info') <= NEIGHBORS
        /\ \A i \in DOMAIN info' : \/ i \in DOMAIN info /\ info'[i] = info[i]
                                   \/ i = Len(info) + 1 /\ info'[i] = e
    <3>1. Appended(info', info, NEIGHBORS, e, InfoEntry)
      BY <1>t, <2>1, <2>2, AppendFacts
    <3> QED BY <3>1 DEF Appended
  <2>4. \A i \in DOMAIN info : info[i].node_id # m.claim
    BY <1>1 DEF Cached
  <2>5. \A i, j \in DOMAIN info' : info'[i].node_id = info'[j].node_id => i = j
    BY <1>u, <2>1, <2>3, <2>4
  <2>6. \A i \in DOMAIN info' : Known(info'[i].node_id)
    BY <1>u, <2>1, <2>3
  <2> QED BY <2>3, <2>5, <2>6 DEF InfoCache, UpTo, InfoEntry
<1>2. CASE Cached(m.claim) # {}
  <2> DEFINE k == First(Cached(m.claim))
             x == IF m.name = "" THEN info[k].name ELSE m.name
  <2>1. Cached(m.claim) \in SUBSET Nat
    BY <1>t DEF Cached
  <2>2. k \in Cached(m.claim)
    BY <1>2, <2>1, FirstFacts
  <2>3. k \in DOMAIN info
    BY <2>2 DEF Cached
  <2>4. info' = [info EXCEPT ![k].name = IF m.name = "" THEN @ ELSE m.name]
    BY <1>2 DEF Store
  <2> HIDE DEF k
  <2>5. info' = [info EXCEPT ![k].name = x]
    BY <2>3, <2>4
  <2>6. info[k] \in InfoEntry /\ info[k].name \in STRING
    BY <1>t, <2>3 DEF InfoEntry
  <2>7. x \in STRING
    BY <2>6
  <2> HIDE DEF x
  <2>8. [info[k] EXCEPT !.name = x] \in InfoEntry
        /\ [info[k] EXCEPT !.name = x].node_id = info[k].node_id
    BY <2>6, <2>7 DEF InfoEntry
  <2> DEFINE r == [info[k] EXCEPT !.name = x]
  <2>9. info' = [info EXCEPT ![k] = r]
    BY <2>3, <2>5
  <2> HIDE DEF r
  <2>10. r \in InfoEntry /\ r.node_id = info[k].node_id
    BY <2>8 DEF r
  <2>11. /\ info' \in Seq(InfoEntry) /\ Len(info') = Len(info) /\ DOMAIN info' = DOMAIN info
         /\ \A i \in DOMAIN info : info'[i].node_id = info[i].node_id
    BY <1>t, <2>3, <2>9, <2>10
  <2> QED BY <1>t, <1>u, <2>11 DEF InfoCache, UpTo, InfoEntry
<1> QED BY <1>1, <1>2

LEMMA DeviceInfoReplyStep ==
  ASSUME Inv, NEW m \in mix.inputs, DeviceInfoReply(m)
  PROVE  Inv'
<1> DEFINE found == AskedFor(info_requests, m.claim)
<1>1. /\ m.type = "DEVICE_INFO_REPLY" /\ inputs < mix.max /\ inputs' = inputs + 1
      /\ UNCHANGED <<neighbors, table_requests, resources, resource_requests, others, time, mix,
                     silence, asked>>
      /\ info_requests' = WithoutFirst(info_requests, found)
      /\ info' = info \/ (Known(m.claim) /\ info' = Store(m))
  BY DEF DeviceInfoReply, Arrives
<1>2. m.claim \in Id /\ m.name \in STRING
  BY <1>1, InputFacts DEF WellFormed, Inv
<1>3. found \in SUBSET DOMAIN info_requests
  BY DEF AskedFor
<1>4. info_requests \in Seq(RequestEntry) /\ Len(info_requests) <= INFO_REQUESTS
      /\ INFO_REQUESTS \in Nat
  BY TypeFacts, DiscoveryAssumption DEF Inv
<1> HIDE DEF found
<1>5. info_requests' \in Seq(RequestEntry) /\ Len(info_requests') <= INFO_REQUESTS
  BY <1>1, <1>3, <1>4, TakenType
<1>6. info_requests' \in InfoRequests
  BY <1>5 DEF InfoRequests, UpTo, RequestEntry
<1>7. Placed' /\ info' \in InfoCache
  <2>1. CASE info' = info
    BY <1>1, <2>1, PlacedSame DEF Inv, Typed, TypeOK, tables
  <2>2. CASE Known(m.claim) /\ info' = Store(m)
    BY <1>1, <1>2, <2>2, StoreFacts DEF Inv
  <2> QED BY <1>1, <2>1, <2>2
<1>8. LeaseInv' /\ AskedInv'
  BY <1>1, LeaseSame, AskedSame DEF Inv
<1>9. inputs' \in 0..mix.max
  BY <1>1, InputCounted DEF Inv
<1>10. Typed'
  BY <1>1, <1>6, <1>7, <1>9 DEF Inv, Typed, TypeOK, others, time, RtcTime
<1> QED BY <1>7, <1>8, <1>10 DEF Inv

------------------------------------------------------------------------------
(* The neighbour-table request. *)

\* The fields of the request and of its history.
LEMMA AskedFacts ==
  ASSUME Typed
  PROVE  /\ asked.open \in BOOLEAN /\ asked.report \in BOOLEAN /\ asked.answered \in BOOLEAN
         /\ asked.since \in Nat /\ asked.reports \in Nat /\ asked.timeouts \in Nat
         /\ asked.early \in BOOLEAN /\ table_requests.armed \in BOOLEAN
         /\ Running => table_requests.started \in Clock
BY DEF Typed, TypeOK, Asked, TableRequests, Running

\* What a step does that touches the request alone.
LEMMA RequestStep ==
  ASSUME Inv, UNCHANGED <<tables, info_requests, resources, resource_requests, others, time, mix,
                          silence>>,
         inputs' \in 0..mix.max, table_requests' \in TableRequests, asked' \in Asked, AskedInv'
  PROVE  Inv'
<1>1. Placed'
  BY PlacedSame DEF Inv
<1>2. LeaseInv'
  BY LeaseSame DEF Inv, tables
<1>3. Typed'
  BY DEF Inv, Typed, TypeOK, tables, others, time, RtcTime
<1> QED BY <1>1, <1>2, <1>3 DEF Inv

LEMMA RequestNeighborTableStep ==
  ASSUME Inv, NEW c \in mix.inputs, RequestNeighborTable(c)
  PROVE  Inv'
<1>1. /\ c.type = "request_neighbor_table" /\ inputs < mix.max /\ inputs' = inputs + 1
      /\ table_requests' = [target |-> c.target, armed |-> c.kind = "Report", started |-> now]
      /\ asked' = [open |-> TRUE, report |-> c.kind = "Report", answered |-> FALSE, since |-> 0,
                   reports |-> 0, timeouts |-> 0, early |-> FALSE]
      /\ UNCHANGED <<tables, info_requests, resources, resource_requests, others, time, mix,
                     silence>>
  BY DEF RequestNeighborTable, Calls
<1>2. c.target \in Id
  BY <1>1, InputFacts DEF WellFormed, Inv
<1>m. now \in Clock
  BY TypeFacts DEF Inv
<1>n. now # Never
  BY <1>m DEF Never, Clock
<1>3. now \in Clock /\ (now + 0) % ClockWrap = now /\ now # Never
  BY <1>m, <1>n, ClockSteps
<1>4. inputs' \in 0..mix.max
  BY <1>1, InputCounted DEF Inv
<1> DEFINE report == c.kind = "Report"
<1>5. report \in BOOLEAN
  OBVIOUS
<1>a. /\ table_requests' = [target |-> c.target, armed |-> report, started |-> now]
      /\ asked' = [open |-> TRUE, report |-> report, answered |-> FALSE, since |-> 0,
                   reports |-> 0, timeouts |-> 0, early |-> FALSE]
  BY <1>1
<1> HIDE DEF report
<1>b. table_requests' \in TableRequests
  BY <1>2, <1>3, <1>5, <1>a DEF TableRequests
<1>c. asked' \in Asked
  BY <1>5, <1>a DEF Asked
<1>6. table_requests' \in TableRequests /\ asked' \in Asked
  BY <1>b, <1>c
<1>d. /\ table_requests'.started = now /\ table_requests'.armed = report
      /\ asked'.open = TRUE /\ asked'.report = report /\ asked'.answered = FALSE
      /\ asked'.since = 0 /\ asked'.reports = 0 /\ asked'.timeouts = 0 /\ asked'.early = FALSE
  BY <1>a
<1>7. AskedInv'
  BY <1>1, <1>3, <1>5, <1>d, DiscoveryAssumption DEF AskedInv, Running, time
<1> QED BY <1>1, <1>4, <1>6, <1>7, RequestStep

LEMMA NeighborTableReplyStep ==
  ASSUME Inv, NEW m \in mix.inputs, NeighborTableReply(m)
  PROVE  Inv'
<1>1. /\ inputs < mix.max /\ inputs' = inputs + 1
      /\ UNCHANGED <<tables, info_requests, resources, resource_requests, others, time, mix,
                     silence>>
  BY DEF NeighborTableReply, Arrives
<1>2. inputs' \in 0..mix.max
  BY <1>1, InputCounted DEF Inv
<1>3. CASE ~Accepted(m)
  <2>1. UNCHANGED <<table_requests, asked>>
    BY <1>3 DEF NeighborTableReply
  <2>2. AskedInv'
    BY <1>1, <2>1, AskedSame DEF Inv
  <2> QED BY <1>1, <1>2, <2>1, <2>2, RequestStep DEF Inv, Typed, TypeOK
<1>4. CASE Accepted(m)
  <2> DEFINE one == IF table_requests.armed THEN 1 ELSE 0
  <2>1. /\ table_requests' = [table_requests EXCEPT !.started = Never, !.armed = FALSE]
        /\ asked' = [asked EXCEPT !.answered = TRUE, !.reports = asked.reports + one]
    BY <1>4 DEF NeighborTableReply, Accept
  <2>2. table_requests \in TableRequests /\ asked \in Asked
    BY DEF Inv, Typed, TypeOK
  <2>3. asked.reports + one \in Nat
    BY AskedFacts DEF Inv
  <2>4. asked' \in Asked
    BY <2>1, <2>2, <2>3 DEF Asked
  <2>5. table_requests' \in TableRequests
    BY <2>1, <2>2 DEF TableRequests
  <2>6. /\ asked'.open = asked.open /\ asked'.report = asked.report /\ asked'.answered = TRUE
        /\ asked'.reports = asked.reports + one /\ asked'.timeouts = asked.timeouts
        /\ asked'.early = asked.early
        /\ table_requests'.started = Never /\ table_requests'.armed = FALSE
    BY <2>1, <2>2 DEF Asked, TableRequests
  <2>7. AskedInv'
    BY <2>6, AskedFacts DEF Inv, AskedInv, Running
  <2> QED BY <1>1, <1>2, <2>4, <2>5, <2>7, RequestStep
<1> QED BY <1>3, <1>4

\* When the timer is due, of a request that runs.
LEMMA TimerFacts ==
  ASSUME Typed, AskedInv
  PROVE  TimerLeft = 0 <=> Running /\ asked.since >= NEIGHBOR_REQUEST_TIMEOUT_MS
<1>c. /\ NEIGHBOR_REQUEST_TIMEOUT_MS \in Nat /\ Late \in Nat
      /\ 2 * (NEIGHBOR_REQUEST_TIMEOUT_MS + Late + 1) < ClockWrap
  BY DiscoveryAssumption
<1>1. CASE ~Running
  BY <1>1 DEF TimerLeft, Running, Never
<1>2. CASE Running
  <2> DEFINE s == table_requests.started
             e == asked.since
  <2>1. /\ s \in Clock /\ e \in Nat /\ e <= NEIGHBOR_REQUEST_TIMEOUT_MS + Late
        /\ now = (s + e) % ClockWrap
    BY <1>2, AskedFacts DEF AskedInv
  <2>2. TimerLeft = TimeRemaining(s, now, NEIGHBOR_REQUEST_TIMEOUT_MS)
    BY <1>2 DEF TimerLeft, Running
  <2> HIDE DEF s, e
  <2>3. TimeRemaining(s, (s + e) % ClockWrap, NEIGHBOR_REQUEST_TIMEOUT_MS)
          = IF e < NEIGHBOR_REQUEST_TIMEOUT_MS THEN NEIGHBOR_REQUEST_TIMEOUT_MS - e ELSE 0
    BY <1>c, <2>1, RemainingFacts
  <2>4. TimerLeft = 0 <=> e >= NEIGHBOR_REQUEST_TIMEOUT_MS
    BY <1>c, <2>1, <2>2, <2>3
  <2> QED BY <1>2, <2>4 DEF e
<1> QED BY <1>1, <1>2

\* The timer, wherever it is looked at.
LEMMA FiredFacts ==
  ASSUME Typed, AskedInv, OnNeighborRequestTimer, UNCHANGED now
  PROVE  AskedInv' /\ table_requests' \in TableRequests /\ asked' \in Asked
<1>1. CASE TimerLeft # 0
  BY <1>1 DEF OnNeighborRequestTimer, AskedInv, Running, Typed, TypeOK
<1>2. CASE TimerLeft = 0
  <2> DEFINE early == asked.early \/ asked.answered
                      \/ asked.since < NEIGHBOR_REQUEST_TIMEOUT_MS
  <2>1. /\ table_requests' = [table_requests EXCEPT !.started = Never]
        /\ asked' = [asked EXCEPT !.timeouts = asked.timeouts + 1, !.early = early]
    BY <1>2 DEF OnNeighborRequestTimer, Fired
  <2>2. Running /\ asked.since >= NEIGHBOR_REQUEST_TIMEOUT_MS
    BY <1>2, TimerFacts
  <2>3. early = FALSE
    BY <2>2, AskedFacts, DiscoveryAssumption DEF AskedInv
  <2> HIDE DEF early
  <2>4. table_requests \in TableRequests /\ asked \in Asked
    BY DEF Typed, TypeOK
  <2>d. asked.timeouts + 1 \in Nat
    BY AskedFacts
  <2>e. early \in BOOLEAN
    BY <2>3
  <2>5. asked.timeouts + 1 \in Nat /\ early \in BOOLEAN
    BY <2>d, <2>e
  <2>a. table_requests' \in TableRequests
    BY <2>1, <2>4 DEF TableRequests
  <2> DEFINE n == asked.timeouts + 1
  <2> HIDE DEF n
  <2>c. n \in Nat /\ asked' = [asked EXCEPT !.timeouts = n, !.early = early]
    BY <2>1, <2>5 DEF n
  <2>b. asked' \in Asked
    BY <2>4, <2>5, <2>c DEF Asked
  <2>6. table_requests' \in TableRequests /\ asked' \in Asked
    BY <2>a, <2>b
  <2>7. /\ asked'.open = asked.open /\ asked'.report = asked.report
        /\ asked'.answered = asked.answered
        /\ asked'.reports = asked.reports /\ asked'.timeouts = asked.timeouts + 1
        /\ asked'.early = FALSE
        /\ table_requests'.started = Never /\ table_requests'.armed = table_requests.armed
    BY <2>1, <2>3, <2>4 DEF Asked, TableRequests
  <2>8. AskedInv'
    BY <2>2, <2>7, AskedFacts DEF AskedInv, Running
  <2> QED BY <2>6, <2>8
<1> QED BY <1>1, <1>2

LEMMA TimerStep ==
  ASSUME Inv, Timer
  PROVE  Inv'
<1>1. /\ OnNeighborRequestTimer
      /\ UNCHANGED <<tables, info_requests, resources, resource_requests, others, time, mix, inputs,
                     silence>>
  BY DEF Timer
<1>2. AskedInv' /\ table_requests' \in TableRequests /\ asked' \in Asked
  BY <1>1, FiredFacts DEF Inv, time
<1>3. inputs' \in 0..mix.max
  BY <1>1 DEF Inv, Typed, TypeOK
<1> QED BY <1>1, <1>2, <1>3, RequestStep

------------------------------------------------------------------------------
(* The ticker and the clock. *)

\* check takes a neighbour offline when its lease is over, by the history too.
LEMMA LeaseOverFacts ==
  ASSUME Typed, NEW i \in DOMAIN neighbors, NEW e \in Nat, HeardAgo(neighbors[i], e),
         Measured(neighbors[i]), neighbors[i].online
  PROVE  LeaseOver(neighbors[i]) <=> e >= Lease(neighbors[i])
<1> DEFINE n == neighbors[i]
           l == Lease(n)
           s == n.last_heartbeat_ms
           late == HEARTBEAT_PERIOD_MS + Late
<1>1. l \in Nat /\ s \in Clock
  BY TypeFacts, NeighborFields
<1>2. HEARTBEAT_PERIOD_MS \in Nat /\ Late \in Nat /\ tick_in \in Int /\ tick_in >= -Late
  BY DiscoveryAssumption DEF Typed, TypeOK
<1>3. /\ now = (s + e) % ClockWrap /\ e + tick_in <= l + HEARTBEAT_PERIOD_MS
      /\ 2 * (l + HEARTBEAT_PERIOD_MS + Late + 1) < ClockWrap
  BY DEF HeardAgo, Measured
<1>4. LeaseMs(n) = l % ClockWrap
  BY DEF LeaseMs, Lease
<1>5. LeaseOver(n) <=> TimeRemaining(s, now, LeaseMs(n)) = 0
  BY DEF LeaseOver
<1> HIDE DEF n, l, s
<1>6. LeaseMs(n) = l
  BY <1>1, <1>2, <1>3, <1>4, ClockAssumption
<1>7. late \in Nat /\ e <= l + late /\ 2 * (l + late + 1) < ClockWrap
  BY <1>1, <1>2, <1>3
<1> HIDE DEF late
<1>8. TimeRemaining(s, (s + e) % ClockWrap, l) = IF e < l THEN l - e ELSE 0
  BY <1>1, <1>7, RemainingFacts
<1>9. TimeRemaining(s, now, LeaseMs(n)) = 0 <=> e >= l
  BY <1>1, <1>3, <1>6, <1>8
<1> QED BY <1>5, <1>9 DEF n, l

\* What check leaves alone.
LEMMA CheckFacts ==
  ASSUME Typed, neighbors' = Check
  PROVE  /\ neighbors' \in NeighborTable /\ DOMAIN neighbors' = DOMAIN neighbors
         /\ \A i \in DOMAIN neighbors :
              /\ neighbors'[i].node_id = neighbors[i].node_id
              /\ neighbors'[i].port = neighbors[i].port
              /\ neighbors'[i].last_heartbeat_ms = neighbors[i].last_heartbeat_ms
              /\ neighbors'[i].heartbeat_period_s = neighbors[i].heartbeat_period_s
              /\ neighbors'[i].online = (neighbors[i].online /\ ~LeaseOver(neighbors[i]))
<1>t. /\ neighbors \in Seq(Neighbor) /\ Len(neighbors) \in Nat /\ Len(neighbors) <= NEIGHBORS
      /\ DOMAIN neighbors = 1..Len(neighbors)
      /\ \A j \in DOMAIN neighbors : neighbors[j] \in Neighbor
  BY TypeFacts
<1> DEFINE off(n) == IF LeaseOver(n) THEN [n EXCEPT !.online = FALSE] ELSE n
<1>1. ASSUME NEW n \in Neighbor
      PROVE  /\ off(n) \in Neighbor /\ off(n).node_id = n.node_id /\ off(n).port = n.port
             /\ off(n).last_heartbeat_ms = n.last_heartbeat_ms
             /\ off(n).heartbeat_period_s = n.heartbeat_period_s
             /\ off(n).online = (n.online /\ ~LeaseOver(n))
  <2>1. CASE LeaseOver(n)
    <3> DEFINE r == [n EXCEPT !.online = FALSE]
    <3>1. /\ r \in Neighbor /\ r.node_id = n.node_id /\ r.port = n.port
          /\ r.last_heartbeat_ms = n.last_heartbeat_ms
          /\ r.heartbeat_period_s = n.heartbeat_period_s /\ r.online = FALSE
      BY DEF Neighbor
    <3>2. off(n) = r
      BY <2>1
    <3> HIDE DEF r, off
    <3> QED BY <2>1, <3>1, <3>2
  <2>2. CASE ~LeaseOver(n)
    <3>1. n.online \in BOOLEAN
      BY NeighborFields
    <3>2. off(n) = n
      BY <2>2
    <3> HIDE DEF off
    <3> QED BY <2>2, <3>1, <3>2
  <2> QED BY <2>1, <2>2
<1>2. neighbors' = [i \in DOMAIN neighbors |-> off(neighbors[i])]
  BY DEF Check
<1> HIDE DEF off
<1>3. DOMAIN neighbors' = 1..Len(neighbors)
      /\ \A i \in DOMAIN neighbors : neighbors'[i] = off(neighbors[i])
  BY <1>t, <1>2
<1>4. neighbors' \in [1..Len(neighbors) -> Neighbor]
  BY <1>t, <1>1, <1>2
<1>5. neighbors' \in Seq(Neighbor) /\ Len(neighbors') = Len(neighbors)
  BY <1>t, <1>4
<1>6. neighbors' \in NeighborTable
  BY <1>t, <1>5 DEF NeighborTable, UpTo
<1> QED BY <1>t, <1>1, <1>3, <1>6

LEMMA TickStep ==
  ASSUME Inv, Tick
  PROVE  Inv'
<1>1. /\ tick_in <= 0 /\ tick_in' = tick_in + HEARTBEAT_PERIOD_MS /\ neighbors' = Check
      /\ OnNeighborRequestTimer
      /\ UNCHANGED <<info, info_requests, resources, resource_requests, others, now, mix, inputs,
                     silence>>
  BY DEF Tick
<1>2. AskedInv' /\ table_requests' \in TableRequests /\ asked' \in Asked
  BY <1>1, FiredFacts DEF Inv
<1>3. /\ neighbors' \in NeighborTable /\ DOMAIN neighbors' = DOMAIN neighbors
      /\ \A i \in DOMAIN neighbors :
           /\ neighbors'[i].node_id = neighbors[i].node_id
           /\ neighbors'[i].port = neighbors[i].port
           /\ neighbors'[i].last_heartbeat_ms = neighbors[i].last_heartbeat_ms
           /\ neighbors'[i].heartbeat_period_s = neighbors[i].heartbeat_period_s
           /\ neighbors'[i].online = (neighbors[i].online /\ ~LeaseOver(neighbors[i]))
  BY <1>1, CheckFacts DEF Inv
<1>4. Placed'
  BY <1>1, <1>3 DEF Inv, Placed, OnePerPort, CacheIsNeighbours, Known, At
<1>5. HEARTBEAT_PERIOD_MS \in Nat /\ Late \in Nat /\ tick_in \in -Late..HEARTBEAT_PERIOD_MS
  BY DiscoveryAssumption DEF Inv, Typed, TypeOK
<1>6. tick_in' \in -Late..HEARTBEAT_PERIOD_MS
  BY <1>1, <1>5
<1>7. Typed'
  BY <1>1, <1>2, <1>3, <1>6 DEF Inv, Typed, TypeOK, others, RtcTime
<1>8. LeaseInv'
  <2> SUFFICES ASSUME NEW i \in DOMAIN neighbors'
               PROVE  \E e \in Nat : HeardAgo(neighbors[i], e)'
    BY DEF LeaseInv
  <2>1. PICK e \in Nat : HeardAgo(neighbors[i], e)
    BY <1>3 DEF Inv, LeaseInv
  <2>2. Lease(neighbors[i]) \in Nat /\ neighbors[i].online \in BOOLEAN
    BY <1>3, TypeFacts, NeighborFields DEF Inv
  <2>3. Lease(neighbors[i])' = Lease(neighbors[i])
        /\ (Measured(neighbors[i])' <=> Measured(neighbors[i]))
    BY <1>3 DEF Lease, Measured
  <2>4. ASSUME Measured(neighbors[i])
        PROVE  IF neighbors'[i].online
               THEN e + tick_in' <= Lease(neighbors[i]) + HEARTBEAT_PERIOD_MS
               ELSE e >= Lease(neighbors[i])
    <3>1. CASE neighbors[i].online
      <4>1. LeaseOver(neighbors[i]) <=> e >= Lease(neighbors[i])
        BY <1>3, <2>1, <2>4, <3>1, LeaseOverFacts DEF Inv
      <4>2. neighbors'[i].online <=> ~LeaseOver(neighbors[i])
        BY <1>3, <3>1
      <4>3. e < Lease(neighbors[i]) =>
              e + tick_in' <= Lease(neighbors[i]) + HEARTBEAT_PERIOD_MS
        BY <1>1, <1>5, <2>2
      <4>4. e >= Lease(neighbors[i]) \/ e < Lease(neighbors[i])
        BY <2>2
      <4> QED BY <4>1, <4>2, <4>3, <4>4
    <3>2. CASE ~neighbors[i].online
      BY <1>3, <2>1, <2>4, <3>2 DEF HeardAgo
    <3> QED BY <3>1, <3>2
  <2>5. HeardAgo(neighbors[i], e)'
    BY <1>1, <1>3, <2>1, <2>3, <2>4 DEF HeardAgo
  <2> QED BY <2>5
<1> QED BY <1>2, <1>4, <1>7, <1>8 DEF Inv

LEMMA AdvanceStep ==
  ASSUME Inv, Advance
  PROVE  Inv'
<1>1. /\ tick_in > -Late
      /\ TimerLeft = 0 => asked.since < NEIGHBOR_REQUEST_TIMEOUT_MS + Late
      /\ now' = (now + 1) % ClockWrap
      /\ tick_in' = tick_in - 1
      /\ silence' = [i \in Id |-> IF silence[i] = MaxSilence THEN MaxSilence ELSE silence[i] + 1]
      /\ UNCHANGED <<tables, requests, others, mix, inputs>>
  BY DEF Advance
<1>c. /\ HEARTBEAT_PERIOD_MS \in Nat /\ Late \in Nat /\ MaxSilence \in Nat
      /\ NEIGHBOR_REQUEST_TIMEOUT_MS \in Nat
  BY DiscoveryAssumption
<1>2. now \in Clock /\ now' \in Clock
  BY <1>1, TypeFacts, ClockSteps DEF Inv
<1>3. tick_in \in -Late..HEARTBEAT_PERIOD_MS /\ tick_in' \in -Late..HEARTBEAT_PERIOD_MS
  BY <1>1, <1>c DEF Inv, Typed, TypeOK
<1>4. /\ silence \in [Id -> 0..MaxSilence] /\ silence' \in [Id -> 0..MaxSilence]
      /\ \A i \in Id : silence'[i] = IF silence[i] = MaxSilence THEN MaxSilence ELSE silence[i] + 1
  BY <1>1, <1>c DEF Inv, Typed
<1> DEFINE later == IF asked.since > NEIGHBOR_REQUEST_TIMEOUT_MS + Late
                    THEN asked.since ELSE asked.since + 1
<1>5. asked' = [asked EXCEPT !.since = later]
  BY DEF Advance
<1>6. later \in Nat
  BY AskedFacts DEF Inv
<1>7. asked.since <= NEIGHBOR_REQUEST_TIMEOUT_MS + Late => later = asked.since + 1
  BY <1>c, AskedFacts DEF Inv
<1> HIDE DEF later
<1>8. /\ asked' \in Asked /\ asked'.open = asked.open /\ asked'.report = asked.report
      /\ asked'.answered = asked.answered /\ asked'.reports = asked.reports
      /\ asked'.timeouts = asked.timeouts /\ asked'.early = asked.early
      /\ asked'.since = later
  BY <1>5, <1>6 DEF Inv, Typed, Asked
<1>9. AskedInv'
  <2>1. CASE ~Running
    BY <1>1, <1>8, <2>1 DEF Inv, AskedInv, Running, requests
  <2>2. CASE Running
    <3>1. /\ asked.since \in Nat /\ asked.since <= NEIGHBOR_REQUEST_TIMEOUT_MS + Late
          /\ table_requests.started \in Clock
          /\ now = (table_requests.started + asked.since) % ClockWrap
      BY <2>2, AskedFacts DEF Inv, AskedInv
    <3>2. asked.since < NEIGHBOR_REQUEST_TIMEOUT_MS + Late
          \/ asked.since + 1 <= NEIGHBOR_REQUEST_TIMEOUT_MS
      BY <1>1, <1>c, <2>2, <3>1, TimerFacts DEF Inv
    <3>3. later = asked.since + 1 /\ later <= NEIGHBOR_REQUEST_TIMEOUT_MS + Late
      BY <1>c, <1>7, <3>1, <3>2
    <3>4. ((now + 1) % ClockWrap) = (table_requests.started + (asked.since + 1)) % ClockWrap
      BY <3>1, ClockSteps
    <3> QED BY <1>1, <1>8, <2>2, <3>3, <3>4 DEF Inv, AskedInv, Running, requests
  <2> QED BY <2>1, <2>2
<1>10. LeaseInv'
  <2> SUFFICES ASSUME NEW i \in DOMAIN neighbors
               PROVE  \E e \in Nat : HeardAgo(neighbors[i], e)'
    BY <1>1 DEF LeaseInv, tables
  <2> DEFINE n == neighbors[i]
  <2>1. PICK e \in Nat : HeardAgo(n, e)
    BY DEF Inv, LeaseInv
  <2>2. n.last_heartbeat_ms \in Clock /\ n.node_id \in Id /\ Lease(n) \in Nat
    BY TypeFacts, NeighborFields DEF Inv
  <2>3. (((n.last_heartbeat_ms + e) % ClockWrap) + 1) % ClockWrap
          = (n.last_heartbeat_ms + (e + 1)) % ClockWrap
    BY <2>1, <2>2, ClockSteps
  <2>4. now' = (n.last_heartbeat_ms + (e + 1)) % ClockWrap
    BY <1>1, <2>1, <2>3 DEF HeardAgo
  <2>5. /\ silence'[n.node_id] <= e + 1
        /\ n.node_id # 0 =>
             silence'[n.node_id] = IF e + 1 <= MaxSilence THEN e + 1 ELSE MaxSilence
    BY <1>c, <1>4, <2>1, <2>2 DEF HeardAgo
  <2>6. Measured(n) => IF n.online THEN (e + 1) + tick_in' <= Lease(n) + HEARTBEAT_PERIOD_MS
                       ELSE e + 1 >= Lease(n)
    BY <1>1, <1>3, <2>1, <2>2 DEF HeardAgo
  <2>7. neighbors' = neighbors
    BY <1>1 DEF tables
  <2>8. HeardAgo(neighbors[i], e + 1)'
    BY <2>4, <2>5, <2>6, <2>7 DEF HeardAgo, Measured, Lease
  <2>9. e + 1 \in Nat
    OBVIOUS
  <2> QED BY <2>8, <2>9
<1>11. Placed'
  BY <1>1, PlacedSame DEF Inv
<1>12. Typed'
  BY <1>1, <1>2, <1>3, <1>4, <1>8
     DEF Inv, Typed, TypeOK, tables, requests, others, RtcTime
<1> QED BY <1>9, <1>10, <1>11, <1>12 DEF Inv

------------------------------------------------------------------------------
(* The theorems. *)

LEMMA InvInit == Init => Inv
<1> SUFFICES ASSUME Init PROVE Inv
  OBVIOUS
<1>m. mix \in Mixes
  BY DEF Init
<1>c. /\ 0 \in Id /\ MaxSilence \in Nat /\ NEIGHBORS \in Nat
      /\ INFO_REQUESTS \in Nat /\ RESOURCES \in Nat /\ RESOURCE_REQUESTS \in Nat
      /\ PING_PAYLOAD \in Nat /\ HEARTBEAT_PERIOD_MS \in Nat /\ Late \in Nat
      /\ ClockWrap \in Nat \ {0} /\ mix.max \in Nat
  BY <1>m, DiscoveryAssumption, ClockAssumption
<1>1. 0 \in Clock
  BY <1>c DEF Clock
<1>2. /\ neighbors \in NeighborTable /\ info \in InfoCache /\ info_requests \in InfoRequests
      /\ resources \in ResourceTable /\ resource_requests \in ResourceRequests
  BY <1>c DEF Init, NeighborTable, InfoCache, InfoRequests, ResourceTable, ResourceRequests, UpTo
<1>3. ping \in PingState
  <2>1. <<>> \in UpTo(PING_PAYLOAD, STRING)
    BY <1>c DEF UpTo
  <2> QED BY <1>1, <2>1 DEF Init, PingState
<1>4. table_requests \in TableRequests
  BY <1>c DEF Init, TableRequests
<1>5. RtcTime(rtc) /\ registered \subseteq MessageType /\ link_mask \subseteq Port
      /\ now \in Clock /\ tick_in \in -Late..HEARTBEAT_PERIOD_MS /\ inputs \in 0..mix.max
  BY <1>c, <1>1 DEF Init, RtcTime
<1>6. silence \in [Id -> 0..MaxSilence] /\ asked \in Asked
  BY <1>c DEF Init, Asked
<1>7. Typed
  BY <1>m, <1>2, <1>3, <1>4, <1>5, <1>6 DEF Typed, TypeOK
<1>8. Placed /\ LeaseInv
  BY DEF Init, Placed, OnePerPort, CacheIsNeighbours, LeaseInv
<1>9. AskedInv
  BY DEF Init, AskedInv, Running
<1> QED BY <1>7, <1>8, <1>9 DEF Inv

LEMMA InvStep == Inv /\ [Next]_vars => Inv'
<1> SUFFICES ASSUME Inv, [Next]_vars PROVE Inv'
  OBVIOUS
<1>1. CASE Arrival
  <2>1. PICK m \in mix.inputs :
          \/ Dropped(m) \/ Heartbeat(m) \/ Request(m) \/ DeviceInfoReply(m)
          \/ NeighborTableReply(m) \/ ResourceTableReply(m) \/ EchoReply(m) \/ SystemTime(m)
    BY <1>1 DEF Arrival
  <2>2. CASE Dropped(m)
    BY <2>2, QuietStep DEF Dropped
  <2>3. CASE Request(m)
    BY <2>3, QuietStep DEF Request, Arrives
  <2>4. CASE EchoReply(m)
    BY <2>4, QuietStep DEF EchoReply, Arrives
  <2> QED BY <2>1, <2>2, <2>3, <2>4, HeartbeatStep, DeviceInfoReplyStep, NeighborTableReplyStep,
             ResourceTableReplyStep, SystemTimeStep
<1>2. CASE Call
  BY <1>2, OtherCallsStep, RequestNeighborTableStep, RequestResourceTableStep, AddResourceStep,
     PingStep DEF Call
<1>3. CASE Tick
  BY <1>3, TickStep
<1>4. CASE Timer
  BY <1>4, TimerStep
<1>5. CASE Advance
  BY <1>5, AdvanceStep
<1>6. CASE UNCHANGED vars
  <2>1. UNCHANGED <<tables, requests, others, time, mix, inputs, silence, asked>>
    BY <1>6 DEF vars
  <2>2. Placed' /\ LeaseInv' /\ AskedInv'
    BY <2>1, PlacedSame, LeaseSame, AskedSame DEF Inv, tables, requests
  <2>3. Typed'
    BY <2>1 DEF Inv, Typed, TypeOK, tables, requests, others, time, RtcTime
  <2> QED BY <2>2, <2>3 DEF Inv
<1> QED BY <1>1, <1>2, <1>3, <1>4, <1>5, <1>6 DEF Next

\* The invariant, of every state.
LEMMA InvAlways == Spec => []Inv
<1> QED BY InvInit, InvStep, PTL DEF Spec

\* Whatever arrives, every list stays within its array and every field within
\* its range: NeighborTable, InfoCache and the request lists never overflow.
THEOREM TypeCorrect == Spec => []TypeOK
<1>1. Inv => TypeOK
  BY DEF Inv, Typed
<1> QED BY <1>1, InvAlways, PTL

\* on_heartbeat keeps one neighbour to a port, and one entry to a neighbour that
\* has an id, however many ports and ids there are and however nodes move.
THEOREM PortsHaveOne == Spec => []OnePerPort
<1>1. Inv => OnePerPort
  BY DEF Inv, Placed
<1> QED BY <1>1, InvAlways, PTL

\* DEVICE_INFO_REPLY and the eviction in HEARTBEAT keep the cache to what is in
\* the table, once each.
THEOREM CacheMatches == Spec => []CacheIsNeighbours
<1>1. Inv => CacheIsNeighbours
  BY DEF Inv, Placed
<1> QED BY <1>1, InvAlways, PTL

\* check takes a neighbour offline after its lease and no later than the tick
\* after it, for every lease, period and lateness that fit half the clock.
THEOREM LeaseKept == Spec => []LeaseIsKept
<1>1. Inv => LeaseIsKept
  <2> SUFFICES ASSUME Inv, NEW i \in DOMAIN neighbors, Measured(neighbors[i])
               PROVE  LET n == neighbors[i] IN
                      /\ n.online =>
                           silence[n.node_id] <= Lease(n) + HEARTBEAT_PERIOD_MS + Late
                      /\ ~n.online /\ n.node_id # 0 => silence[n.node_id] >= Lease(n)
    BY DEF LeaseIsKept, Measured, Lease
  <2> DEFINE n == neighbors[i]
  <2>1. PICK e \in Nat : HeardAgo(n, e)
    BY DEF Inv, LeaseInv
  <2>2. Lease(n) \in Nat /\ n.node_id \in Id
    BY TypeFacts, NeighborFields DEF Inv
  <2>3. /\ HEARTBEAT_PERIOD_MS \in Nat /\ Late \in Nat /\ MaxSilence \in Nat
        /\ tick_in \in -Late..HEARTBEAT_PERIOD_MS
    BY DiscoveryAssumption DEF Inv, Typed, TypeOK
  <2>4. silence[n.node_id] \in 0..MaxSilence
    BY <2>2 DEF Inv, Typed
  <2>5. CASE n.online
    BY <2>1, <2>2, <2>3, <2>4, <2>5 DEF HeardAgo
  <2>6. CASE ~n.online
    BY <2>1, <2>2, <2>3, <2>4, <2>6 DEF HeardAgo, Measured
  <2> QED BY <2>5, <2>6
<1> QED BY <1>1, InvAlways, PTL

\* TableRequests: the one request is reported once at most and timed out once
\* at most, in its time and not after an answer, for every timeout and lateness
\* that fit half the clock.
THEOREM RequestResolves == Spec => []TableRequestResolves
<1>1. Inv => TableRequestResolves
  <2> SUFFICES ASSUME Inv PROVE TableRequestResolves
    OBVIOUS
  <2>1. NEIGHBOR_REQUEST_TIMEOUT_MS \in Nat /\ Late \in Nat
    BY DiscoveryAssumption
  <2> QED BY <2>1, AskedFacts DEF Inv, AskedInv, TableRequestResolves
<1> QED BY <1>1, InvAlways, PTL

\* HeartbeatOutcome::table_full: "With eviction by port, a table of at least one
\* entry per port never reaches this", for nodes with no id too.
THEOREM AlwaysRoom ==
  Spec => [](\A m \in mix.inputs : m.type = "HEARTBEAT" => ~TableFull(m))
<1>1. ASSUME Inv, NEW m \in mix.inputs, m.type = "HEARTBEAT", TableFull(m)
      PROVE  FALSE
  <2> DEFINE q == Cleared(m)
             free == Port \ {m.port}
             f == [a \in 1..NEIGHBORS |-> q[a].port]
  <2>1. m.port \in Port
    BY <1>1, InputFacts DEF WellFormed, Inv
  <2>2. Room(q, m) /\ Len(q) = NEIGHBORS
    BY <1>1, ClearedFacts DEF TableFull, Inv
  <2>3. /\ IsFiniteSet(Port) /\ Cardinality(Port) <= NEIGHBORS /\ NEIGHBORS \in Nat
    BY DiscoveryAssumption
  <2>4. /\ IsFiniteSet(free) /\ Cardinality(free) = Cardinality(Port) - 1
        /\ Cardinality(Port) \in Nat
    BY <2>1, <2>3, FS_RemoveElement, FS_CardinalityType
  <2>5. IsFiniteSet(1..NEIGHBORS) /\ Cardinality(1..NEIGHBORS) = NEIGHBORS
    BY <2>3, FS_Interval
  <2> HIDE DEF q, free
  <2>6. DOMAIN q = 1..NEIGHBORS
    BY <2>2 DEF Room
  <2>7. ASSUME NEW a \in 1..NEIGHBORS
        PROVE  q[a].port \in free
    <3>1. PICK b \in DOMAIN neighbors : q[a] = neighbors[b]
      BY <2>2, <2>6 DEF Room
    <3>2. q[a].port \in Port
      <4>1. neighbors[b] \in Neighbor
        BY <1>1, TypeFacts DEF Inv
      <4>2. neighbors[b].port \in Port
        BY <4>1, NeighborFields
      <4> QED BY <3>1, <4>2
    <3>3. q[a].port # m.port
      BY <2>2, <2>6 DEF Room
    <3> QED BY <3>2, <3>3 DEF free
  <2>8. f \in [1..NEIGHBORS -> free]
    BY <2>7
  <2>9. PICK a, b \in 1..NEIGHBORS : a # b /\ f[a] = f[b]
    <3> HIDE DEF f
    <3>1. Cardinality(free) < Cardinality(1..NEIGHBORS)
      BY <2>3, <2>4, <2>5
    <3> QED BY <2>4, <2>5, <2>8, <3>1, FS_PigeonHole
  <2>10. q[a].port = q[b].port
    BY <2>9
  <2> QED BY <2>2, <2>6, <2>9, <2>10 DEF Room, PortsDiffer
<1>2. Inv => \A m \in mix.inputs : m.type = "HEARTBEAT" => ~TableFull(m)
  BY <1>1
<1> QED BY <1>2, InvAlways, PTL
=============================================================================
