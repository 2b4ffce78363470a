----------------------------- MODULE Discovery -----------------------------
(***************************************************************************)
(* What one node knows of the others: the neighbour table heartbeats fill  *)
(* (bm-wire neighbor.rs), device info asked for and cached (bcmp/info.rs), *)
(* the one neighbour-table request (bcmp/neighbors.rs), the resource lists *)
(* (bcmp/resource.rs), the one ping (bcmp/ping.rs) and the clock that the  *)
(* time messages set (bcmp/time.rs), with the handlers and calls of        *)
(* bm-stack's node.rs and node/bcmp.rs that join them.                     *)
(*                                                                         *)
(* An arrival is one frame that reached Node::submit, a call one call of   *)
(* the application; owed is what the step gave its caller: the frame to    *)
(* send, the message to flood again and the events.  The messages are      *)
(* those of PacketCfg::UNSEQUENCED types, so the registry only decides     *)
(* whether a type is known.  Time is the wrapping millisecond counter.     *)
(*                                                                         *)
(* A definition marked "slip" is a plausible mistake in the one after it;  *)
(* nothing uses it.                                                        *)
(***************************************************************************)
EXTENDS Lists, Clocks, FiniteSets

CONSTANTS
  Me, Id,                  \* this node, and the ids frames carry (0 is one)
  Port,
  KeyWrap,                 \* 2^32: a list key is an id modulo this
  Boots, Periods,          \* what heartbeats carry: uptime and lease
  MS,                      \* 1000: milliseconds per second
  HEARTBEAT_PERIOD_MS, NEIGHBOR_REQUEST_TIMEOUT_MS,
  Late,                    \* how long a due timer may wait for the loop
  NEIGHBORS, INFO_REQUESTS, RESOURCES, RESOURCE_REQUESTS,  \* capacities
  ReplyFits,               \* how many resource names a frame has room for
  PING_PAYLOAD,            \* the longest payload of a ping
  Names, Prefixes,         \* resource names; the pairs (a, b), a a prefix of b
  TimeUnit,                \* 1000: what the RTC rounds microseconds down to
  HasRtc,
  MessageType,
  Mixes,                   \* the traffic: inputs, a bound on their number, and when
  MaxSilence               \* bound: silences longer than this are not told apart

Key(id) == id % KeyWrap
Nothing == [type |-> "nothing"]
Never == -1
Unknown == -1

Kind == {"Cache", "Report", "Ignore"}
\* What a frame or a call carries, as far as it is read.
WellFormed(m) ==
  /\ m.type = "HEARTBEAT" =>
       m.source \in Id /\ m.port \in Port /\ m.boot \in Boots /\ m.lease \in Periods
  /\ m.type = "DEVICE_INFO_REPLY" => m.claim \in Id /\ m.name \in STRING
  /\ m.type = "SYSTEM_TIME_SET" => m.utc \in Nat \cup {Unknown}
  /\ m.type \in {"request_device_info", "request_neighbor_table", "request_resource_table"} =>
       m.target \in Id /\ m.kind \in Kind
  /\ m.type = "add_resource" => m.name \in Names /\ m.kind \in {"Publisher", "Subscriber"}
  /\ m.type = "ping" => m.payload \in Seq(STRING)
  /\ m.type = "register" => m.message_type \in MessageType
  /\ m.type = "set_link_up" => m.port \in Port

ASSUME DiscoveryAssumption ==
  /\ Id \subseteq Nat /\ 0 \in Id /\ Me \in Id \ {0} /\ Port \subseteq Nat /\ IsFiniteSet(Port)
  /\ KeyWrap \in Nat \ {0}
  /\ Boots \subseteq Nat /\ Periods \subseteq Nat /\ MS \in Nat
  /\ HEARTBEAT_PERIOD_MS \in Nat \ {0} /\ NEIGHBOR_REQUEST_TIMEOUT_MS \in Nat /\ Late \in Nat
  /\ 2 * (NEIGHBOR_REQUEST_TIMEOUT_MS + Late + 1) < ClockWrap
  /\ NEIGHBORS \in Nat /\ Cardinality(Port) <= NEIGHBORS
  /\ INFO_REQUESTS \in Nat /\ RESOURCES \in Nat /\ RESOURCE_REQUESTS \in Nat
  /\ ReplyFits \in Nat /\ PING_PAYLOAD \in Nat /\ Prefixes \subseteq Names \X Names
  /\ TimeUnit \in Nat \ {0} /\ HasRtc \in BOOLEAN
  /\ MaxSilence \in Nat /\ \A x \in Mixes : x.max \in Nat /\ \A m \in x.inputs : WellFormed(m)

VARIABLES
  neighbors,           \* NeighborTable
  info_requests,       \* InfoRequests
  info,                \* InfoCache
  table_requests,      \* TableRequests
  resources,           \* ResourceTable
  resource_requests,   \* ResourceRequests
  ping,                \* PingState
  rtc,
  registered,          \* the message types in the registry
  link_mask,           \* the ports whose link is up
  now,
  tick_in,             \* when the heartbeat ticker is next due, from now
  owed,
  mix, inputs,
  silence,             \* history: time since each id's last heartbeat
  asked                \* history: what became of the neighbour-table request

tables == <<neighbors, info>>
requests == <<info_requests, table_requests, resources, resource_requests>>
others == <<ping, rtc, registered, link_mask>>
time == <<now, tick_in>>
vars == <<tables, requests, others, time, owed, mix, inputs, silence, asked>>

Neighbor == [node_id : Id, port : Port, last_heartbeat_ms : Clock,
             last_time_since_boot_us : Boots \cup {0}, heartbeat_period_s : Periods \cup {0},
             online : BOOLEAN]
\* The lists, each an array and how many of its entries are in use.
UpTo(n, S) == {q \in Seq(S) : Len(q) <= n}
NeighborTable == UpTo(NEIGHBORS, Neighbor)
InfoRequests == UpTo(INFO_REQUESTS, [key : 0..KeyWrap - 1, kind : Kind])
InfoCache == UpTo(NEIGHBORS, [node_id : Id, name : STRING])
TableRequests == [target : Id, armed : BOOLEAN, started : Clock \cup {Never}]
ResourceTable == UpTo(RESOURCES, [name : Names, kind : {"Publisher", "Subscriber"}])
ResourceRequests == UpTo(RESOURCE_REQUESTS, [key : 0..KeyWrap - 1, kind : Kind])
PingState == [seq : Clock, sent_at_ms : Clock, expected : UpTo(PING_PAYLOAD, STRING)]
\* RtcTimeAndDate: set to the unit, and unknown before.
RtcTime(t) == t = Unknown \/ t % TimeUnit = 0

------------------------------------------------------------------------------
Owe(reply, events) == owed' = [reply |-> reply, forward |-> FALSE, events |-> events]
OweNothing == Owe(Nothing, <<>>)

\* Node::request and Node::send of an unsequenced type: registered or not sent.
Sent(type, target) ==
  IF type \in registered THEN [type |-> type, target |-> target] ELSE Nothing
Message(m) == [event |-> "Message", type |-> m.type]
OnlyMessage(m) == Owe(Nothing, <<Message(m)>>)

AddressedToUs(target) == target = 0 \/ target = Me

------------------------------------------------------------------------------
(* NeighborTable. *)

At(id) == IF id = 0 THEN {} ELSE {i \in DOMAIN neighbors : neighbors[i].node_id = id}
Known(id) == At(id) # {}
\* Neighbor::lease_ms, in 32 bits.
LeaseMs(n) == (n.heartbeat_period_s * 2 * MS) % ClockWrap
NobodyOnPort(p) == {}  \* slip
OnPort(p) == {i \in DOMAIN neighbors : neighbors[i].port = p}

\* The table on_heartbeat makes room in, and the ids it evicted.
Evicted(m) == IF Known(m.source) \/ OnPort(m.port) = {} THEN {}
              ELSE {neighbors[First(OnPort(m.port))].node_id}
Cleared(m) == IF Known(m.source) THEN neighbors ELSE WithoutFirst(neighbors, OnPort(m.port))
TableFull(m) == ~Known(m.source) /\ Len(Cleared(m)) = NEIGHBORS
Restarted(m) ==
  /\ Known(m.source)
  /\ m.boot < neighbors[First(At(m.source))].last_time_since_boot_us
Heard(m, port) ==
  [node_id |-> m.source, port |-> port, last_heartbeat_ms |-> now,
   last_time_since_boot_us |-> m.boot, heartbeat_period_s |-> m.lease, online |-> TRUE]
\* A known neighbour keeps the port it was first heard on.
OnHeartbeat(m) ==
  IF Known(m.source)
  THEN LET i == First(At(m.source))
       IN  [neighbors EXCEPT ![i] = Heard(m, neighbors[i].port)]
  ELSE AppendUpTo(Cleared(m), NEIGHBORS, Heard(m, m.port))

\* NeighborTableView::check.
LeaseJustOver(n) ==  \* slip
  n.online /\ now = (n.last_heartbeat_ms + LeaseMs(n)) % ClockWrap
LeaseOver(n) == n.online /\ TimeRemaining(n.last_heartbeat_ms, now, LeaseMs(n)) = 0
Check ==
  [i \in DOMAIN neighbors |->
     IF LeaseOver(neighbors[i]) THEN [neighbors[i] EXCEPT !.online = FALSE] ELSE neighbors[i]]

------------------------------------------------------------------------------
(* InfoRequests and InfoCache. *)

AskedFor(list, id) == {i \in DOMAIN list : list[i].key = Key(id)}
Recorded(list, cap, id, kind) == AppendUpTo(list, cap, [key |-> Key(id), kind |-> kind])
Cached(id) == {i \in DOMAIN info : info[i].node_id = id}
ForgetNothing(ids) == info  \* slip
Forget(ids) == WithoutFirst(info, UNION {Cached(id) : id \in ids})
\* A string that came empty leaves the one that is there.
Store(m) ==
  IF Cached(m.claim) = {}
  THEN AppendUpTo(info, NEIGHBORS, [node_id |-> m.claim, name |-> m.name])
  ELSE LET i == First(Cached(m.claim))
       IN  [info EXCEPT ![i].name = IF m.name = "" THEN @ ELSE m.name]

\* request_device_info: recorded first; when the type is unknown the first
\* request of the same key is dropped instead, not necessarily this one.
RequestDeviceInfo(target, kind) ==
  LET recorded == Recorded(info_requests, INFO_REQUESTS, target, kind)
  IN  info_requests' =
        IF "DEVICE_INFO_REQUEST" \in registered \/ Len(info_requests) = INFO_REQUESTS
        THEN recorded ELSE WithoutFirst(recorded, AskedFor(recorded, target))

------------------------------------------------------------------------------
(* What arrives: the arms of Node::submit.                                 *)

Arrives(type, m) ==
  /\ inputs < mix.max /\ now \in mix.at /\ inputs' = inputs + 1
  /\ m \in mix.inputs /\ m.type = type
  /\ type \in registered
\* A type not registered, or a body too short to read.
Dropped(m) ==
  /\ inputs < mix.max /\ now \in mix.at /\ inputs' = inputs + 1
  /\ m \in mix.inputs /\ m.type \in MessageType
  /\ \/ m.type \notin registered /\ OweNothing
     \/ m.type \in registered /\ ~m.whole /\ OnlyMessage(m)
  /\ UNCHANGED <<tables, requests, others, time, mix, silence, asked>>

Heartbeat(m) ==
  /\ Arrives("HEARTBEAT", m) /\ m.whole
  /\ neighbors' = OnHeartbeat(m)
  /\ info' = Forget(Evicted(m))
  /\ silence' = IF TableFull(m) THEN silence ELSE [silence EXCEPT ![m.source] = 0]
  /\ LET target == IF Restarted(m) /\ Cached(m.source) = {} THEN 0 ELSE m.source
     IN  IF TableFull(m) \/ (Known(m.source) /\ ~Restarted(m))
         THEN OnlyMessage(m) /\ UNCHANGED info_requests
         ELSE /\ RequestDeviceInfo(target, "Cache")
              /\ Owe(Sent("DEVICE_INFO_REQUEST", target), <<Message(m)>>)
  /\ UNCHANGED <<table_requests, resources, resource_requests, others, time, mix, asked>>

\* The four requests a node answers about itself; a resource request names
\* the node exactly, the others may name none.
ReplyTo == [DEVICE_INFO_REQUEST |-> "DEVICE_INFO_REPLY",
            NEIGHBOR_TABLE_REQUEST |-> "NEIGHBOR_TABLE_REPLY",
            RESOURCE_TABLE_REQUEST |-> "RESOURCE_TABLE_REPLY",
            ECHO_REQUEST |-> "ECHO_REPLY"]
DeviceInfoBody == <<>>   \* of this node, which does not change
NeighborTableBody ==
  <<link_mask, [i \in DOMAIN neighbors |->
                  <<neighbors[i].node_id, neighbors[i].port, neighbors[i].online>>]>>
\* Publishers first.
ResourceTableBody ==
  SelectSeq(resources, LAMBDA r : r.kind = "Publisher")
    \o SelectSeq(resources, LAMBDA r : r.kind = "Subscriber")
EchoBody(m) == m.payload
AnswerFor(m) ==
  [type |-> ReplyTo[m.type], claim |-> Me, target |-> 0,
   body |-> CASE m.type = "DEVICE_INFO_REQUEST" -> DeviceInfoBody
              [] m.type = "NEIGHBOR_TABLE_REQUEST" -> NeighborTableBody
              [] m.type = "RESOURCE_TABLE_REQUEST" -> ResourceTableBody
              [] m.type = "ECHO_REQUEST" -> EchoBody(m)]
Request(m) ==
  /\ \E t \in DOMAIN ReplyTo : Arrives(t, m)
  /\ m.whole
  /\ LET mine == IF m.type = "RESOURCE_TABLE_REQUEST" THEN m.target = Me
                 ELSE AddressedToUs(m.target)
         fits == m.type = "RESOURCE_TABLE_REQUEST" => Len(resources) <= ReplyFits
     IN  Owe(IF mine /\ fits /\ ReplyTo[m.type] \in registered THEN AnswerFor(m) ELSE Nothing,
             <<Message(m)>>)
  /\ UNCHANGED <<tables, requests, others, time, mix, silence, asked>>

DeviceInfoReply(m) ==
  /\ Arrives("DEVICE_INFO_REPLY", m) /\ m.whole
  /\ LET found == AskedFor(info_requests, m.claim)
         kind == IF found = {} THEN "Ignore" ELSE info_requests[First(found)].kind
     IN  /\ info_requests' = WithoutFirst(info_requests, found)
         /\ info' = IF kind = "Cache" /\ Known(m.claim) THEN Store(m) ELSE info
         /\ Owe(Nothing, IF kind = "Report"
                         THEN <<Message(m), [event |-> "DeviceInfo", claim |-> m.claim]>>
                         ELSE <<Message(m)>>)
  /\ UNCHANGED <<neighbors, table_requests, resources, resource_requests, others, time, mix,
                 silence, asked>>

\* TableRequests::accept: on the id the body claims.
Accepted(m) == m.claim = table_requests.target
Accept == table_requests' = [table_requests EXCEPT !.started = Never, !.armed = FALSE]
NeighborTableReply(m) ==
  /\ Arrives("NEIGHBOR_TABLE_REPLY", m) /\ m.whole
  /\ IF ~Accepted(m)
     THEN OnlyMessage(m) /\ UNCHANGED <<table_requests, asked>>
     ELSE /\ Accept
          /\ Owe(Nothing, IF table_requests.armed
                          THEN <<Message(m), [event |-> "NeighborTable"]>> ELSE <<Message(m)>>)
          /\ asked' = [asked EXCEPT !.answered = TRUE,
                                    !.reports = @ + (IF table_requests.armed THEN 1 ELSE 0)]
  /\ UNCHANGED <<tables, info_requests, resources, resource_requests, others, time, mix, silence>>

\* ResourceRequests::accept: the claim must be the sender's own.
ResourceTableReply(m) ==
  /\ Arrives("RESOURCE_TABLE_REPLY", m) /\ m.whole
  /\ LET found == IF m.claim # m.source THEN {} ELSE AskedFor(resource_requests, m.source)
     IN  /\ resource_requests' = WithoutFirst(resource_requests, found)
         /\ Owe(Nothing, IF found # {} /\ resource_requests[First(found)].kind = "Report"
                         THEN <<Message(m), [event |-> "ResourceTable"]>> ELSE <<Message(m)>>)
  /\ UNCHANGED <<tables, info_requests, table_requests, resources, others, time, mix, silence,
                 asked>>

\* EchoReply::answers: neither the number nor the sender is looked at.
Answers(m) == m.id = Me /\ m.payload = ping.expected
EchoReply(m) ==
  /\ Arrives("ECHO_REPLY", m) /\ m.whole
  /\ Owe(Nothing, IF Answers(m)
                  THEN <<Message(m), [event |-> "EchoReply",
                                      round_trip_ms |-> (now - ping.sent_at_ms) % ClockWrap]>>
                  ELSE <<Message(m)>>)
  /\ UNCHANGED <<tables, requests, others, time, mix, silence, asked>>

\* The three time messages: another node's is flooded again, one for this
\* node or for all is processed, and only a set or an exact request answered.
SystemTime(m) ==
  /\ \E t \in {"SYSTEM_TIME_REQUEST", "SYSTEM_TIME_RESPONSE", "SYSTEM_TIME_SET"} : Arrives(t, m)
  /\ m.whole
  /\ LET response(utc) == IF "SYSTEM_TIME_RESPONSE" \notin registered THEN Nothing
                          ELSE [type |-> "SYSTEM_TIME_RESPONSE", target |-> m.from, utc |-> utc]
         settable == /\ m.type = "SYSTEM_TIME_SET" /\ AddressedToUs(m.target)
                     /\ m.utc # Unknown /\ HasRtc
         readable == m.type = "SYSTEM_TIME_REQUEST" /\ m.target = Me /\ rtc # Unknown
     IN  /\ rtc' = IF settable THEN m.utc - (m.utc % TimeUnit) ELSE rtc
         /\ owed' = [reply |-> CASE settable -> response(m.utc)
                                 [] readable -> response(rtc)
                                 [] OTHER -> Nothing,
                     forward |-> ~AddressedToUs(m.target),
                     events |-> <<Message(m)>>]
  /\ UNCHANGED <<tables, requests, ping, registered, link_mask, time, mix, silence, asked>>

------------------------------------------------------------------------------
(* What the application calls. *)

Calls(name, c) ==
  /\ inputs < mix.max /\ now \in mix.at /\ inputs' = inputs + 1
  /\ c \in mix.inputs /\ c.type = name

CallRequestDeviceInfo(c) ==
  /\ Calls("request_device_info", c)
  /\ RequestDeviceInfo(c.target, c.kind)
  /\ Owe(Sent("DEVICE_INFO_REQUEST", c.target), <<>>)
  /\ UNCHANGED <<tables, table_requests, resources, resource_requests, others, time, mix,
                 silence, asked>>

\* TableRequests::record, kept even when nothing can be sent.
RequestNeighborTable(c) ==
  /\ Calls("request_neighbor_table", c)
  /\ table_requests' = [target |-> c.target, armed |-> c.kind = "Report", started |-> now]
  /\ asked' = [open |-> TRUE, report |-> c.kind = "Report", answered |-> FALSE, since |-> 0,
               reports |-> 0, timeouts |-> 0, early |-> FALSE]
  /\ Owe(Sent("NEIGHBOR_TABLE_REQUEST", c.target), <<>>)
  /\ UNCHANGED <<tables, info_requests, resources, resource_requests, others, time, mix, silence>>

RequestResourceTable(c) ==
  /\ Calls("request_resource_table", c)
  /\ resource_requests' =
       IF "RESOURCE_TABLE_REQUEST" \in registered
       THEN Recorded(resource_requests, RESOURCE_REQUESTS, c.target, c.kind)
       ELSE resource_requests
  /\ Owe(Sent("RESOURCE_TABLE_REQUEST", c.target), <<>>)
  /\ UNCHANGED <<tables, info_requests, table_requests, resources, others, time, mix, silence,
                 asked>>

\* ResourceTable::add: refused when the name is a prefix of one that is there.
Found(name, kind) ==
  \E i \in DOMAIN resources :
    resources[i].kind = kind /\ <<name, resources[i].name>> \in Prefixes
AddResource(c) ==
  /\ Calls("add_resource", c)
  /\ resources' = IF Found(c.name, c.kind) THEN resources
                  ELSE AppendUpTo(resources, RESOURCES, [name |-> c.name, kind |-> c.kind])
  /\ OweNothing
  /\ UNCHANGED <<tables, info_requests, table_requests, resource_requests, others, time, mix,
                 silence, asked>>

Ping(c) ==
  /\ Calls("ping", c)
  /\ IF Len(c.payload) > PING_PAYLOAD
     THEN OweNothing /\ UNCHANGED ping
     ELSE /\ ping' = [seq |-> (ping.seq + 1) % ClockWrap, sent_at_ms |-> now,
                      expected |-> c.payload]
          /\ Owe(Sent("ECHO_REQUEST", c.target), <<>>)
  /\ UNCHANGED <<tables, requests, rtc, registered, link_mask, time, mix, silence, asked>>

\* request_system_time and set_system_time.
CallTime(c) ==
  /\ \E t \in {"request_system_time", "set_system_time"} : Calls(t, c)
  /\ Owe(Sent(IF c.type = "set_system_time" THEN "SYSTEM_TIME_SET" ELSE "SYSTEM_TIME_REQUEST",
              c.target), <<>>)
  /\ UNCHANGED <<tables, requests, others, time, mix, silence, asked>>

\* Node::register and Node::unregister; Node::set_link_up.
Unregister(c) ==
  /\ Calls("unregister", c)
  /\ registered' = registered \ {c.message_type}
  /\ OweNothing
  /\ UNCHANGED <<tables, requests, ping, rtc, link_mask, time, mix, silence, asked>>
Register(c) ==
  /\ Calls("register", c)
  /\ registered' = registered \cup {c.message_type}
  /\ OweNothing
  /\ UNCHANGED <<tables, requests, ping, rtc, link_mask, time, mix, silence, asked>>
SetLinkUp(c) ==
  /\ Calls("set_link_up", c)
  /\ link_mask' = IF c.up THEN link_mask \cup {c.port} ELSE link_mask \ {c.port}
  /\ OweNothing
  /\ UNCHANGED <<tables, requests, ping, rtc, registered, time, mix, silence, asked>>

------------------------------------------------------------------------------
(* Time. *)

TimerLeft == IF table_requests.started = Never THEN Never
             ELSE TimeRemaining(table_requests.started, now, NEIGHBOR_REQUEST_TIMEOUT_MS)
\* on_neighbor_request_timer: the callback stays armed.
FiredStaysRunning == table_requests  \* slip
Fired == [table_requests EXCEPT !.started = Never]
OnNeighborRequestTimer ==
  IF TimerLeft # 0
  THEN UNCHANGED <<table_requests, asked>>
  ELSE /\ table_requests' = Fired
       /\ asked' = [asked EXCEPT !.timeouts = @ + 1,
                                 !.early = @ \/ asked.answered
                                             \/ asked.since < NEIGHBOR_REQUEST_TIMEOUT_MS]
TimerEvents == IF TimerLeft = 0 THEN <<[event |-> "NeighborTableTimeout"]>> ELSE <<>>

\* on_tick_with, by the heartbeat ticker, which keeps to its grid.
Tick ==
  /\ tick_in <= 0
  /\ tick_in' = tick_in + HEARTBEAT_PERIOD_MS
  /\ neighbors' = Check
  /\ OnNeighborRequestTimer
  /\ Owe(Sent("HEARTBEAT", 0), TimerEvents)
  /\ UNCHANGED <<info, info_requests, resources, resource_requests, others, now, mix, inputs,
                 silence>>

\* The request's own timer, and the expiry sweep that looks at it too.
Timer ==
  /\ TimerLeft = 0
  /\ OnNeighborRequestTimer
  /\ Owe(Nothing, TimerEvents)
  /\ UNCHANGED <<tables, info_requests, resources, resource_requests, others, time, mix, inputs,
                 silence>>

\* The loop runs what is due within Late.
Advance ==
  /\ tick_in > -Late
  /\ TimerLeft = 0 => asked.since < NEIGHBOR_REQUEST_TIMEOUT_MS + Late
  /\ now' = (now + 1) % ClockWrap
  /\ tick_in' = tick_in - 1
  /\ silence' = [i \in Id |-> IF silence[i] = MaxSilence THEN MaxSilence ELSE silence[i] + 1]
  /\ asked' = [asked EXCEPT !.since = IF @ > NEIGHBOR_REQUEST_TIMEOUT_MS + Late THEN @ ELSE @ + 1]
  /\ OweNothing
  /\ UNCHANGED <<tables, requests, others, mix, inputs>>

------------------------------------------------------------------------------
Init ==
  /\ neighbors = <<>> /\ info_requests = <<>> /\ info = <<>>
  /\ table_requests = [target |-> 0, armed |-> FALSE, started |-> Never]
  /\ resources = <<>> /\ resource_requests = <<>>
  /\ ping = [seq |-> 0, sent_at_ms |-> 0, expected |-> <<>>]
  /\ rtc = Unknown
  /\ registered = MessageType
  /\ link_mask = {}
  /\ now = 0 /\ tick_in = 0
  /\ owed = [reply |-> Nothing, forward |-> FALSE, events |-> <<>>]
  /\ mix \in Mixes /\ inputs = 0
  /\ silence = [i \in Id |-> MaxSilence]
  /\ asked = [open |-> FALSE, report |-> FALSE, answered |-> FALSE, since |-> 0,
              reports |-> 0, timeouts |-> 0, early |-> FALSE]

Arrival ==
  \E m \in mix.inputs :
    \/ Dropped(m) \/ Heartbeat(m) \/ Request(m) \/ DeviceInfoReply(m) \/ NeighborTableReply(m)
    \/ ResourceTableReply(m) \/ EchoReply(m) \/ SystemTime(m)
Call ==
  \E c \in mix.inputs :
    \/ CallRequestDeviceInfo(c) \/ RequestNeighborTable(c) \/ RequestResourceTable(c)
    \/ AddResource(c) \/ Ping(c) \/ CallTime(c) \/ Unregister(c) \/ Register(c) \/ SetLinkUp(c)
Next == Arrival \/ Call \/ Tick \/ Timer \/ Advance

Spec == Init /\ [][Next]_vars
\* Time passes and the loop runs its timers.
FairSpec == Spec /\ WF_vars(Advance) /\ WF_vars(Tick) /\ WF_vars(Timer)

------------------------------------------------------------------------------
\* Every list stays within its array, and every field within its range.
TypeOK ==
  /\ neighbors \in NeighborTable /\ info \in InfoCache /\ info_requests \in InfoRequests
  /\ table_requests \in TableRequests
  /\ resources \in ResourceTable /\ resource_requests \in ResourceRequests
  /\ ping \in PingState /\ RtcTime(rtc)
  /\ registered \subseteq MessageType /\ link_mask \subseteq Port
  /\ now \in Clock /\ tick_in \in -Late..HEARTBEAT_PERIOD_MS
  /\ inputs \in 0..mix.max

\* on_heartbeat, whatever nodes move, restart, take each other's port or have
\* no id: a port has one neighbour and a neighbour one entry, so a table of an
\* entry per port is never full.
OnePerPort ==
  \A i, j \in DOMAIN neighbors :
    i # j => /\ neighbors[i].port # neighbors[j].port
             /\ neighbors[i].node_id = neighbors[j].node_id => neighbors[i].node_id = 0

\* DEVICE_INFO_REPLY and the eviction in HEARTBEAT: what is cached is a
\* neighbour's, once, so the cache, as large as the table, never refuses.
CacheIsNeighbours ==
  /\ \A i \in DOMAIN info : Known(info[i].node_id)
  /\ \A i, j \in DOMAIN info : info[i].node_id = info[j].node_id => i = j

\* check and lease_ms: a neighbour whose lease fits the signed clock is online
\* for as long as the lease since it was last heard, and at most until the
\* tick after it, also when the clock wraps in between.  Nodes with no id are
\* not told apart: one of them may be heard while another's lease runs out.
LeaseIsKept ==
  \A i \in DOMAIN neighbors :
    LET n == neighbors[i]
        lease == n.heartbeat_period_s * 2 * MS
    IN  ( /\ 2 * (lease + HEARTBEAT_PERIOD_MS + Late + 1) < ClockWrap
          /\ lease + HEARTBEAT_PERIOD_MS + Late < MaxSilence ) =>
          /\ n.online => silence[n.node_id] <= lease + HEARTBEAT_PERIOD_MS + Late
          /\ ~n.online /\ n.node_id # 0 => silence[n.node_id] >= lease

\* TableRequests: a request is reported at most once, and only when that was
\* asked; it times out at most once, not before its time nor after an answer;
\* and one that is not answered has timed out once the loop had the time.
TableRequestResolves ==
  /\ asked.reports <= (IF asked.report THEN 1 ELSE 0)
  /\ asked.timeouts <= 1 /\ ~asked.early
  /\ asked.open /\ ~asked.answered /\ asked.since > NEIGHBOR_REQUEST_TIMEOUT_MS + Late =>
       asked.timeouts = 1

\* check on the heartbeat ticker: a neighbour that falls silent is taken
\* offline, also one whose lease wraps in 32 bits.
SilentGoesOffline ==
  \A id \in Id \ {0} :
    []<>(silence[id] = 0)
    \/ <>[](\A i \in DOMAIN neighbors : neighbors[i].node_id = id => ~neighbors[i].online)
=============================================================================
