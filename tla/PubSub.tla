------------------------------- MODULE PubSub -------------------------------
(***************************************************************************)
(* The lists behind publish and subscribe and the services on top of them: *)
(* subscriptions (bm-wire pubsub.rs), the service table                    *)
(* (service/table.rs), the requests waiting for a reply                    *)
(* (service/request.rs) and the power-info callbacks                       *)
(* (service/power_info.rs), as operators on the lists.                     *)
(*                                                                         *)
(* A topic is a name and a suffix.  A definition marked "slip" is a        *)
(* plausible mistake in the one after it; nothing uses it.                 *)
(***************************************************************************)
EXTENDS Lists, Clocks

CONSTANTS
  CALLBACKS, SUBSCRIPTIONS,       \* subscribers of a topic, topics
  SERVICES, SERVICE_REQUESTS,     \* services listed, requests waiting
  RESOURCES,                      \* topics a node advertises
  Wildcards,                      \* the pairs (topic, pattern) that match and differ
  Prefixes,                       \* the pairs of service names (a, b), a a prefix of b
  IdWrap,                         \* 2^32: the range of request ids
  MS,                             \* 1000: milliseconds per second
  EXPIRY_PERIOD_MS

ASSUME PubSubAssumption ==
  /\ CALLBACKS \in Nat \ {0} /\ SUBSCRIPTIONS \in Nat /\ SERVICES \in Nat
  /\ SERVICE_REQUESTS \in Nat /\ RESOURCES \in Nat
  /\ IdWrap \in Nat \ {0} /\ MS \in Nat
  /\ EXPIRY_PERIOD_MS \in Nat \ {0} /\ 2 * EXPIRY_PERIOD_MS < ClockWrap

Subscriber == {"Application", "Service", "Reply"}
\* Subscriptions, ServiceTable and Requests, as arrays in use up to a length.
IsSubscriptions(subs) ==
  /\ Len(subs) <= SUBSCRIPTIONS
  /\ \A i \in DOMAIN subs : /\ DOMAIN subs[i] = {"topic", "callbacks"}
                            /\ subs[i].callbacks \in Seq(Subscriber)
                            /\ Len(subs[i].callbacks) \in 1..CALLBACKS
  /\ \A i, j \in DOMAIN subs : subs[i].topic = subs[j].topic => i = j
Handler == {"Echo", "SysInfo", "ConfigMap", "PowerInfo", "Metrics", "Application"}
IsServiceTable(table) ==
  Len(table) <= SERVICES /\ \A i \in DOMAIN table : table[i].handler \in Handler
IsRequests(requests) ==
  /\ Len(requests) <= SERVICE_REQUESTS
  /\ \A i \in DOMAIN requests : /\ requests[i].id \in 0..IdWrap - 1
                                /\ {requests[i].start_ms, requests[i].timeout_ms} \subseteq Clock

\* A service's name: a node and what it calls it, or no node.
ServiceName(n, suffix) == <<n, suffix>>
PowerService == <<0, "bus_power_controller/timing">>
Req(s) == <<s, "/req">>
Rep(s) == <<s, "/rep">>
\* bm_wildcard_match, the publication's topic first.
Matches(topic, pattern) == topic = pattern \/ <<topic, pattern>> \in Wildcards

------------------------------------------------------------------------------
(* SubscriptionsView. *)

Position(subs, topic) == {i \in DOMAIN subs : subs[i].topic = topic}

\* Only the first subscriber of a topic is compared with the new one.
SubscribeRefused(subs, topic, who) ==
  IF Position(subs, topic) = {} THEN Len(subs) = SUBSCRIPTIONS
  ELSE LET held == subs[First(Position(subs, topic))].callbacks
       IN  held[1] # who /\ Len(held) = CALLBACKS
Subscribed(subs, topic, who) ==
  IF Position(subs, topic) = {}
  THEN AppendUpTo(subs, SUBSCRIPTIONS, [topic |-> topic, callbacks |-> <<who>>])
  ELSE LET i == First(Position(subs, topic))
           held == subs[i].callbacks
       IN  [subs EXCEPT ![i].callbacks =
              IF held[1] = who THEN held ELSE AppendUpTo(held, CALLBACKS, who)]

Callback(subs, topic, who) ==
  {c \in Position(subs, topic) \X (1..CALLBACKS) :
     c[2] <= Len(subs[c[1]].callbacks) /\ subs[c[1]].callbacks[c[2]] = who}
\* The first callback of that kind, and the topic with its last one.
Unsubscribed(subs, topic, who) ==
  LET i == First(Position(subs, topic))
      left == WithoutFirst(subs[i].callbacks, {c[2] : c \in Callback(subs, topic, who)})
  IN  IF left = <<>> THEN Without(subs, i) ELSE [subs EXCEPT ![i].callbacks = left]

\* matching_callbacks: the subscribers a publication meets, by subscription.
Met(subs, topic, who) ==
  {c \in (DOMAIN subs) \X (1..CALLBACKS) :
     /\ Matches(topic, subs[c[1]].topic)
     /\ c[2] <= Len(subs[c[1]].callbacks) /\ subs[c[1]].callbacks[c[2]] = who}

------------------------------------------------------------------------------
(* ServiceTable. *)

ServiceAdded(table, name, handler) ==
  AppendUpTo(table, SERVICES, [name |-> name, handler |-> handler])
\* remove: the first service whose name starts with the one given.
Listed(table, name) == {i \in DOMAIN table : <<name, table[i].name>> \in Prefixes}
\* lookup: the first service whose name starts the topic; when its name is not
\* the rest of the topic, no other is looked at.
StartsTopic(table, topic) == {i \in DOMAIN table : <<table[i].name, topic[1]>> \in Prefixes}
Lookup(table, topic, data) ==
  LET i == First(StartsTopic(table, topic))
  IN  IF StartsTopic(table, topic) = {} \/ ~data.whole \/ topic # Req(table[i].name)
      THEN {} ELSE {table[i]}

------------------------------------------------------------------------------
(* Requests and Callbacks. *)

RequestAdded(requests, service, id, timeout_s, now, no) ==
  Append(requests, [service |-> service, id |-> id, start_ms |-> now,
                    timeout_ms |-> (timeout_s * MS) % ClockWrap, no |-> no])
\* take: by the id alone.
AnyWaiting(requests, id) == DOMAIN requests  \* slip
WithId(requests, id) == {i \in DOMAIN requests : requests[i].id = id}

ExpiredAt(r, now) == TimeRemaining(r.start_ms, now, r.timeout_ms) = 0
SweepDue(next, now) == 2 * ((now - next) % ClockWrap) < ClockWrap
\* The next sweep, on the grid of whole periods.
NextSweep(next, now) ==
  LET missed == ((now - next) % ClockWrap) \div EXPIRY_PERIOD_MS
  IN  (next + EXPIRY_PERIOD_MS * (missed + 1)) % ClockWrap

\* Callbacks::push and on_end: a request that ends takes the oldest callback,
\* and its own place among those waiting.
Pushed(power, id) ==
  [queue |-> AppendUpTo(power.queue, SERVICE_REQUESTS, id),
   waiting |-> AppendUpTo(power.waiting, SERVICE_REQUESTS, id)]
Waits(power, id) == {i \in DOMAIN power.waiting : power.waiting[i] = id}
EndedKeepsWaiting(power, id) ==  \* slip
  IF Waits(power, id) = {} THEN power ELSE [power EXCEPT !.queue = Tail(@)]
EndedFor(power, id) ==
  IF Waits(power, id) = {} THEN power
  ELSE [queue |-> Tail(power.queue), waiting |-> WithoutFirst(power.waiting, Waits(power, id))]
=============================================================================
