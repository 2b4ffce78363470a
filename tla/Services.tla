------------------------------ MODULE Services ------------------------------
(***************************************************************************)
(* Nodes on a network of point-to-point links: publications, the services  *)
(* and requests that ride on them, datagrams, and link-local messages that *)
(* nodes pass on.  It composes the lists of PubSub, one set per node, with *)
(* the forwarding of bm-wire l2.rs, l2_policy.rs and bcmp/forward.rs, the  *)
(* calls of bm-stack node/pubsub_api.rs, services.rs and udp_api.rs, and   *)
(* the loop of node/run.rs.                                                *)
(*                                                                         *)
(* A frame in flight carries its scope, the source address and a body:     *)
(* a publication ("pub"), another datagram ("udp"), or a link-local BCMP   *)
(* message addressed in its own header ("bcmp", as the time messages are). *)
(* The links form a tree: the code has no loop detection.                  *)
(*                                                                         *)
(* A definition marked "slip" is a plausible mistake in the one after it;  *)
(* nothing uses it.                                                        *)
(***************************************************************************)
EXTENDS PubSub, FiniteSets

CONSTANTS
  Node, Port,
  Peer,                \* the port at the other end, for each connected port
  Mixes,               \* the traffic: inputs, a bound on their number and when,
                       \* how nodes start, how late their loops may be
  MaxAge               \* bound: ages longer than this are not told apart

Everyone == 0
\* The ports through which frames enter a set of nodes.
Into(S) == {l \in DOMAIN Peer : l[1] \in S /\ Peer[l][1] \notin S}

ASSUME ServicesAssumption ==
  /\ Node \subseteq Nat \ {Everyone} /\ IsFiniteSet(Node) /\ Port \subseteq Nat /\ IsFiniteSet(Port)
  /\ DOMAIN Peer \subseteq Node \X Port
  /\ \A l \in DOMAIN Peer : Peer[l] \in DOMAIN Peer /\ Peer[Peer[l]] = l /\ Peer[l][1] # l[1]
  \* A tree: every part is linked to the rest, and any link is all that joins two parts.
  /\ \A S \in SUBSET Node : S # {} /\ S # Node => Into(S) # {}
  /\ \A l \in DOMAIN Peer : \E S \in SUBSET Node : Into(S) = {l}
  /\ MaxAge \in Nat /\ \A x \in Mixes : \A n \in Node : 2 * (x.late[n] + 1) < ClockWrap

\* What a node and its application can start with: services listed and topics
\* subscribed, no request out, and a loop that is not late.
IsList(q) == q \in Seq({q[i] : i \in DOMAIN q})
NodeFields ==
  {"subs", "table", "requests", "request_count", "next_sweep_ms", "power", "resources", "now", "boots"}
Starting(nd, late) ==
  /\ DOMAIN nd = NodeFields
  /\ IsList(nd.subs) /\ IsSubscriptions(nd.subs) /\ IsList(nd.table) /\ IsServiceTable(nd.table)
  /\ nd.requests = <<>> /\ nd.power = [queue |-> <<>>, waiting |-> <<>>]
  /\ nd.request_count \in 0..IdWrap - 1 /\ nd.boots \in Nat /\ nd.next_sweep_ms \in Clock
  /\ \E d \in -EXPIRY_PERIOD_MS..late : nd.now = (nd.next_sweep_ms + d) % ClockWrap
\* What it can be called with: a datagram to everyone, on the bus or the link,
\* or a message that names its asker and the node it is for.
Sendable(c) ==
  /\ c.scope \in {"global", "link"} /\ c.to \in Nat
  /\ \/ c.body.kind = "udp" /\ c.to = Everyone
     \/ /\ c.body.kind = "bcmp" /\ c.scope = "link"
        /\ c.body.from = c.node /\ c.body.to = c.to /\ c.body.asks \in {"time", "set", "nothing"}
Input(c) ==
  /\ c.node \in Node
  /\ c.type = "register" => c.handler \in Handler
  /\ c.type = "request" => c.timeout_s \in Nat
  /\ c.type = "send" => Sendable(c)

\* Bound: fewer requests are made than there are ids.
ASSUME MixAssumption ==
  \A x \in Mixes :
    /\ x.max \in Nat /\ x.max < IdWrap /\ DOMAIN x.start = Node
    /\ \A c \in x.inputs : Input(c)
    /\ \A n \in Node : x.late[n] \in Nat /\ Starting(x.start[n], x.late[n])

VARIABLES
  node,     \* per node: the lists, the counters, the clock
  net,      \* per port: the frames on their way to it
  mix, inputs,
  floods,   \* history: everything sent, and how often each node processed it
  asked     \* history: the service requests and how each ended

vars == <<node, net, mix, inputs, floods, asked>>

------------------------------------------------------------------------------
(* Sending: transmit, deliver and reflood. *)

Out(n, ports) == {Peer[l] : l \in {l \in DOMAIN Peer : l[1] = n /\ l[2] \in ports}}
Sent(links, n, ports, f) ==
  [l \in DOMAIN links |-> IF l \in Out(n, ports) THEN Append(links[l], f) ELSE links[l]]
\* rx_apply's egress mask and forward::egress_ports: all but where it came in.
AllPorts(ingress) == Port  \* slip
EgressPorts(ingress) == Port \ {ingress}
\* A global multicast is relayed as it came.
Relayed(links, l, f) ==
  IF f.scope = "global" THEN Sent(links, l[1], EgressPorts(l[2]), f) ELSE links

Frame(no, scope, n, body) == [no |-> no, scope |-> scope, src |-> n, body |-> body]
Flood(n, scope, to, re) ==
  [from |-> n, scope |-> scope, to |-> to, re |-> re, got |-> [m \in Node |-> 0], lost |-> FALSE]
GotBy(log, f, n) == [log EXCEPT ![f.no].got[n] = @ + 1]

------------------------------------------------------------------------------
(* What a node does with its lists. *)

\* ResourceTable::add, refused when the topic starts one that is there.
Advertises(nd, topic, kind) ==
  \E i \in DOMAIN nd.resources :
    LET r == nd.resources[i]
    IN  r.kind = kind /\ \/ r.topic = topic
                         \/ topic[2] = "" /\ <<topic[1], r.topic[1]>> \in Prefixes
Advertised(nd, topic, kind) ==
  IF Advertises(nd, topic, kind) THEN nd
  ELSE [nd EXCEPT !.resources = AppendUpTo(@, RESOURCES, [topic |-> topic, kind |-> kind])]

\* Node::subscribe_as: subscribed, and then perhaps not advertised.
SubscribeAs(nd, topic, who) ==
  IF SubscribeRefused(nd.subs, topic, who) THEN nd
  ELSE Advertised([nd EXCEPT !.subs = Subscribed(@, topic, who)], topic, "Subscriber")
SubscribeFails(nd, topic, who) ==
  \/ SubscribeRefused(nd.subs, topic, who)
  \/ ~Advertises(nd, topic, "Subscriber") /\ Len(nd.resources) = RESOURCES

\* answer_request, by the first Reply subscriber a publication meets.
Answers(nd, n, topic, data) ==
  IF Met(nd.subs, topic, "Reply") = {} \/ data.type # "reply" \/ data.target # n
  THEN {} ELSE WithId(nd.requests, data.id)
AnswerRequest(nd, found) ==
  IF found = {} THEN nd
  ELSE [nd EXCEPT !.requests = WithoutFirst(@, found),
                  !.power = EndedFor(@, nd.requests[First(found)].id)]
\* deliver_locally: a node's own publication ends a request of its own, and
\* is never served by the node itself.
DeliverLocally(nd, n, topic, data) == AnswerRequest(nd, Answers(nd, n, topic, data))
\* History: the request ended, and how.
EndedBy(log, nd, found, how, re) ==
  IF found = {} THEN log
  ELSE [log EXCEPT ![nd.requests[First(found)].no].ends =
          Append(@, [how |-> how, re |-> re])]

\* serve, by the first Service subscriber met: what the handler makes of the
\* body it is given.
Serves(nd, topic, data) ==
  IF Met(nd.subs, topic, "Service") = {} THEN {} ELSE Lookup(nd.table, topic, data)
EchoReplies(body) == {body # "long"}
SysInfoReplies(body) == {body = "empty"}
\* The map may not fit the reply.
ConfigMapReplies(body) == IF body = "partition" THEN BOOLEAN ELSE {FALSE}
\* The application may have nothing to say.
PowerInfoReplies(body) == IF body = "empty" THEN BOOLEAN ELSE {FALSE}
Replies(handler, body) ==
  CASE handler = "Echo" -> EchoReplies(body)
    [] handler = "SysInfo" -> SysInfoReplies(body)
    [] handler = "ConfigMap" -> ConfigMapReplies(body)
    [] handler = "PowerInfo" -> PowerInfoReplies(body)
    [] handler \in {"Metrics", "Application"} -> BOOLEAN

------------------------------------------------------------------------------
(* What arrives. *)

Takes(l, kind) == net[l] # <<>> /\ Head(net[l]).body.kind = kind
Rest(l) == [net EXCEPT ![l] = Tail(@)]

\* Node::submit of a publication: deliver_publication; the relay goes first.
ReceivePublication(l) ==
  /\ Takes(l, "pub")
  /\ LET f == Head(net[l])
         n == l[1]
         b == f.body
         nd == node[n]
         found == Answers(nd, n, b.topic, b.data)
         after == AnswerRequest(nd, found)
         relayed == Relayed(Rest(l), l, f)
         ended == EndedBy(asked, nd, found, "answered", b.data.re)
         got == GotBy(floods, f, n)
     IN  \/ /\ \/ Serves(nd, b.topic, b.data) = {}
               \/ \E s \in Serves(nd, b.topic, b.data) : FALSE \in Replies(s.handler, b.data.body)
            /\ node' = [node EXCEPT ![n] = after]
            /\ net' = relayed
            /\ floods' = got
            /\ asked' = ended
         \/ \E s \in Serves(nd, b.topic, b.data) :
              /\ TRUE \in Replies(s.handler, b.data.body)
              /\ LET topic == Rep(s.name)
                     data == [type |-> "reply", target |-> f.src, id |-> b.data.id,
                              body |-> b.data.body, whole |-> TRUE, re |-> b.data.re]
                     own == Answers(after, n, topic, data)
                 IN  /\ node' = [node EXCEPT ![n] =
                                   Advertised(DeliverLocally(after, n, topic, data), topic,
                                              "Publisher")]
                     /\ net' = Sent(relayed, n, Port,
                                    Frame(Len(got) + 1, "global", n,
                                          [kind |-> "pub", topic |-> topic, data |-> data]))
                     /\ floods' = Append(got, Flood(n, "global", Everyone, f.no))
                     /\ asked' = EndedBy(ended, after, own, "answered", data.re)
  /\ UNCHANGED <<mix, inputs>>

\* Node::submit of another datagram: an event, if the port is bound.
ReceiveUdp(l) ==
  /\ Takes(l, "udp")
  /\ net' = Relayed(Rest(l), l, Head(net[l]))
  /\ floods' = GotBy(floods, Head(net[l]), l[1])
  /\ UNCHANGED <<node, mix, inputs, asked>>

\* SystemTimeHeader::is_local, in submit.
IsLocal(b, n) == b.to \in {n, Everyone}
\* process_system_time: a node answers a request that names it and a set that is
\* for it or for all, unless its clock fails, to the node the header names.
Answerable(b, n) == b.asks = "set" \/ (b.asks = "time" /\ b.to = n)
AnswerTo(f) == f.body.from
\* A link-local message: one for another node is put on every other port in a
\* new frame of this node's; one for this node is processed.
ReceiveBcmp(l) ==
  /\ Takes(l, "bcmp")
  /\ LET f == Head(net[l])
         n == l[1]
         got == GotBy(floods, f, n)
     IN  \/ /\ ~IsLocal(f.body, n)
            /\ net' = Sent(Rest(l), n, EgressPorts(l[2]), [f EXCEPT !.src = n])
            /\ UNCHANGED floods
         \/ /\ IsLocal(f.body, n)
            /\ net' = Rest(l) /\ floods' = got
         \/ /\ IsLocal(f.body, n) /\ Answerable(f.body, n)
            /\ net' = Sent(Rest(l), n, Port,
                           Frame(Len(got) + 1, "link", n,
                                 [kind |-> "bcmp", from |-> n, to |-> AnswerTo(f),
                                  asks |-> "nothing"]))
            /\ floods' = Append(got, Flood(n, "link", AnswerTo(f), f.no))
  /\ UNCHANGED <<node, mix, inputs, asked>>

\* A frame the wire, or the receiver's checksum, loses.
Lose(l) ==
  /\ mix.lossy /\ net[l] # <<>>
  /\ net' = Rest(l)
  /\ floods' = [floods EXCEPT ![Head(net[l]).no].lost = TRUE]
  /\ UNCHANGED <<node, mix, inputs, asked>>

------------------------------------------------------------------------------
(* What the application calls. *)

Calls(name, c) ==
  /\ inputs < mix.max /\ inputs' = inputs + 1
  /\ c \in mix.inputs /\ c.type = name
  /\ node[c.node].now \in mix.at
Now(n, nd) == node' = [node EXCEPT ![n] = nd]
Plain == [type |-> "plain", body |-> "empty", whole |-> FALSE, re |-> 0]

Subscribe(c) ==
  /\ Calls("subscribe", c)
  /\ Now(c.node, SubscribeAs(node[c.node], c.topic, "Application"))
  /\ UNCHANGED <<net, mix, floods, asked>>
\* The resource stays advertised.
Unsubscribe(c) ==
  /\ Calls("unsubscribe", c)
  /\ node' = IF Callback(node[c.node].subs, c.topic, "Application") = {} THEN node
             ELSE [node EXCEPT ![c.node].subs = Unsubscribed(@, c.topic, "Application")]
  /\ UNCHANGED <<net, mix, floods, asked>>

\* A publication, and the ones for a Spotter: a log line, for its console or a
\* file there, and data to transmit, which is never too long to publish.
Publishing(n, topic, long) == [type |-> "publish", node |-> n, topic |-> topic, long |-> long]
SpotterTopic(name) == <<<<0, name>>, "">>
SpotterLog(n, file, long) ==
  Publishing(n, SpotterTopic(IF file THEN "spotter/fprintf" ELSE "spotter/printf"), long)
SpotterTxData(n) == Publishing(n, SpotterTopic("spotter/transmit-data"), FALSE)

\* publish_with: to this node's own
\* subscribers first, also when it is then too long to send.
Publish(c) ==
  /\ Calls("publish", c)
  /\ IF c.long THEN UNCHANGED <<node, net, floods>>
     ELSE /\ Now(c.node, Advertised(node[c.node], c.topic, "Publisher"))
          /\ net' = Sent(net, c.node, Port,
                         Frame(Len(floods) + 1, "global", c.node,
                               [kind |-> "pub", topic |-> c.topic, data |-> Plain]))
          /\ floods' = Append(floods, Flood(c.node, "global", Everyone, 0))
  /\ UNCHANGED <<mix, asked>>

\* The services a node lists: the built-in ones under names of its own, but
\* power info under one name for all.  And the requests for them.
Listing(n, service, handler) ==
  [type |-> "register", node |-> n, service |-> service, handler |-> handler]
ListApplication(n, service) == Listing(n, service, "Application")
ListEcho(n) == Listing(n, ServiceName(n, "/echo"), "Echo")
ListSysInfo(n) == Listing(n, ServiceName(n, "/sys_info"), "SysInfo")
ListConfigMap(n) == Listing(n, ServiceName(n, "/config_map"), "ConfigMap")
ListPowerInfo(n) == Listing(n, PowerService, "PowerInfo")
ListMetrics(n) == Listing(n, ServiceName(n, "/metrics"), "Metrics")

Asking(n, service, body, timeout_s, power) ==
  [type |-> "request", node |-> n, service |-> service, timeout_s |-> timeout_s, body |-> body,
   power |-> power]
AskSysInfo(n, target, timeout_s) ==
  Asking(n, ServiceName(target, "/sys_info"), "empty", timeout_s, FALSE)
AskConfigMap(n, target, timeout_s) ==
  Asking(n, ServiceName(target, "/config_map"), "partition", timeout_s, FALSE)
AskPowerInfo(n, timeout_s) == Asking(n, PowerService, "empty", timeout_s, TRUE)
AskMetrics(n, target, timeout_s) ==
  Asking(n, ServiceName(target, "/metrics"), "empty", timeout_s, FALSE)

\* list_service: listed before it is subscribed, and listed even if that fails.
RegisterService(c) ==
  /\ Calls("register", c)
  /\ LET nd == node[c.node]
     IN  IF Len(nd.table) = SERVICES THEN UNCHANGED node
         ELSE Now(c.node, SubscribeAs([nd EXCEPT !.table = ServiceAdded(@, c.service, c.handler)],
                                      Req(c.service), "Service"))
  /\ UNCHANGED <<net, mix, floods, asked>>
UnregisterService(c) ==
  /\ Calls("unregister", c)
  /\ LET nd == node[c.node]
     IN  IF Callback(nd.subs, Req(c.service), "Service") = {} THEN UNCHANGED node
         ELSE Now(c.node, [nd EXCEPT !.subs = Unsubscribed(@, Req(c.service), "Service"),
                                     !.table = WithoutFirst(@, Listed(@, c.service))])
  /\ UNCHANGED <<net, mix, floods, asked>>

\* request_with: listed and, for power info, queued first; a failure after
\* that leaves it so, and it expires.
ServiceRequest(c) ==
  /\ Calls("request", c)
  /\ LET n == c.node
         nd == node[n]
         no == Len(asked) + 1
         id == nd.request_count
         listed == [nd EXCEPT !.requests = RequestAdded(@, c.service, id, c.timeout_s, nd.now, no),
                              !.request_count = (id + 1) % IdWrap,
                              !.power = IF c.power THEN Pushed(@, id) ELSE @]
         data == [type |-> "request", id |-> id, body |-> c.body, whole |-> TRUE, re |-> no]
     IN  IF Len(nd.requests) = SERVICE_REQUESTS \/ c.body = "too large" THEN UNCHANGED <<node, net, floods, asked>>
         ELSE /\ asked' = Append(asked, [from |-> n, boots |-> nd.boots, id |-> id, age |-> 0,
                                         timeout |-> c.timeout_s * MS, ends |-> <<>>])
              /\ IF SubscribeFails(listed, Rep(c.service), "Reply")
                 THEN /\ Now(n, SubscribeAs(listed, Rep(c.service), "Reply"))
                      /\ UNCHANGED <<net, floods>>
                 ELSE /\ Now(n, Advertised(SubscribeAs(listed, Rep(c.service), "Reply"),
                                           Req(c.service), "Publisher"))
                      /\ net' = Sent(net, n, Port,
                                     Frame(Len(floods) + 1, "global", n,
                                           [kind |-> "pub", topic |-> Req(c.service),
                                            data |-> data]))
                      /\ floods' = Append(floods, Flood(n, "global", Everyone, 0))
  /\ UNCHANGED mix

\* send_udp and the time requests: a frame on every port.
Send(c) ==
  /\ Calls("send", c)
  /\ net' = Sent(net, c.node, Port, Frame(Len(floods) + 1, c.scope, c.node, c.body))
  /\ floods' = Append(floods, Flood(c.node, c.scope, c.to, 0))
  /\ UNCHANGED <<node, mix, asked>>

------------------------------------------------------------------------------
(* Time and restarts. *)

\* on_service_expiry: each expired request leaves the list and, if it waits
\* for power info, takes the oldest callback.
Expired(nd) == {i \in DOMAIN nd.requests : ExpiredAt(nd.requests[i], nd.now)}
SweptPast(nd, r) ==
  IF ExpiredAt(r, nd.now) THEN [nd EXCEPT !.power = EndedFor(@, r.id)]
  ELSE [nd EXCEPT !.requests = Append(@, r)]
Swept(nd) ==
  LET after[i \in 0..Len(nd.requests)] ==
        IF i = 0 THEN [nd EXCEPT !.requests = <<>>] ELSE SweptPast(after[i - 1], nd.requests[i])
  IN  after[Len(nd.requests)]
Sweep(n) ==
  /\ SweepDue(node[n].next_sweep_ms, node[n].now)
  /\ LET nd == node[n]
         gone == {nd.requests[i].no : i \in Expired(nd)}
     IN  /\ Now(n, [Swept(nd) EXCEPT !.next_sweep_ms = NextSweep(@, nd.now)])
         /\ asked' = [k \in DOMAIN asked |->
                        IF k \notin gone THEN asked[k]
                        ELSE [asked[k] EXCEPT !.ends = Append(@, [how |-> "expired", re |-> k])]]
  /\ UNCHANGED <<net, mix, inputs, floods>>

\* A node restarts: its lists are what its application sets up at the start.
Restart(c) ==
  /\ Calls("restart", c)
  /\ Now(c.node, [mix.start[c.node] EXCEPT !.boots = node[c.node].boots + 1,
                    !.request_count = 0, !.now = 0, !.next_sweep_ms = EXPIRY_PERIOD_MS])
  /\ asked' = [k \in DOMAIN asked |->
                 IF asked[k].from # c.node \/ asked[k].ends # <<>> THEN asked[k]
                 ELSE [asked[k] EXCEPT !.ends = <<[how |-> "forgotten", re |-> k]>>]]
  /\ UNCHANGED <<net, mix, floods>>

\* The loop runs a due sweep within late.  Bound: no more than delayed frames
\* are in flight while the clock runs.
Advance ==
  /\ Cardinality({f \in (DOMAIN net) \X (1..mix.delayed + 1) : f[2] <= Len(net[f[1]])})
       <= mix.delayed
  /\ \A n \in Node :
       SweepDue(node[n].next_sweep_ms, node[n].now) =>
         (node[n].now - node[n].next_sweep_ms) % ClockWrap < mix.late[n]
  /\ node' = [n \in Node |-> [node[n] EXCEPT !.now = (@ + 1) % ClockWrap]]
  /\ asked' = [k \in DOMAIN asked |->
                 IF asked[k].ends # <<>> \/ asked[k].age = MaxAge THEN asked[k]
                 ELSE [asked[k] EXCEPT !.age = @ + 1]]
  /\ UNCHANGED <<net, mix, inputs, floods>>

------------------------------------------------------------------------------
Init ==
  /\ mix \in Mixes /\ inputs = 0
  /\ node = mix.start
  /\ net = [l \in DOMAIN Peer |-> <<>>]
  /\ floods = <<>> /\ asked = <<>>

Receive(l) == ReceivePublication(l) \/ ReceiveUdp(l) \/ ReceiveBcmp(l)
Call ==
  \E c \in mix.inputs :
    \/ Subscribe(c) \/ Unsubscribe(c) \/ Publish(c)
    \/ RegisterService(c) \/ UnregisterService(c) \/ ServiceRequest(c)
    \/ Send(c) \/ Restart(c)
Next ==
  \/ Call
  \/ \E l \in DOMAIN Peer : Receive(l) \/ Lose(l)
  \/ \E n \in Node : Sweep(n)
  \/ Advance

Spec == Init /\ [][Next]_vars

------------------------------------------------------------------------------
\* The relay of rx_apply, the re-flood of forward_link_local and the addresses
\* answers are sent to: on a tree, what is sent is processed at most once by a
\* node and never by its sender, whom a message may name; once nothing of it is
\* in flight, and none was lost, everyone it was meant for has processed it,
\* and an answer to a message that names its asker goes to the asker.
Meant(k) ==
  LET f == floods[k]
  IN  IF f.scope = "global" THEN Node \ {f.from}
      ELSE IF f.to = Everyone THEN {l[1] : l \in Out(f.from, Port)} ELSE (Node \ {f.from}) \cap {f.to}
InFlight(k) == \E l \in DOMAIN net : \E i \in DOMAIN net[l] : net[l][i].no = k
DeliveredOnce ==
  \A k \in DOMAIN floods :
    LET f == floods[k]
    IN  /\ \A n \in Node : f.got[n] <= (IF n \in Meant(k) THEN 1 ELSE 0)
        /\ ~InFlight(k) /\ ~f.lost => \A n \in Meant(k) : f.got[n] = 1
        /\ f.re # 0 /\ f.to # Everyone => f.to = floods[f.re].from

\* take and answer_request: whatever else is answered, expires or is asked
\* meanwhile, by this or another node, a request ends once, and an answer is
\* to this request or to one its node made before it restarted.
EndsOnce ==
  \A k \in DOMAIN asked :
    /\ Len(asked[k].ends) <= 1
    /\ \A i \in DOMAIN asked[k].ends :
         LET e == asked[k].ends[i]
         IN  e.how = "answered" /\ e.re # k =>
               asked[e.re].from = asked[k].from /\ asked[e.re].boots < asked[k].boots

\* add and on_tick: a request is gone by the first sweep after its timeout and
\* does not expire before it, also one that was never sent, when the clock
\* wraps and when sweeps are late; a timeout that, in 32 bits, is more than
\* half the clock's range ahead is over at the first sweep.
ExpiresInTime ==
  \A k \in DOMAIN asked :
    LET r == asked[k]
        slack == EXPIRY_PERIOD_MS + mix.late[r.from]
        wrapped == r.timeout % ClockWrap
        past == 2 * (wrapped - slack) >= ClockWrap
        ahead == 2 * (wrapped + slack + 1) < ClockWrap
        wait == IF past THEN 0 ELSE wrapped
    IN  (past \/ ahead) /\ wait + slack < MaxAge =>
          /\ r.age <= wait + slack
          /\ \A i \in DOMAIN r.ends : r.ends[i].how = "expired" => r.age >= wait

\* Callbacks::push "cannot fail": the power-info callbacks are those of
\* requests that are listed, one each, whichever way and in whatever order
\* the requests end.  The lists of topics, services and requests keep to their
\* arrays, and a topic has a subscriber as long as it is listed.
WaitingIsListed ==
  \A n \in Node :
    LET nd == node[n]
        ids == {nd.requests[i].id : i \in DOMAIN nd.requests}
    IN  /\ IsSubscriptions(nd.subs) /\ IsServiceTable(nd.table) /\ IsRequests(nd.requests)
        /\ Len(nd.power.queue) = Len(nd.power.waiting)
        /\ \A i \in DOMAIN nd.power.waiting : nd.power.waiting[i] \in ids
        /\ \A i, j \in DOMAIN nd.power.waiting :
             nd.power.waiting[i] = nd.power.waiting[j] => i = j
=============================================================================
