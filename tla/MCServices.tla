----------------------------- MODULE MCServices -----------------------------
(***************************************************************************)
(* A small instance of Services for TLC: three nodes in a line, each with  *)
(* two ports, and five mixes of traffic.                                   *)
(***************************************************************************)
EXTENDS Services, TLC

\* 1 - 2 - 3: port 2 of a node leads to port 1 of the next.
MCPeer ==
  (<<1, 2>> :> <<2, 1>>) @@ (<<2, 1>> :> <<1, 2>>) @@ (<<2, 2>> :> <<3, 1>>) @@ (<<3, 1>> :> <<2, 2>>)
App(name) == ServiceName(0, name)
Names == {App("s"), App("sx"), App("t"), App("t*"), PowerService}
         \cup {ServiceName(n, suffix) : n \in Node,
                suffix \in {"/echo", "/sys_info", "/config_map", "/metrics"}}
\* "s" is a prefix of "sx", and "t*" matches "t".
MCPrefixes ==
  {<<name, name>> : name \in Names} \cup {<<App("s"), App("sx")>>, <<App("t"), App("t*")>>}
Topic(name) == <<App(name), "">>
MCWildcards == {<<Topic("t"), Topic("t*")>>}

\* A node with some services listed.
With(services) ==
  [subs |-> [i \in DOMAIN services |->
               [topic |-> Req(services[i].service), callbacks |-> <<"Service">>]],
   table |-> [i \in DOMAIN services |->
                [name |-> services[i].service, handler |-> services[i].handler]],
   requests |-> <<>>, request_count |-> 0, next_sweep_ms |-> EXPIRY_PERIOD_MS,
   power |-> [queue |-> <<>>, waiting |-> <<>>], resources |-> <<>>, now |-> 0, boots |-> 0]
\* A node near the wrap of its clock and of its ids.
Old(nd) == [nd EXCEPT !.request_count = IdWrap - 1, !.now = ClockWrap - 2,
                      !.next_sweep_ms = ClockWrap - 1]

Slow(n) == [m \in Node |-> IF m = n THEN 3 ELSE 0]

On(type, n, topic) == [type |-> type, node |-> n, topic |-> topic]
Unlist(n, service) == [type |-> "unregister", node |-> n, service |-> service]
Udp(n, scope) ==
  [type |-> "send", node |-> n, scope |-> scope, to |-> Everyone, body |-> [kind |-> "udp"]]
Bcmp(n, to, asks) ==
  [type |-> "send", node |-> n, scope |-> "link", to |-> to,
   body |-> [kind |-> "bcmp", from |-> n, to |-> to, asks |-> asks]]

\* Requests that are answered, by one node or two, or lost, late, never
\* answered, or of a timeout that wraps.
Questions ==
  [inputs |-> {AskPowerInfo(2, 1), Asking(2, ServiceName(3, "/echo"), "empty", 2, FALSE),
               AskPowerInfo(2, 14)},
   max |-> 2, at |-> {0, 15}, delayed |-> 0, lossy |-> FALSE, late |-> Slow(2),
   start |-> (1 :> With(<<ListPowerInfo(1)>>)) @@ (2 :> Old(With(<<>>)))
             @@ (3 :> With(<<ListEcho(3), ListPowerInfo(3)>>))]
\* Two nodes that ask each other at once, with the same id.
Crossing ==
  [inputs |-> {Asking(1, App("s"), "empty", 2, FALSE), AskPowerInfo(3, 2)},
   max |-> 2, at |-> {0, 1}, delayed |-> 1, lossy |-> FALSE, late |-> Slow(0),
   start |-> (1 :> With(<<ListPowerInfo(1)>>)) @@ (2 :> With(<<>>))
             @@ (3 :> With(<<ListApplication(3, App("s"))>>))]
\* A node that restarts while its question is out.
Restarting ==
  [inputs |-> {AskSysInfo(1, 3, 2), [type |-> "restart", node |-> 1]},
   max |-> 3, at |-> {0}, delayed |-> 1, lossy |-> FALSE, late |-> Slow(0),
   start |-> (1 :> With(<<>>)) @@ (2 :> With(<<>>)) @@ (3 :> With(<<ListSysInfo(3)>>))]
\* Floods of every kind, from every side.
Flooding ==
  [inputs |-> {Publishing(2, Topic("t"), FALSE), SpotterTxData(3), Udp(1, "global"), Udp(2, "link"),
               Bcmp(1, 3, "time"), Bcmp(3, 2, "set"), Bcmp(2, Everyone, "time"),
               Bcmp(2, Everyone, "set"), Bcmp(2, 2, "time"), Bcmp(3, 4, "set")},
   max |-> 2, at |-> {0}, delayed |-> 0, lossy |-> TRUE, late |-> Slow(0),
   start |-> [n \in Node |-> With(<<>>)]]
\* Subscriptions and services that come and go, and lists that fill.
Listings ==
  [inputs |-> {On("subscribe", 1, Topic("t")), On("subscribe", 1, Topic("t*")),
               On("subscribe", 1, Req(App("s"))), On("unsubscribe", 1, Req(App("s"))),
               On("subscribe", 1, Rep(App("s"))), On("unsubscribe", 1, Rep(App("s"))),
               On("unsubscribe", 1, Topic("t")),
               Publishing(1, Topic("t"), FALSE), SpotterLog(1, TRUE, TRUE),
               ListApplication(1, App("s")), ListApplication(1, App("sx")),
               ListConfigMap(1), ListMetrics(1),
               Unlist(1, App("s")), Unlist(1, App("sx")),
               Asking(1, App("s"), "empty", 1, FALSE), Asking(2, App("s"), "empty", 1, FALSE),
               Asking(2, App("sx"), "long", 1, FALSE), AskConfigMap(2, 1, 1), AskMetrics(2, 1, 1),
               Asking(1, App("s"), "too large", 0, FALSE)},
   max |-> 3, at |-> {0}, delayed |-> 0, lossy |-> FALSE, late |-> Slow(0),
   start |-> [n \in Node |-> With(<<>>)]]
MCMixes == {Questions, Crossing, Restarting, Flooding, Listings}
=============================================================================
