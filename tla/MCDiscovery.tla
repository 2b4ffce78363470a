---------------------------- MODULE MCDiscovery ----------------------------
(***************************************************************************)
(* A small instance of Discovery for TLC: two ports, ids of which two have *)
(* the same list key, and five mixes of traffic.                           *)
(***************************************************************************)
EXTENDS Discovery

\* 1 and 5 have the same key.
MCId == {0, 1, 2, 5}
MCTypes ==
  {"HEARTBEAT", "DEVICE_INFO_REQUEST", "DEVICE_INFO_REPLY", "NEIGHBOR_TABLE_REQUEST",
   "NEIGHBOR_TABLE_REPLY", "RESOURCE_TABLE_REQUEST", "RESOURCE_TABLE_REPLY", "ECHO_REQUEST",
   "ECHO_REPLY", "SYSTEM_TIME_REQUEST", "SYSTEM_TIME_RESPONSE", "SYSTEM_TIME_SET"}
MCNames == {"a", "ab"}
MCPrefixes == {<<"a", "a">>, <<"ab", "ab">>, <<"a", "ab">>}

Beat(src, port, boot, lease) ==
  [type |-> "HEARTBEAT", source |-> src, port |-> port, boot |-> boot, lease |-> lease,
   whole |-> TRUE]
About(src, name) ==
  [type |-> "DEVICE_INFO_REPLY", claim |-> src, name |-> name, whole |-> TRUE]
Asks(type, target) ==
  [type |-> type, target |-> target, payload |-> <<"x">>, whole |-> TRUE]
Says(type, claim, src) == [type |-> type, claim |-> claim, source |-> src, whole |-> TRUE]
Time(type, target, utc) ==
  [type |-> type, target |-> target, from |-> 1, utc |-> utc, whole |-> TRUE]
Short(m) == [m EXCEPT !.whole = FALSE]
Do(name, target, kind) == [type |-> name, target |-> target, kind |-> kind]

\* Neighbours that move, restart, swap ports and are asked about themselves.
Meeting ==
  {Beat(1, 1, 2, 1), Beat(1, 2, 1, 1), Beat(5, 1, 1, 1), Beat(0, 2, 1, 1),
   About(1, "n"), About(5, ""), Do("request_device_info", 5, "Report"),
   [type |-> "unregister", message_type |-> "DEVICE_INFO_REQUEST"]}
\* Leases that keep, wrap to a long one and wrap to a short one.
Leasing == {Beat(1, 1, 1, 1), Beat(5, 2, 1, 6), Beat(5, 2, 1, 8)}
\* Nodes with no id, on every port.
Nameless == {Beat(0, 1, 1, 1), Beat(0, 2, 1, 1)}
\* Tables asked of others, answered late, twice, or by another node.
Asking ==
  {Do("request_neighbor_table", 1, "Report"), Do("request_neighbor_table", 5, "Ignore"),
   Says("NEIGHBOR_TABLE_REPLY", 1, 1), Says("NEIGHBOR_TABLE_REPLY", 5, 1)}
\* Everything else, from others and from the application.
Serving ==
  {Asks(t, target) : t \in DOMAIN ReplyTo, target \in {0, 1, 2}}
  \cup {Short(Asks("ECHO_REQUEST", 2)), Short(Beat(1, 1, 1, 1)),
        [type |-> "ECHO_REPLY", id |-> 2, payload |-> <<"x">>, whole |-> TRUE],
        [type |-> "ECHO_REPLY", id |-> 2, payload |-> <<>>, whole |-> TRUE],
        Time("SYSTEM_TIME_REQUEST", 2, 0), Time("SYSTEM_TIME_REQUEST", 0, 0),
        Time("SYSTEM_TIME_SET", 0, 3), Time("SYSTEM_TIME_SET", 1, 3),
        Time("SYSTEM_TIME_SET", 2, Unknown), Time("SYSTEM_TIME_RESPONSE", 2, 4),
        Says("RESOURCE_TABLE_REPLY", 1, 1), Says("RESOURCE_TABLE_REPLY", 5, 1),
        Do("request_resource_table", 1, "Report"), Do("request_resource_table", 5, "Ignore"),
        Do("request_system_time", 1, ""), Do("set_system_time", 1, ""),
        [type |-> "ping", target |-> 1, payload |-> <<"x">>],
        [type |-> "ping", target |-> 1, payload |-> <<"x", "x">>],
        [type |-> "add_resource", name |-> "ab", kind |-> "Publisher"],
        [type |-> "add_resource", name |-> "a", kind |-> "Publisher"],
        [type |-> "set_link_up", port |-> 1, up |-> TRUE],
        [type |-> "set_link_up", port |-> 1, up |-> FALSE],
        [type |-> "unregister", message_type |-> "ECHO_REQUEST"],
        [type |-> "register", message_type |-> "ECHO_REQUEST"]}
MCMixes ==
  {[inputs |-> Nameless, max |-> 3, at |-> Clock],
   [inputs |-> Meeting, max |-> 4, at |-> {0, 7}], [inputs |-> Leasing, max |-> 3, at |-> Clock],
   [inputs |-> Asking, max |-> 4, at |-> Clock], [inputs |-> Serving, max |-> 3, at |-> {0, 1}]}
=============================================================================
