------------------------------ MODULE MCConfig ------------------------------
(***************************************************************************)
(* A small instance of Config for TLC: two partitions of two keys.         *)
(***************************************************************************)
EXTENDS Config

\* Calls of the node's own application.
SetTypedTo(p, k, v) == Request("set_typed", p, Nobody, k, v)
SaveOnly(p) == [Request("commit", p, Nobody, None, None) EXCEPT !.restart = FALSE]

\* Sets, removals and commits over failing writes and power failures.
Committing ==
  [calls |-> UNION {ConfigSet(p, "peer", k, "u") : p \in Partition, k \in {"k", "l"}}
             \cup ConfigDeleteKey("System", "peer", "k")
             \cup ConfigCommit("System", "peer") \cup ConfigCommit("User", "peer")
             \cup {SetTypedTo("System", "k", "s"), SaveOnly("System")},
   max |-> 4, faults |-> TRUE]
\* Every call, keys and values that are refused, and partitions that fill.
Changing ==
  [calls |-> UNION {ConfigSet("User", "peer", k, v) : k \in {"k", "long", "bad", "over"},
                                                     v \in {"u", OddValue}}
             \cup UNION {ConfigDeleteKey("User", "peer", k) : k \in {"k", "long", "m", "over"}}
             \cup UNION {ConfigGet("User", "peer", k) : k \in {"k", "long", "over"}}
             \cup UNION {ConfigClearPartition(p, "peer") : p \in {"User", "other"}}
             \cup ConfigStatusRequest("User", "peer")
             \cup {SetTypedTo("User", k, v) : k \in {"k", "m"}, v \in {"s", TooLong}}
             \cup {SetTypedTo("User", "bad", "s"), SaveOnly("User")},
   max |-> 4, faults |-> FALSE]
MCMixes == {Committing, Changing}
=============================================================================
