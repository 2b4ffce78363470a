----------------------------- MODULE MCPackets -----------------------------
(***************************************************************************)
(* Small instances of Packets for TLC.                                     *)
(***************************************************************************)
EXTENDS Packets

UNSEQUENCED == [reply |-> FALSE, request |-> FALSE]
REQUEST == [reply |-> FALSE, request |-> TRUE]
REPLY == [reply |-> TRUE, request |-> FALSE]

MCMessageType == {"get", "value"}
MCInitTypes == <<[type |-> "get", cfg |-> REQUEST], [type |-> "value", cfg |-> REPLY]>>
\* A reply type added again, or as one that is matched as neither.
MCRegistrations ==
  {[type |-> "value", cfg |-> REPLY],
   [type |-> "value", cfg |-> [reply |-> TRUE, request |-> TRUE]]}
=============================================================================
