------------------------------ MODULE KeyStore ------------------------------
(***************************************************************************)
(* What a node's configuration promises, whatever fails: per partition, a  *)
(* map in use and a map kept over a restart.  A key changes only when it   *)
(* is set, removed, cleared, or spoilt by a refused set of its own; what   *)
(* is kept only ever becomes what is in use, or nothing; and a restart     *)
(* uses what is kept, or nothing where it cannot be read.                  *)
(***************************************************************************)
CONSTANTS Partition, Key, Value, None, Spoilt

VARIABLES map, kept

Empty == [k \in Key |-> None]

Init ==
  /\ map = [p \in Partition |-> Empty]
  /\ kept = [p \in Partition |-> Empty]

Set(p, k, v) == map' = [map EXCEPT ![p][k] = v] /\ UNCHANGED kept
Spoil(p, k) == map[p][k] # None /\ map' = [map EXCEPT ![p][k] = Spoilt] /\ UNCHANGED kept
Remove(p, k) == map' = [map EXCEPT ![p][k] = None] /\ UNCHANGED kept
Clear(p) == map' = [map EXCEPT ![p] = Empty] /\ UNCHANGED kept
Save(p, m) == kept' = [kept EXCEPT ![p] = m] /\ UNCHANGED map
Restart(readable) ==
  /\ map' = [p \in Partition |-> IF p \in readable THEN kept[p] ELSE Empty]
  /\ UNCHANGED kept

Next ==
  \/ \E p \in Partition :
       \/ \E k \in Key : Remove(p, k) \/ Spoil(p, k) \/ \E v \in Value : Set(p, k, v)
       \/ Clear(p)
       \/ \E m \in {map[p], Empty} : Save(p, m)
  \/ \E readable \in SUBSET Partition : Restart(readable)

Spec == Init /\ [][Next]_<<map, kept>>
=============================================================================
