----------------------------- MODULE MCNodeLoop -----------------------------
(***************************************************************************)
(* A small instance of NodeLoop for TLC: queues of one or two places, and  *)
(* two application tasks.                                                  *)
(***************************************************************************)
EXTENDS NodeLoop

MCReports == {<<>>, <<"owned", "large", "other", "owned">>}
=============================================================================
