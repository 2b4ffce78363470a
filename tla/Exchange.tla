----------------------------- MODULE Exchange -----------------------------
(***************************************************************************)
(* What a node promises of the requests it sends: each is put on the wire, *)
(* again at most MaxSends times in all while it is open, and ends at most  *)
(* once, answered or given up on; nothing happens to it after that.        *)
(***************************************************************************)
EXTENDS Naturals

CONSTANTS
  Ids,        \* the requests
  MaxSends,   \* how often one is sent before it is given up on
  Exact       \* TRUE: it is given up on only after that many sends

VARIABLES status, sends

vars == <<status, sends>>

Statuses == {"new", "open", "untracked", "answered", "timedout"}

Init == /\ status = [i \in Ids |-> "new"]
        /\ sends = [i \in Ids |-> 0]

Move(i, from, to) == status[i] = from /\ status' = [status EXCEPT ![i] = to]

\* Sent, and tracked or not.  A request that could not be built is not sent.
Open(i) ==
  /\ \/ Move(i, "new", "open") /\ sends' = [sends EXCEPT ![i] = 1]
     \/ Move(i, "new", "untracked") /\ sends' = [sends EXCEPT ![i] = 1]
     \/ ~Exact /\ Move(i, "new", "open") /\ UNCHANGED sends
     \/ ~Exact /\ Move(i, "new", "untracked") /\ UNCHANGED sends

Resend(i) ==
  /\ status[i] = "open" /\ sends[i] < MaxSends
  /\ sends' = [sends EXCEPT ![i] = @ + 1]
  /\ UNCHANGED status

Answer(i) == Move(i, "open", "answered") /\ UNCHANGED sends

GiveUp(i) ==
  /\ Exact => sends[i] = MaxSends
  /\ Move(i, "open", "timedout")
  /\ UNCHANGED sends

Next == \E i \in Ids : Open(i) \/ Resend(i) \/ Answer(i) \/ GiveUp(i)

Spec == Init /\ [][Next]_vars
=============================================================================
