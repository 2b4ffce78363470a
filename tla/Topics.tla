------------------------------- MODULE Topics -------------------------------
(***************************************************************************)
(* Topics and subscriptions: util.rs's wildcard matcher, a loop that backs *)
(* up to the last '*' it passed, and the check by which utc_time.rs knows  *)
(* its own topic.  A topic is a sequence of characters.                    *)
(*                                                                         *)
(* A definition marked "slip" is a plausible mistake in the one below it;  *)
(* the model uses none of them.                                            *)
(***************************************************************************)
EXTENDS Integers, Sequences

CONSTANT TOPIC          \* utc_time.rs: the topic the clock is set from

ASSUME TopicsAssumption == Len(TOPIC) > 0

(* bm_wildcard_match: i characters of s and j of the pattern are matched,  *)
(* star is where the last '*' was (0 for none) and from what it has taken. *)
SkipAhead(at) == [at EXCEPT !.i = @ + 1, !.j = at.star, !.from = at.i + 1]  \* slip
BackUp(at) == [at EXCEPT !.i = at.from + 1, !.j = at.star, !.from = @ + 1]
RECURSIVE Scan(_, _, _)
Scan(s, pattern, at) ==
  LET more == at.j < Len(pattern)
      p == pattern[at.j + 1]
  IN IF at.i = Len(s) THEN at.j
     ELSE IF more /\ (p = "?" \/ p = s[at.i + 1])
     THEN Scan(s, pattern, [at EXCEPT !.i = @ + 1, !.j = @ + 1])
     ELSE IF more /\ p = "*"
     THEN Scan(s, pattern, [at EXCEPT !.j = @ + 1, !.star = at.j + 1, !.from = at.i])
     ELSE IF at.star > 0 THEN Scan(s, pattern, BackUp(at)) ELSE at.j
WildcardMatch(s, pattern) ==
  LET j == Scan(s, pattern, [i |-> 0, j |-> 0, star |-> 0, from |-> 0])
  IN \A k \in j + 1..Len(pattern) : pattern[k] = "*"

\* strncmp_eq: up to the end of b, or a NUL of both.
StrncmpEq(a, b) ==
  LET at(i) == IF i <= Len(a) THEN a[i] ELSE "NUL"
      differ == {i \in DOMAIN b : at(i) # b[i]}
  IN \A i \in differ : \E k \in 1..i - 1 : b[k] = "NUL" /\ at(k) = "NUL"
\* UtcTimeSetter::on_event, of a publication the TOPIC subscription got.
TakesTime(topic) == StrncmpEq(TOPIC, topic)
=============================================================================
