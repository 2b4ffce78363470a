------------------------------- MODULE Boot -------------------------------
(***************************************************************************)
(* What the marks of a slot's trailer promise an application: which image  *)
(* the bootloader runs next.  A mark is never stronger than what was asked *)
(* for, an image is tried only if it lay in the slot when it was marked,   *)
(* and a trial ends in a confirmation that was asked for or in the image   *)
(* that ran before.                                                        *)
(*                                                                         *)
(* All this is promised of images that end below the trailer.  One that    *)
(* reaches into it is Overlong: its own bytes may be read as marks, so it  *)
(* may be made permanent where a trial was asked for; marks written over   *)
(* it may end it, and a swap cuts it.                                      *)
(***************************************************************************)
CONSTANTS Images, NoImage, Overlong

VARIABLES
  running,   \* the image in the primary slot, or NoImage after a swap that cut it
  spare,     \* the image in the secondary slot, Overlong or NoImage
  mark,      \* what the secondary slot is marked for
  trial,     \* whether the running image is undone by the next boot
  asked,     \* what set_pending was asked for since the last boot
  vouched    \* whether set_confirmed was called since the last boot

bootVars == <<running, spare, mark, trial, asked, vouched>>

BootInit ==
  /\ running \in Images /\ spare \in Images \cup {NoImage}
  /\ mark = "None" /\ trial = FALSE /\ asked = {} /\ vouched = FALSE

Unfit == {NoImage, Overlong}
\* An image that fits stays as it is.
Alike(x, y) == x = y \/ (x \in Unfit /\ y \in Unfit)
Cut(x) == IF x = Overlong THEN NoImage ELSE x

Ask(kind) ==
  /\ asked' = asked \cup {kind}
  /\ UNCHANGED <<running, spare, mark, trial, vouched>>

\* The marks grow, one write at a time, up to what was asked for.
Mark ==
  /\ asked # {}
  /\ \/ mark = "None" /\ mark' = "Test"
     \/ mark = "Test" /\ "Perm" \in asked /\ mark' = "Perm"
     \/ mark = "None" /\ spare \in Unfit /\ mark' = "Perm"
     \/ mark' = mark
  /\ Alike(spare, spare')
  /\ UNCHANGED <<running, trial, asked, vouched>>

\* The spare image is erased or written.  While the slot stays marked, it
\* can only lose its image.
Replace ==
  /\ ~trial
  /\ \/ mark' = "None" /\ spare' \in Images \cup Unfit
     \/ mark' = mark /\ spare' = NoImage
  /\ UNCHANGED <<running, trial, asked, vouched>>

Vouch == vouched' = TRUE /\ UNCHANGED <<running, spare, mark, trial, asked>>

Confirm ==
  /\ vouched /\ trial
  /\ trial' = FALSE
  /\ UNCHANGED <<running, spare, mark, asked, vouched>>

Swap == running' = Cut(spare) /\ Alike(spare', running)
Restart ==
  /\ asked' = {} /\ vouched' = FALSE /\ mark' = "None"
  /\ \/ mark # "None" /\ spare # NoImage /\ Swap /\ trial' = (mark = "Test")
     \/ mark # "None" /\ spare = NoImage       \* refused
        /\ spare' = NoImage /\ UNCHANGED <<running, trial>>
     \/ mark = "None" /\ trial /\ Swap /\ trial' = FALSE      \* undone
     \/ mark = "None" /\ ~trial /\ UNCHANGED <<running, spare, trial>>

BootNext ==
  \/ \E kind \in {"Test", "Perm"} : Ask(kind)
  \/ Mark \/ Replace \/ Vouch \/ Confirm \/ Restart

BootSpec == BootInit /\ [][BootNext]_bootVars
=============================================================================
