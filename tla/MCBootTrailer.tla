-------------------------- MODULE MCBootTrailer --------------------------
(***************************************************************************)
(* BootTrailer on slots of 24 bytes, with a magic of two: the alignments   *)
(* 1, 2 and 4 stand for 8, 16 and 32, below, at and above the size of the  *)
(* magic.                                                                  *)
(***************************************************************************)
EXTENDS BootTrailer

MCMagic == <<119, 194>>
\* Two images that leave the trailer alone, and two that lie over it: to its
\* last byte but one, and up to image_ok of the second alignment, with the flag.
MCImages == {<<10, 11>>, <<20, 21, 22>>, [i \in 1..23 |-> 30],
             [i \in 1..21 |-> IF i = 21 THEN 1 ELSE 40]}
=============================================================================
