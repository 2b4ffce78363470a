---------------------------- MODULE BootTrailer ----------------------------
(***************************************************************************)
(* The end of MCUboot's two slots in flash: the fields bm-mcuboot's        *)
(* trailer.rs reads and writes, on the internal flash of the dev kit       *)
(* (slot.rs), which programs a unit and erases a page at a time.           *)
(*                                                                         *)
(* Each program and each erase is a step of its own, so that a reset or a  *)
(* failure may come between any two, and leave the one under way undone,   *)
(* done or neither.  A slot is the function from offsets to bytes.         *)
(*                                                                         *)
(* A definition marked "slip" is a plausible mistake in the one below it;  *)
(* the model uses none of them.                                            *)
(***************************************************************************)
EXTENDS Integers, Sequences, FiniteSets

CONSTANTS
  Images,       \* the images the bootloader accepts, as sequences of bytes
  NoImage,      \* no image: a slot the bootloader does not accept
  Overlong,     \* any image that reaches into the trailer
  Aligns,       \* what align may be
  MAGIC_SIZE, MagicBytes,
  SlotSize, PAGE_SIZE,
  Junk,         \* what an interrupted program or erase leaves behind
  MaxCalls      \* bound: calls of the application

Byte == 0..255
ERASED == 255
FLAG_SET == 1
Offset == 0..(SlotSize - 1)
ErasedSlot == [o \in Offset |-> ERASED]

(* Trailer: where the fields are, for an alignment a. *)
RoundDown(n, a) == n - (n % a)
MagicAlignSize(a) == IF a > MAGIC_SIZE THEN a ELSE MAGIC_SIZE
InfoSize(a) == a * 4 + MagicAlignSize(a)
MagicOff == SlotSize - MAGIC_SIZE
ImageOkOff(a) == RoundDown(MagicOff - a, a)
CopyDoneOff(a) == ImageOkOff(a) - a
SwapInfoOff(a) == CopyDoneOff(a) - a
SwapSizeOff(a) == SwapInfoOff(a) - a
\* Trailer::new.
Fits(a) == SlotSize % a = 0 /\ SlotSize >= InfoSize(a)

ASSUME TrailerAssumption ==
  /\ SlotSize \in Nat \ {0} /\ PAGE_SIZE \in Nat \ {0} /\ MAGIC_SIZE \in Nat \ {0}
  /\ SlotSize % PAGE_SIZE = 0
  /\ Aligns \subseteq Nat \ {0}
  /\ \A a \in Aligns : /\ Fits(a) /\ PAGE_SIZE % a = 0
                       /\ a % MAGIC_SIZE = 0 \/ MAGIC_SIZE % a = 0
  /\ MagicBytes \in Seq(Byte) /\ Len(MagicBytes) = MAGIC_SIZE
  /\ \E i \in 1..MAGIC_SIZE : MagicBytes[i] # ERASED
  /\ Images \subseteq Seq(Byte) /\ NoImage \notin Images
  /\ Overlong \notin Images \cup {NoImage}
  /\ \A i \in Images : Len(i) < SlotSize
  /\ Junk \in Byte /\ MaxCalls \in Nat

\* The magic and image_ok lie in the last page, and Junk is what neither is.  An
\* image begins as no erased or torn page does, and says where it ends: none is
\* the beginning of another.
Parted(i, j) == \E k \in DOMAIN i \cap DOMAIN j : i[k] # j[k]
ASSUME FlashAssumption ==
  /\ \A i \in 1..MAGIC_SIZE : MagicBytes[i] \notin {ERASED, Junk}
  /\ Junk # FLAG_SET
  /\ \A a \in Aligns : SlotSize - PAGE_SIZE <= ImageOkOff(a)
  /\ \A image \in Images : image # <<>> /\ image[1] \notin {ERASED, Junk}
  /\ \A i, j \in Images : i # j => Parted(i, j)

VARIABLES
  align,
  flash,     \* the two slots
  todo,      \* the programs and erases the call under way has left
  result,    \* what the last call returns, once todo is empty
  up,        \* FALSE: reset, and not yet through the bootloader
  asked, vouched,   \* history: what was asked for since the last boot
  calls

vars == <<align, flash, todo, result, up, asked, vouched, calls>>

Area == {"primary", "secondary"}

\* Area::write: data in units of a, the last one filled up with ERASED.
Unit(a, area, off, data, i) ==
  [kind |-> "program", area |-> area, off |-> off + (i - 1) * a,
   data |-> [j \in 1..a |-> IF (i - 1) * a + j <= Len(data)
                            THEN data[(i - 1) * a + j] ELSE ERASED]]
Write(a, area, off, data) ==
  [i \in 1..((Len(data) + a - 1) \div a) |-> Unit(a, area, off, data, i)]
\* Area::erase of a whole slot, page by page.
EraseAll(area) ==
  [i \in 1..(SlotSize \div PAGE_SIZE) |->
     [kind |-> "erase", area |-> area, off |-> (i - 1) * PAGE_SIZE]]

(* read_swap_state. *)
Magic(s) ==
  IF \A i \in 1..MAGIC_SIZE : s[MagicOff + i - 1] = ERASED THEN "Unset"
  ELSE IF \A i \in 1..MAGIC_SIZE : s[MagicOff + i - 1] = MagicBytes[i] THEN "Good"
  ELSE "Bad"
Flag(byte) ==
  IF byte = ERASED THEN "Unset" ELSE IF byte = FLAG_SET THEN "Set" ELSE "Bad"
ImageOk(s, a) == Flag(s[ImageOkOff(a)])
CopyDone(s, a) == Flag(s[CopyDoneOff(a)])

\* swap_type.
SwapType(p, s, a) ==
  IF Magic(s) = "Good" /\ ImageOk(s, a) = "Unset" THEN "Test"
  ELSE IF Magic(s) = "Good" /\ ImageOk(s, a) = "Set" THEN "Perm"
  ELSE IF /\ Magic(p) = "Good" /\ Magic(s) = "Unset"
          /\ ImageOk(p, a) = "Unset" /\ CopyDone(p, a) = "Set" THEN "Revert"
  ELSE "None"

\* write_magic and write_byte.
WriteMagic(a, area) ==
  Write(a, area, RoundDown(MagicOff, a),
        [i \in 1..(MagicAlignSize(a) - MAGIC_SIZE) |-> ERASED] \o MagicBytes)
WriteByte(a, area, off, value) == Write(a, area, off, <<value>>)

\* What set_pending writes, by the magic it finds.
SwapInfoValue(permanent) == IF permanent THEN 3 ELSE 2
AlwaysOk(a, permanent) ==  \* slip
  WriteMagic(a, "secondary") \o WriteByte(a, "secondary", ImageOkOff(a), FLAG_SET)
  \o WriteByte(a, "secondary", SwapInfoOff(a), SwapInfoValue(permanent))
Marks(a, permanent) ==
  WriteMagic(a, "secondary")
  \o (IF permanent THEN WriteByte(a, "secondary", ImageOkOff(a), FLAG_SET) ELSE <<>>)
  \o WriteByte(a, "secondary", SwapInfoOff(a), SwapInfoValue(permanent))

(* The bootloader: external, as bm-mcuboot-diff's tests show it.  It swaps *)
(* the images, gives the primary slot a trailer of its own, and starts the *)
(* image there if it accepts it.                                           *)
Below(a, s) == [o \in Offset |-> IF o < SwapSizeOff(a) THEN s[o] ELSE ERASED]
Swapped(a, s, ok) ==
  [o \in Offset |->
     IF o < SwapSizeOff(a) THEN s[o]
     ELSE IF o >= MagicOff THEN MagicBytes[o - MagicOff + 1]
     ELSE IF o = CopyDoneOff(a) \/ (ok /\ o = ImageOkOff(a)) THEN FLAG_SET
     ELSE ERASED]
Holds(s, image) == \A i \in 1..Len(image) : s[i - 1] = image[i]
ImageIn(s) ==
  IF \E i \in Images : Holds(s, i) THEN CHOOSE i \in Images : Holds(s, i) ELSE NoImage
\* The images that leave the trailer alone.  DFU writes any that is shorter than
\* the slot, and a swap cuts one that reaches further.
Fit(a) == {i \in Images : Len(i) <= SwapSizeOff(a)}

p == flash["primary"]
s2 == flash["secondary"]
OnTrial == SwapType(p, ErasedSlot, align) = "Revert"

Init ==
  /\ align \in Aligns
  /\ \E i \in Images :
       /\ i \in Fit(align)
       /\ flash = [area \in Area |-> [o \in Offset |->
                     IF area = "primary" /\ o < Len(i) THEN i[o + 1] ELSE ERASED]]
  /\ todo = <<>> /\ result = "none" /\ up = TRUE /\ asked = {} /\ vouched = FALSE
  /\ calls = 0

Call == up /\ todo = <<>> /\ calls < MaxCalls /\ calls' = calls + 1

\* DFU's update: the slot is erased and the image written.  Dfu's
\* TrialHasFallback: not while an image is on trial.
Update(image) ==
  /\ Call /\ ~OnTrial
  /\ todo' = EraseAll("secondary") \o Write(align, "secondary", 0, image)
  /\ result' = "Written"
  /\ UNCHANGED <<align, flash, up, asked, vouched>>

set_pending(permanent) ==
  /\ Call /\ ~OnTrial
  /\ asked' = asked \cup {IF permanent THEN "Perm" ELSE "Test"}
  /\ todo' = IF Magic(s2) = "Good" THEN <<>>
             ELSE IF Magic(s2) = "Unset" THEN Marks(align, permanent)
             ELSE EraseAll("secondary")
  /\ result' = IF Magic(s2) = "Bad" THEN "BadImage" ELSE "Pending"
  /\ UNCHANGED <<align, flash, up, vouched>>

NotCopied(s, a) == Magic(s) = "Good" /\ CopyDone(s, a) = "Unset"  \* slip
NeedsOk(s, a) == Magic(s) = "Good" /\ ImageOk(s, a) = "Unset"
set_confirmed ==
  /\ Call
  /\ vouched' = TRUE
  /\ todo' = IF NeedsOk(p, align)
             THEN WriteByte(align, "primary", ImageOkOff(align), FLAG_SET) ELSE <<>>
  /\ result' = IF Magic(p) = "Bad" THEN "BadVect" ELSE "Confirmed"
  /\ UNCHANGED <<align, flash, up, asked>>

\* What the flash holds once op was carried out, or was cut short and left
\* Junk.  A unit that is not erased cannot be programmed.
Reach(op) ==
  IF op.kind = "erase" THEN op.off..(op.off + PAGE_SIZE - 1)
  ELSE op.off..(op.off + Len(op.data) - 1)
Programmable(op) ==
  op.kind = "program" =>
    /\ op.off % align = 0
    /\ \A o \in Reach(op) : flash[op.area][o] = ERASED
Applied(op) ==
  [flash EXCEPT ![op.area] =
     [o \in Offset |-> IF o \notin Reach(op) THEN @[o]
                       ELSE IF op.kind = "erase" THEN ERASED
                       ELSE op.data[o - op.off + 1]]]
Torn(op) ==
  [flash EXCEPT ![op.area] = [o \in Offset |-> IF o \in Reach(op) THEN Junk ELSE @[o]]]

Carry ==
  /\ up /\ todo # <<>> /\ Programmable(Head(todo))
  /\ flash' = Applied(Head(todo))
  /\ todo' = Tail(todo)
  /\ UNCHANGED <<align, result, up, asked, vouched, calls>>

\* A program or an erase fails, or does not verify: the call ends there.
\* The erase of a slot with a bad magic may fail unnoticed.
Fail ==
  /\ up /\ todo # <<>>
  /\ \/ UNCHANGED flash
     \/ Programmable(Head(todo)) /\ flash' = Applied(Head(todo))
  /\ todo' = <<>>
  /\ result' = IF result = "BadImage" THEN result ELSE "Flash"
  /\ UNCHANGED <<align, up, asked, vouched, calls>>

\* A reset, or a loss of power, between two steps or in one.
Reset ==
  /\ up
  /\ \/ UNCHANGED flash
     \/ /\ todo # <<>> /\ Programmable(Head(todo))
        /\ flash' \in {Applied(Head(todo)), Torn(Head(todo))}
  /\ todo' = <<>> /\ result' = "none" /\ up' = FALSE
  /\ UNCHANGED <<align, asked, vouched, calls>>

Bootloader ==
  /\ ~up
  /\ asked' = {} /\ vouched' = FALSE
  /\ LET type == SwapType(p, s2, align)
     IN flash' =
          IF type \in {"Test", "Perm"} /\ ImageIn(s2) # NoImage
          THEN [primary |-> Swapped(align, s2, type = "Perm"),
                secondary |-> Below(align, p)]
          ELSE IF type \in {"Test", "Perm"}
          THEN [flash EXCEPT !["secondary"] = ErasedSlot]
          ELSE IF type = "Revert"
          THEN [primary |-> Below(align, s2), secondary |-> Below(align, p)]
          ELSE flash
  /\ up' = (ImageIn(flash'["primary"]) # NoImage)
  /\ UNCHANGED <<align, todo, result, calls>>

Next ==
  \/ \E i \in Images : Update(i)
  \/ \E permanent \in BOOLEAN : set_pending(permanent)
  \/ set_confirmed \/ Carry \/ Fail \/ Reset \/ Bootloader

Spec == Init /\ [][Next]_vars

---------------------------------------------------------------------------
\* A call that reports success has done its work: after set_pending the
\* bootloader has something to try, unless image_ok holds neither flag, as a
\* request for a permanent swap was cut short in it or an image overlies it;
\* after set_confirmed it has nothing to undo.
SuccessIsDone ==
  todo = <<>> =>
    /\ result = "Pending" =>
         SwapType(p, s2, align) \in {"Test", "Perm"} \/ ImageOk(s2, align) = "Bad"
    /\ result = "Confirmed" => ~OnTrial

\* What Boot sees of a slot.
FitIn(s, a) == LET i == ImageIn(s) IN IF i \in Fit(a) THEN i ELSE NoImage
Seen(s, a) == LET i == ImageIn(s) IN IF i = NoImage \/ i \in Fit(a) THEN i ELSE Overlong
\* Whatever write fails or is cut short by a reset, and whatever image DFU
\* accepted, the marks promise what Boot says of them: an image that ends
\* below the trailer is tried only if that was asked for, is made permanent
\* only if that was asked for, and is undone unless set_confirmed was called;
\* one that reaches into the trailer may be taken for permanent.
Promise == INSTANCE Boot WITH
  running <- FitIn(p, align), spare <- Seen(s2, align),
  mark <- IF SwapType(p, s2, align) \in {"Test", "Perm"}
          THEN SwapType(p, s2, align) ELSE "None",
  trial <- OnTrial
KeepsPromise == Promise!BootSpec
=============================================================================
