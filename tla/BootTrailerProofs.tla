------------------------- MODULE BootTrailerProofs -------------------------
(***************************************************************************)
(* The marks in MCUboot's trailers, for every size of slot, page and magic,*)
(* every alignment and every image, with a reset, a torn write or a failure*)
(* at any write.                                                           *)
(***************************************************************************)
EXTENDS BootTrailer, SequenceTheorems, TLAPS

------------------------------------------------------------------------------
(* Remainders. *)

\* What division is.
LEMMA DivMod ==
  ASSUME NEW n \in Nat \ {0}, NEW a \in Int
  PROVE  a % n \in 0..n - 1 /\ a \div n \in Int /\ a = n * (a \div n) + (a % n)
OBVIOUS

\* A quotient and a remainder are the only ones.
LEMMA ModUnique ==
  ASSUME NEW n \in Nat \ {0}, NEW q \in Int, NEW r \in 0..n - 1
  PROVE  (n * q + r) % n = r /\ (n * q + r) \div n = q
OBVIOUS

\* What leaves no remainder is a multiple.
LEMMA Multiple ==
  ASSUME NEW n \in Nat \ {0}, NEW a \in Nat \ {0}, a % n = 0
  PROVE  \E q \in Nat \ {0} : a = n * q /\ n <= a
<1> DEFINE q == a \div n
<1>1. q \in Int /\ a = n * q
  BY DivMod
<1> HIDE DEF q
<1>2. q > 0
  BY <1>1
<1>3. n * q >= n
  BY <1>1, <1>2
<1> QED BY <1>1, <1>2, <1>3

------------------------------------------------------------------------------
(* Where the fields are (Trailer in trailer.rs). *)

MagicStart(a) == RoundDown(MagicOff, a)
\* The fields lie one unit apart, below the magic and within the slot.
Layout(a) ==
  /\ MagicOff \in Nat /\ MagicOff + MAGIC_SIZE = SlotSize
  /\ ImageOkOff(a) \in Nat /\ SwapSizeOff(a) \in Nat
  /\ SwapSizeOff(a) + a = SwapInfoOff(a) /\ SwapInfoOff(a) + a = CopyDoneOff(a)
  /\ CopyDoneOff(a) + a = ImageOkOff(a) /\ ImageOkOff(a) + a = MagicStart(a)
  /\ MagicStart(a) <= MagicOff /\ MagicStart(a) + MagicAlignSize(a) = SlotSize
  /\ MagicAlignSize(a) \in Nat /\ MAGIC_SIZE <= MagicAlignSize(a)
  /\ \E n \in Nat \ {0} : MagicAlignSize(a) = a * n

\* It is enough to know where image_ok and the magic are.
LEMMA Fields ==
  ASSUME NEW a \in Nat \ {0}, NEW n \in Nat \ {0}, MagicAlignSize(a) = a * n,
         MAGIC_SIZE <= MagicAlignSize(a), SlotSize >= a * 4 + MagicAlignSize(a),
         RoundDown(MagicOff, a) = SlotSize - MagicAlignSize(a),
         ImageOkOff(a) = SlotSize - MagicAlignSize(a) - a
  PROVE  Layout(a)
<1> DEFINE m == MagicAlignSize(a)
<1>1. m \in Nat /\ SlotSize \in Nat /\ MAGIC_SIZE \in Nat
  BY TrailerAssumption
<1> HIDE DEF m
<1>2. /\ m >= MAGIC_SIZE /\ SlotSize >= a * 4 + m /\ RoundDown(MagicOff, a) = SlotSize - m
      /\ ImageOkOff(a) = SlotSize - m - a
  BY DEF m
<1>3. CopyDoneOff(a) = SlotSize - m - a - a /\ SwapInfoOff(a) = SlotSize - m - a - a - a
      /\ SwapSizeOff(a) = SlotSize - m - a - a - a - a
  BY <1>2 DEF CopyDoneOff, SwapInfoOff, SwapSizeOff
<1>4. /\ MagicOff \in Nat /\ MagicOff + MAGIC_SIZE = SlotSize /\ SlotSize - m <= MagicOff
      /\ SlotSize - m - a \in Nat /\ SlotSize - m - a - a - a - a \in Nat
  BY <1>1, <1>2 DEF MagicOff
<1>5. /\ SwapSizeOff(a) + a = SwapInfoOff(a) /\ SwapInfoOff(a) + a = CopyDoneOff(a)
      /\ CopyDoneOff(a) + a = ImageOkOff(a) /\ ImageOkOff(a) + a = MagicStart(a)
      /\ MagicStart(a) + m = SlotSize
  BY <1>1, <1>2, <1>3 DEF MagicStart
<1> QED BY <1>1, <1>2, <1>3, <1>4, <1>5 DEF Layout, m, MagicStart

\* The offsets of the fields, for every alignment Trailer::new accepts.
LEMMA Geometry ==
  ASSUME NEW a \in Aligns
  PROVE  a \in Nat \ {0} /\ Layout(a)
<1>1. a \in Nat \ {0} /\ SlotSize \in Nat \ {0} /\ MAGIC_SIZE \in Nat \ {0}
  BY TrailerAssumption
<1>2. PICK q \in Nat \ {0} : SlotSize = a * q
  <2>1. SlotSize % a = 0
    BY TrailerAssumption DEF Fits
  <2> QED BY <1>1, <2>1, Multiple
<1>3. SlotSize >= a * 4 + MagicAlignSize(a)
  BY TrailerAssumption DEF Fits, InfoSize
<1>4. CASE MAGIC_SIZE % a = 0
  <2>1. PICK m \in Nat \ {0} : MAGIC_SIZE = a * m /\ a <= MAGIC_SIZE
    BY <1>1, <1>4, Multiple
  <2>2. MagicAlignSize(a) = MAGIC_SIZE
    BY <1>1, <2>1 DEF MagicAlignSize
  <2>3. MagicOff = a * (q - m) + 0 /\ MagicOff - a = a * (q - m - 1) + 0
    BY <1>1, <1>2, <2>1 DEF MagicOff
  <2>4. MagicOff % a = 0 /\ (MagicOff - a) % a = 0
    <3>1. \A k \in Int : (a * k + 0) % a = 0
      BY <1>1, ModUnique
    <3> QED BY <2>3, <3>1
  <2>5. RoundDown(MagicOff, a) = MagicOff /\ ImageOkOff(a) = MagicOff - a
    BY <1>1, <2>4 DEF RoundDown, ImageOkOff, MagicOff
  <2>6. /\ SlotSize - MagicAlignSize(a) = MagicOff
        /\ MagicAlignSize(a) = a * m /\ MAGIC_SIZE <= MagicAlignSize(a)
    BY <1>1, <2>1, <2>2 DEF MagicOff
  <2>7. /\ RoundDown(MagicOff, a) = SlotSize - MagicAlignSize(a)
        /\ ImageOkOff(a) = SlotSize - MagicAlignSize(a) - a
    BY <2>5, <2>6
  <2> QED
    BY <1>1, <1>3, <2>6, <2>7, Fields
<1>5. CASE a % MAGIC_SIZE = 0
  <2>1. MAGIC_SIZE <= a
    BY <1>1, <1>5, Multiple
  <2>2. MagicAlignSize(a) = a
    BY <1>1, <2>1 DEF MagicAlignSize
  <2>3. /\ MagicOff = a * (q - 1) + (a - MAGIC_SIZE)
        /\ MagicOff - a = a * (q - 2) + (a - MAGIC_SIZE)
    BY <1>1, <1>2 DEF MagicOff
  <2>4. MagicOff % a = a - MAGIC_SIZE /\ (MagicOff - a) % a = a - MAGIC_SIZE
    <3> DEFINE r == a - MAGIC_SIZE
    <3>1. r \in 0..a - 1
      BY <1>1, <2>1
    <3> HIDE DEF r
    <3>2. \A k \in Int : (a * k + r) % a = r
      BY <1>1, <3>1, ModUnique
    <3>3. MagicOff = a * (q - 1) + r /\ MagicOff - a = a * (q - 2) + r
      BY <2>3 DEF r
    <3> QED BY <3>2, <3>3 DEF r
  <2>5. RoundDown(MagicOff, a) = SlotSize - a /\ ImageOkOff(a) = SlotSize - a - a
    BY <1>1, <2>4 DEF RoundDown, ImageOkOff, MagicOff
  <2>6. /\ MagicAlignSize(a) = a * 1 /\ MAGIC_SIZE <= MagicAlignSize(a)
        /\ RoundDown(MagicOff, a) = SlotSize - MagicAlignSize(a)
        /\ ImageOkOff(a) = SlotSize - MagicAlignSize(a) - a
    BY <1>1, <2>1, <2>2, <2>5
  <2> QED
    BY <1>1, <1>3, <2>6, Fields
<1> QED
  BY <1>1, <1>4, <1>5, TrailerAssumption

------------------------------------------------------------------------------
(* What a call writes: programs of a unit each, and erases of a page each. *)

Program == [kind : {"program"}, area : Area, off : Nat, data : Seq(Byte)]
Erasure == [kind : {"erase"}, area : {"secondary"}, off : Nat]
Op == Program \cup Erasure

\* What a program puts at an offset, and what a write puts there.
Datum(op, o) == op.data[o - op.off + 1]
Fill(data, d) == IF d <= Len(data) THEN data[d] ELSE ERASED
\* One unit of a write.
UnitOf(op, a, area, off, data) ==
  /\ op \in Program /\ op.area = area
  /\ \A o \in Reach(op) : o >= off /\ Datum(op, o) = Fill(data, o - off + 1)

\* A unit holds its part of the data.
LEMMA UnitFacts ==
  ASSUME NEW a \in Nat \ {0}, NEW area \in Area, NEW off \in Nat, NEW data \in Seq(Byte),
         NEW i \in Nat \ {0}
  PROVE  /\ UnitOf(Unit(a, area, off, data, i), a, area, off, data)
         /\ Reach(Unit(a, area, off, data, i)) = (off + (i - 1) * a)..(off + (i - 1) * a + a - 1)
<1> DEFINE b == (i - 1) * a
           d == [j \in 1..a |-> IF b + j <= Len(data) THEN data[b + j] ELSE ERASED]
           u == [kind |-> "program", area |-> area, off |-> off + b, data |-> d]
<1>1. b \in Nat
  OBVIOUS
<1>2. Unit(a, area, off, data, i) = u
  BY DEF Unit
<1> HIDE DEF b
<1>3. d \in Seq(Byte) /\ Len(d) = a
  <2>1. ERASED \in Byte
    BY DEF Byte, ERASED
  <2>2. ASSUME NEW j \in 1..a PROVE d[j] \in Byte
    <3>1. b + j \in Nat \ {0} /\ Len(data) \in Nat
      BY <1>1
    <3>2. d[j] = IF b + j <= Len(data) THEN data[b + j] ELSE ERASED
      OBVIOUS
    <3>3. b + j <= Len(data) => data[b + j] \in Byte
      BY <3>1
    <3> QED BY <2>1, <3>2, <3>3
  <2> QED BY <2>2
<1>4. \A j \in 1..a : d[j] = Fill(data, b + j)
  BY <1>1 DEF Fill
<1> HIDE DEF d
<1>5. u \in Program /\ Reach(u) = (off + b)..(off + b + a - 1)
  BY <1>1, <1>3 DEF Program, Reach
<1>6. ASSUME NEW o \in Reach(u) PROVE o >= off /\ Datum(u, o) = Fill(data, o - off + 1)
  <2>1. o \in Int /\ o - (off + b) + 1 \in 1..a /\ b + (o - (off + b) + 1) = o - off + 1
    BY <1>1, <1>5, <1>6
  <2> QED BY <1>1, <1>4, <1>5, <2>1 DEF Datum
<1> QED BY <1>2, <1>5, <1>6 DEF UnitOf, b

\* A write is a sequence of its units.
LEMMA WriteFacts ==
  ASSUME NEW a \in Nat \ {0}, NEW area \in Area, NEW off \in Nat, NEW data \in Seq(Byte)
  PROVE  /\ Write(a, area, off, data) \in Seq(Op)
         /\ \A k \in DOMAIN Write(a, area, off, data) :
              UnitOf(Write(a, area, off, data)[k], a, area, off, data)
<1> DEFINE n == (Len(data) + a - 1) \div a
           w == [i \in 1..n |-> Unit(a, area, off, data, i)]
<1>1. n \in Nat
  <2> DEFINE l == Len(data) + a - 1
  <2>1. l \in Nat
    OBVIOUS
  <2> HIDE DEF l
  <2>2. l \div a \in Int /\ l = a * (l \div a) + (l % a) /\ l % a \in 0..a - 1
    BY <2>1, DivMod
  <2>3. l \div a >= 0
    BY <2>1, <2>2
  <2> QED BY <2>2, <2>3 DEF l
<1> HIDE DEF n
<1>2. \A i \in 1..n : UnitOf(w[i], a, area, off, data)
  BY <1>1, UnitFacts
<1>3. \A i \in 1..n : w[i] \in Op
  BY <1>2 DEF UnitOf, Op
<1>4. w \in Seq(Op) /\ DOMAIN w = 1..n
  BY <1>1, <1>3
<1>5. Write(a, area, off, data) = w
  BY DEF Write, n
<1> QED BY <1>2, <1>4, <1>5

\* A write reaches every byte of its data.
LEMMA WriteCovers ==
  ASSUME NEW a \in Nat \ {0}, NEW area \in Area, NEW off \in Nat, NEW data \in Seq(Byte),
         NEW o \in off..off + Len(data) - 1
  PROVE  \E k \in DOMAIN Write(a, area, off, data) : o \in Reach(Write(a, area, off, data)[k])
<1> DEFINE l == Len(data)
           n == (l + a - 1) \div a
           t == (o - off) \div a
<1>1. l \in Nat /\ o - off \in 0..l - 1
  OBVIOUS
<1> HIDE DEF l
<1>2. n \in Int /\ n * a > l - 1
  <2> DEFINE m == l + a - 1
  <2>1. m \in Nat
    BY <1>1
  <2> HIDE DEF m
  <2>2. m \div a \in Int /\ m = a * (m \div a) + (m % a) /\ m % a \in 0..a - 1
    BY <2>1, DivMod
  <2>3. n = m \div a
    BY DEF m
  <2> QED BY <1>1, <2>2, <2>3 DEF m
<1>3. t \in Int /\ o - off = a * t + ((o - off) % a) /\ (o - off) % a \in 0..a - 1
  <2> DEFINE c == o - off
  <2>1. c \in Int
    BY <1>1
  <2> HIDE DEF c
  <2>2. c % a \in 0..a - 1 /\ c \div a \in Int /\ c = a * (c \div a) + (c % a)
    BY <2>1, DivMod
  <2> QED BY <2>2 DEF c
<1> HIDE DEF n, t
<1>4. t >= 0 /\ t * a <= o - off /\ o - off < t * a + a
  BY <1>1, <1>3
<1>5. t < n
  <2> SUFFICES ASSUME t >= n PROVE FALSE
    BY <1>2, <1>3
  <2>1. t * a >= n * a
    BY <1>2, <1>3
  <2> QED BY <1>1, <1>2, <1>3, <1>4, <2>1
<1>6. t + 1 \in 1..n /\ t + 1 \in Nat \ {0}
  BY <1>2, <1>3, <1>4, <1>5
<1>7. Write(a, area, off, data)[t + 1] = Unit(a, area, off, data, t + 1)
      /\ DOMAIN Write(a, area, off, data) = 1..n
  BY <1>6 DEF Write, n, l
<1>8. Reach(Unit(a, area, off, data, t + 1)) = (off + t * a)..(off + t * a + a - 1)
  <2>1. (t + 1) - 1 = t
    BY <1>3
  <2> QED BY <1>6, <2>1, UnitFacts
<1>9. t * a \in Int /\ o \in Int
  BY <1>3
<1> QED BY <1>4, <1>6, <1>7, <1>8, <1>9

\* A write of one byte is one unit.
LEMMA ByteFacts ==
  ASSUME NEW a \in Nat \ {0}, NEW area \in Area, NEW off \in Nat, NEW v \in Byte
  PROVE  /\ WriteByte(a, area, off, v) \in Seq(Op)
         /\ \A k \in DOMAIN WriteByte(a, area, off, v) :
              LET u == WriteByte(a, area, off, v)[k]
              IN  /\ u \in Program /\ u.area = area
                  /\ Reach(u) = off..(off + a - 1) /\ Datum(u, off) = v
<1> DEFINE d == <<v>>
           w == Write(a, area, off, d)
<1>1. d \in Seq(Byte) /\ Len(d) = 1 /\ d[1] = v
  OBVIOUS
<1> HIDE DEF d
<1>2. (Len(d) + a - 1) \div a = 1
  <2>1. (a * 1 + 0) \div a = 1
    BY ModUnique
  <2>2. Len(d) + a - 1 = a * 1 + 0
    BY <1>1
  <2> QED BY <2>1, <2>2
<1>3. w \in Seq(Op) /\ UnitOf(Unit(a, area, off, d, 1), a, area, off, d)
  BY <1>1, WriteFacts, UnitFacts
<1>4. DOMAIN w = {1} /\ w[1] = Unit(a, area, off, d, 1)
  BY <1>2 DEF Write
<1>5. Reach(Unit(a, area, off, d, 1)) = off..(off + a - 1)
  <2>1. Reach(Unit(a, area, off, d, 1)) = (off + (1 - 1) * a)..(off + (1 - 1) * a + a - 1)
    BY <1>1, UnitFacts
  <2>2. (1 - 1) * a = 0
    OBVIOUS
  <2>3. off + 0 = off
    OBVIOUS
  <2> QED BY <2>1, <2>2, <2>3
<1>6. Datum(w[1], off) = v
  <2>1. off \in Reach(w[1]) /\ off - off + 1 = 1
    BY <1>4, <1>5
  <2>2. Datum(w[1], off) = Fill(d, 1)
    BY <1>3, <1>4, <2>1 DEF UnitOf
  <2> QED BY <1>1, <2>2 DEF Fill
<1>7. WriteByte(a, area, off, v) = w
  BY DEF WriteByte, d
<1> HIDE DEF w
<1> QED BY <1>3, <1>4, <1>5, <1>6, <1>7 DEF UnitOf

\* What is in two lists one after the other.
LEMMA Joined ==
  ASSUME NEW s \in Seq(Op), NEW t \in Seq(Op)
  PROVE  /\ s \o t \in Seq(Op)
         /\ \A k \in DOMAIN (s \o t) :
              \/ k \in DOMAIN s /\ (s \o t)[k] = s[k]
              \/ \E j \in DOMAIN t : k = Len(s) + j /\ (s \o t)[k] = t[j]
         /\ \A k \in DOMAIN s : k \in DOMAIN (s \o t) /\ (s \o t)[k] = s[k]
         /\ \A j \in DOMAIN t : Len(s) + j \in DOMAIN (s \o t) /\ (s \o t)[Len(s) + j] = t[j]
<1>1. /\ s \o t \in Seq(Op) /\ Len(s \o t) = Len(s) + Len(t)
      /\ \A i \in 1..Len(s) + Len(t) : (s \o t)[i] = IF i <= Len(s) THEN s[i] ELSE t[i - Len(s)]
  BY ConcatProperties
<1> DEFINE w == s \o t
<1>2. w \in Seq(Op) /\ DOMAIN w = 1..Len(s) + Len(t)
  BY <1>1
<1>3. Len(s) \in Nat /\ Len(t) \in Nat /\ DOMAIN s = 1..Len(s) /\ DOMAIN t = 1..Len(t)
  OBVIOUS
<1>4. \A i \in DOMAIN w : w[i] = IF i <= Len(s) THEN s[i] ELSE t[i - Len(s)]
  BY <1>1, <1>2
<1> HIDE DEF w
<1>5. \A k \in DOMAIN w : k \in DOMAIN s \/ (k - Len(s) \in DOMAIN t /\ k = Len(s) + (k - Len(s)))
  BY <1>2, <1>3
<1>6. \A k \in DOMAIN w : \/ k \in DOMAIN s /\ w[k] = s[k]
                          \/ \E j \in DOMAIN t : k = Len(s) + j /\ w[k] = t[j]
  BY <1>2, <1>3, <1>4, <1>5
<1>7. \A k \in DOMAIN s : k \in DOMAIN w /\ w[k] = s[k]
  BY <1>2, <1>3, <1>4
<1>8. \A j \in DOMAIN t : Len(s) + j \in DOMAIN w /\ w[Len(s) + j] = t[j]
  <2> TAKE j \in DOMAIN t
  <2>1. Len(s) + j \in DOMAIN w /\ ~(Len(s) + j <= Len(s)) /\ (Len(s) + j) - Len(s) = j
    BY <1>2, <1>3
  <2> QED BY <1>4, <2>1
<1> QED BY <1>2, <1>6, <1>7, <1>8 DEF w

\* What is left of a list.
LEMMA Rest ==
  ASSUME NEW s \in Seq(Op), s # <<>>
  PROVE  /\ Head(s) \in Op /\ Head(s) = s[1] /\ 1 \in DOMAIN s /\ Tail(s) \in Seq(Op)
         /\ \A k \in DOMAIN Tail(s) : k + 1 \in DOMAIN s /\ Tail(s)[k] = s[k + 1]
         /\ \A k \in DOMAIN s : k = 1 \/ (k - 1 \in DOMAIN Tail(s) /\ Tail(s)[k - 1] = s[k])
OBVIOUS

------------------------------------------------------------------------------
(* What set_pending writes (trailer.rs set_pending, write_magic, write_byte). *)

MeetsMagic(op) == \E i \in 1..MAGIC_SIZE : MagicOff + i - 1 \in Reach(op)
MeetsOk(a, op) == ImageOkOff(a) \in Reach(op)
\* A program of set_pending: it leaves the image alone, what it puts in the magic
\* is the magic, and what it puts in image_ok is the flag.
MarkOp(a, op) ==
  /\ op \in Program /\ op.area = "secondary"
  /\ \A o \in Reach(op) : o >= SwapSizeOff(a)
  /\ \A i \in 1..MAGIC_SIZE :
       MagicOff + i - 1 \in Reach(op) => Datum(op, MagicOff + i - 1) = MagicBytes[i]
  /\ MeetsOk(a, op) => Datum(op, ImageOkOff(a)) = FLAG_SET

\* The units of the magic are all of it, and lie above image_ok.
LEMMA MagicPart ==
  ASSUME align \in Aligns
  PROVE  LET w == WriteMagic(align, "secondary")
         IN  /\ w \in Seq(Op)
             /\ \A k \in DOMAIN w : MarkOp(align, w[k]) /\ ~MeetsOk(align, w[k])
             /\ \A i \in 1..MAGIC_SIZE : \E k \in DOMAIN w : MagicOff + i - 1 \in Reach(w[k])
<1> DEFINE m == MagicAlignSize(align) - MAGIC_SIZE
           e == [i \in 1..m |-> ERASED]
           d == e \o MagicBytes
           start == MagicStart(align)
           w == Write(align, "secondary", start, d)
<1>1. align \in Nat \ {0} /\ Layout(align) /\ MAGIC_SIZE \in Nat \ {0} /\ SlotSize \in Nat
  BY Geometry, TrailerAssumption
<1>2. /\ m \in Nat /\ start \in Nat /\ start + m = MagicOff
      /\ start + m + MAGIC_SIZE = SlotSize /\ start > ImageOkOff(align)
      /\ ImageOkOff(align) >= SwapSizeOff(align)
  BY <1>1 DEF Layout
<1>3. WriteMagic(align, "secondary") = w
  BY DEF WriteMagic, MagicStart
<1> HIDE DEF m, start
<1>4. e \in Seq(Byte) /\ Len(e) = m /\ MagicBytes \in Seq(Byte) /\ Len(MagicBytes) = MAGIC_SIZE
  <2>1. ERASED \in Byte
    BY DEF Byte, ERASED
  <2>2. e \in Seq(Byte) /\ Len(e) = m
    BY <1>2, <2>1
  <2> QED BY <2>2, TrailerAssumption
<1> HIDE DEF e
<1>5. d \in Seq(Byte) /\ Len(d) = m + MAGIC_SIZE
      /\ \A i \in 1..MAGIC_SIZE : d[m + i] = MagicBytes[i]
  <2>1. /\ e \o MagicBytes \in Seq(Byte) /\ Len(e \o MagicBytes) = m + MAGIC_SIZE
        /\ \A i \in 1..m + MAGIC_SIZE :
             (e \o MagicBytes)[i] = IF i <= m THEN e[i] ELSE MagicBytes[i - m]
    BY <1>4, ConcatProperties
  <2>2. \A i \in 1..MAGIC_SIZE : m + i \in 1..m + MAGIC_SIZE /\ ~(m + i <= m) /\ (m + i) - m = i
    BY <1>1, <1>2
  <2> QED BY <2>1, <2>2
<1> HIDE DEF d
<1>6. w \in Seq(Op) /\ \A k \in DOMAIN w : UnitOf(w[k], align, "secondary", start, d)
  BY <1>1, <1>2, <1>5, WriteFacts DEF Area
<1>7. ASSUME NEW i \in 1..MAGIC_SIZE
      PROVE  /\ \E k \in DOMAIN w : MagicOff + i - 1 \in Reach(w[k])
             /\ Fill(d, (MagicOff + i - 1) - start + 1) = MagicBytes[i]
  <2>1. MagicOff + i - 1 \in start..start + Len(d) - 1 /\ (MagicOff + i - 1) - start + 1 = m + i
        /\ m + i <= Len(d)
    BY <1>1, <1>2, <1>5
  <2>2. \E k \in DOMAIN w : MagicOff + i - 1 \in Reach(w[k])
    BY <1>1, <1>2, <1>5, <2>1, WriteCovers DEF Area
  <2> QED BY <1>5, <2>1, <2>2 DEF Fill
<1> HIDE DEF w
<1>8. ASSUME NEW k \in DOMAIN w PROVE MarkOp(align, w[k]) /\ ~MeetsOk(align, w[k])
  <2>1. UnitOf(w[k], align, "secondary", start, d)
    BY <1>6
  <2>2. ~MeetsOk(align, w[k]) /\ \A o \in Reach(w[k]) : o >= SwapSizeOff(align)
    <3>1. Reach(w[k]) \subseteq Int
      BY <2>1 DEF UnitOf, Program, Reach
    <3> QED BY <1>1, <1>2, <2>1, <3>1 DEF UnitOf, MeetsOk, Layout
  <2> QED BY <1>7, <2>1, <2>2 DEF UnitOf, MarkOp
<1> QED BY <1>3, <1>6, <1>7, <1>8

\* A byte of the trailer below the magic is a unit below the magic.
LEMMA BytePart ==
  ASSUME align \in Aligns, NEW off \in Nat, NEW v \in Byte,
         \/ off = ImageOkOff(align) /\ v = FLAG_SET
         \/ off = SwapInfoOff(align)
  PROVE  LET w == WriteByte(align, "secondary", off, v)
         IN  /\ w \in Seq(Op)
             /\ \A k \in DOMAIN w :
                  /\ MarkOp(align, w[k]) /\ ~MeetsMagic(w[k])
                  /\ MeetsOk(align, w[k]) => off = ImageOkOff(align)
<1> DEFINE w == WriteByte(align, "secondary", off, v)
<1>1. align \in Nat \ {0} /\ Layout(align)
  BY Geometry
<1>2. w \in Seq(Op)
      /\ \A k \in DOMAIN w : /\ w[k] \in Program /\ w[k].area = "secondary"
                             /\ Reach(w[k]) = off..(off + align - 1) /\ Datum(w[k], off) = v
  BY <1>1, ByteFacts DEF Area
<1> HIDE DEF w
<1>3. /\ \A o \in off..(off + align - 1) : o >= SwapSizeOff(align) /\ o < MagicOff
      /\ ImageOkOff(align) \in off..(off + align - 1) => off = ImageOkOff(align)
  BY <1>1 DEF Layout
<1>4. ASSUME NEW k \in DOMAIN w
      PROVE  MarkOp(align, w[k]) /\ ~MeetsMagic(w[k]) /\ (MeetsOk(align, w[k]) => off = ImageOkOff(align))
  <2>1. \A i \in 1..MAGIC_SIZE : MagicOff + i - 1 \notin Reach(w[k])
    BY <1>1, <1>2, <1>3 DEF Layout
  <2>2. MeetsOk(align, w[k]) => off = ImageOkOff(align) /\ v = FLAG_SET
    BY <1>1, <1>2, <1>3 DEF MeetsOk, Layout
  <2> QED BY <1>2, <1>3, <2>1, <2>2 DEF MarkOp, MeetsMagic
<1> QED BY <1>2, <1>4 DEF w

\* The programs of set_pending: the whole magic, then image_ok if it is asked
\* for, then swap_info.
MarkList(w, permanent) ==
  /\ w \in Seq(Op)
  /\ \A k \in DOMAIN w : MarkOp(align, w[k]) /\ (MeetsOk(align, w[k]) => permanent)
  /\ \A i \in 1..MAGIC_SIZE : \E k \in DOMAIN w : MagicOff + i - 1 \in Reach(w[k])
  /\ \A j, k \in DOMAIN w : MeetsOk(align, w[j]) /\ j <= k => ~MeetsMagic(w[k])

\* Marks is such a list.
LEMMA MarksFacts ==
  ASSUME align \in Aligns, NEW permanent \in BOOLEAN
  PROVE  MarkList(Marks(align, permanent), permanent)
<1> DEFINE m == WriteMagic(align, "secondary")
           ok == IF permanent THEN WriteByte(align, "secondary", ImageOkOff(align), FLAG_SET)
                 ELSE <<>>
           info == WriteByte(align, "secondary", SwapInfoOff(align), SwapInfoValue(permanent))
<1>1. align \in Nat \ {0} /\ Layout(align)
  BY Geometry
<1>2. m \in Seq(Op) /\ (\A k \in DOMAIN m : MarkOp(align, m[k]) /\ ~MeetsOk(align, m[k]))
      /\ \A i \in 1..MAGIC_SIZE : \E k \in DOMAIN m : MagicOff + i - 1 \in Reach(m[k])
  BY MagicPart
<1>3. ok \in Seq(Op) /\ \A k \in DOMAIN ok : /\ MarkOp(align, ok[k]) /\ ~MeetsMagic(ok[k])
                                             /\ permanent
  <2>1. CASE permanent
    <3>1. ImageOkOff(align) \in Nat /\ FLAG_SET \in Byte
      BY <1>1 DEF Layout, FLAG_SET, Byte
    <3> QED BY <2>1, <3>1, BytePart
  <2>2. CASE ~permanent
    BY <2>2
  <2> QED BY <2>1, <2>2
<1>4. info \in Seq(Op) /\ \A k \in DOMAIN info : /\ MarkOp(align, info[k]) /\ ~MeetsMagic(info[k])
                                                 /\ ~MeetsOk(align, info[k])
  <2>1. SwapInfoOff(align) \in Nat /\ SwapInfoOff(align) # ImageOkOff(align)
    BY <1>1 DEF Layout
  <2>2. SwapInfoValue(permanent) \in Byte
    BY DEF SwapInfoValue, Byte
  <2> QED BY <2>1, <2>2, BytePart
<1>5. Marks(align, permanent) = (m \o ok) \o info
  BY DEF Marks
<1> HIDE DEF m, ok, info
<1> DEFINE u == m \o ok
           w == u \o info
<1>6. /\ u \in Seq(Op)
      /\ \A k \in DOMAIN u : \/ k \in DOMAIN m /\ u[k] = m[k]
                             \/ \E j \in DOMAIN ok : k = Len(m) + j /\ u[k] = ok[j]
      /\ \A k \in DOMAIN m : k \in DOMAIN u /\ u[k] = m[k]
  BY <1>2, <1>3, Joined
<1> HIDE DEF u
<1>7. /\ w \in Seq(Op)
      /\ \A k \in DOMAIN w : \/ k \in DOMAIN u /\ w[k] = u[k]
                             \/ \E j \in DOMAIN info : k = Len(u) + j /\ w[k] = info[j]
      /\ \A k \in DOMAIN u : k \in DOMAIN w /\ w[k] = u[k]
  BY <1>4, <1>6, Joined
<1> HIDE DEF w
<1>8. \A k \in DOMAIN w : MarkOp(align, w[k]) /\ (MeetsOk(align, w[k]) => permanent)
  BY <1>2, <1>3, <1>4, <1>6, <1>7
<1>9. \A i \in 1..MAGIC_SIZE : \E k \in DOMAIN w : MagicOff + i - 1 \in Reach(w[k])
  BY <1>2, <1>6, <1>7
<1>10. ASSUME NEW j \in DOMAIN w, NEW k \in DOMAIN w, MeetsOk(align, w[j]), j <= k
       PROVE  ~MeetsMagic(w[k])
  <2>0. Len(m) \in Nat /\ DOMAIN m = 1..Len(m) /\ Len(u) \in Nat /\ DOMAIN u = 1..Len(u)
        /\ DOMAIN info = 1..Len(info) /\ Len(info) \in Nat /\ DOMAIN ok = 1..Len(ok)
        /\ Len(ok) \in Nat
    BY <1>2, <1>3, <1>4, <1>6
  <2>1. j \in DOMAIN u /\ j \notin DOMAIN m
    BY <1>2, <1>4, <1>6, <1>7, <1>10
  <2>2. CASE k \notin DOMAIN u
    BY <1>4, <1>7, <2>2
  <2>3. CASE k \in DOMAIN u
    <3>1. k \notin DOMAIN m
      BY <1>10, <2>0, <2>1, <2>3
    <3> QED BY <1>3, <1>6, <1>7, <2>3, <3>1
  <2> QED BY <2>2, <2>3
<1> QED BY <1>5, <1>7, <1>8, <1>9, <1>10 DEF MarkList, u, w

------------------------------------------------------------------------------
(* What one program or erase leaves in the flash. *)

Slot == [Offset -> Byte]
FlashType == [Area -> Slot]
\* f is what is in the flash but for what op reaches.
Landed(op, f) ==
  /\ f \in FlashType
  /\ \A r \in Area : r # op.area => f[r] = flash[r]
  /\ \A o \in Offset : o \notin Reach(op) => f[op.area][o] = flash[op.area][o]
Done(op, f) ==
  \A o \in Offset : o \in Reach(op) =>
    f[op.area][o] = IF op.kind = "erase" THEN ERASED ELSE Datum(op, o)
TornAt(op, f) == \A o \in Offset : o \in Reach(op) => f[op.area][o] = Junk

\* Area of an operation.
LEMMA OpFacts ==
  ASSUME NEW op \in Op
  PROVE  /\ op.area \in Area /\ op.kind \in {"program", "erase"}
         /\ op.kind = "program" <=> op \in Program
         /\ op.kind = "program" => \A o \in Reach(op) : Datum(op, o) \in Byte
<1>1. CASE op \in Program
  <2>1. op.off \in Nat /\ op.data \in Seq(Byte) /\ op.kind = "program" /\ op.area \in Area
    BY <1>1 DEF Program
  <2>2. ASSUME NEW o \in Reach(op) PROVE Datum(op, o) \in Byte
    <3>1. o \in op.off..(op.off + Len(op.data) - 1)
      BY <2>1 DEF Reach
    <3>2. o - op.off + 1 \in 1..Len(op.data)
      BY <2>1, <3>1
    <3> QED BY <2>1, <3>2 DEF Datum
  <2> QED BY <1>1, <2>1, <2>2
<1>2. CASE op \in Erasure
  BY <1>2 DEF Erasure, Program, Area
<1> QED BY <1>1, <1>2 DEF Op

\* An operation carried out.
LEMMA AppliedFacts ==
  ASSUME flash \in FlashType, NEW op \in Op
  PROVE  Landed(op, Applied(op)) /\ Done(op, Applied(op))
<1> DEFINE s == [o \in Offset |-> IF o \notin Reach(op) THEN flash[op.area][o]
                                  ELSE IF op.kind = "erase" THEN ERASED
                                  ELSE op.data[o - op.off + 1]]
           f == [flash EXCEPT ![op.area] = s]
<1>1. Applied(op) = f
  BY OpFacts DEF Applied, FlashType
<1>2. flash[op.area] \in Slot /\ op.area \in Area
  BY OpFacts DEF FlashType
<1>3. s \in Slot
  <2>1. ASSUME NEW o \in Offset PROVE s[o] \in Byte
    <3>1. ERASED \in Byte
      BY DEF ERASED, Byte
    <3>2. o \in Reach(op) /\ op.kind # "erase" => op.data[o - op.off + 1] \in Byte
      BY OpFacts DEF Datum
    <3>3. flash[op.area][o] \in Byte
      BY <1>2 DEF Slot
    <3> QED BY <3>1, <3>2, <3>3
  <2> QED BY <2>1 DEF Slot
<1>4. \A o \in Offset : s[o] = IF o \notin Reach(op) THEN flash[op.area][o]
                               ELSE IF op.kind = "erase" THEN ERASED ELSE Datum(op, o)
  BY DEF Datum
<1> HIDE DEF s
<1>5. f \in FlashType /\ f[op.area] = s /\ \A r \in Area : r # op.area => f[r] = flash[r]
  BY <1>2, <1>3 DEF FlashType
<1> HIDE DEF f
<1> QED BY <1>1, <1>4, <1>5 DEF Landed, Done

\* And one cut short.
LEMMA TornFacts ==
  ASSUME flash \in FlashType, NEW op \in Op
  PROVE  Landed(op, Torn(op)) /\ TornAt(op, Torn(op))
<1> DEFINE s == [o \in Offset |-> IF o \in Reach(op) THEN Junk ELSE flash[op.area][o]]
           f == [flash EXCEPT ![op.area] = s]
<1>1. Torn(op) = f
  BY OpFacts DEF Torn, FlashType
<1>2. flash[op.area] \in Slot /\ op.area \in Area /\ Junk \in Byte
  BY OpFacts, TrailerAssumption DEF FlashType
<1>3. s \in Slot
  BY <1>2 DEF Slot
<1>4. \A o \in Offset : s[o] = IF o \in Reach(op) THEN Junk ELSE flash[op.area][o]
  OBVIOUS
<1> HIDE DEF s
<1>5. f \in FlashType /\ f[op.area] = s /\ \A r \in Area : r # op.area => f[r] = flash[r]
  BY <1>2, <1>3 DEF FlashType
<1> HIDE DEF f
<1> QED BY <1>1, <1>4, <1>5 DEF Landed, TornAt

------------------------------------------------------------------------------
(* What the fields of a slot say (read_swap_state, swap_type). *)

\* The fields are offsets.
LEMMA FieldOffsets ==
  ASSUME align \in Aligns
  PROVE  /\ \A i \in 1..MAGIC_SIZE : MagicOff + i - 1 \in Offset
                                     /\ MagicOff + i - 1 > ImageOkOff(align)
         /\ ImageOkOff(align) \in Offset /\ CopyDoneOff(align) \in Offset
         /\ CopyDoneOff(align) < ImageOkOff(align) /\ ImageOkOff(align) < MagicOff
         /\ SwapSizeOff(align) <= CopyDoneOff(align) /\ SwapSizeOff(align) \in Nat
         /\ MagicOff \in Nat /\ align \in Nat \ {0} /\ MAGIC_SIZE \in Nat \ {0}
<1>1. align \in Nat \ {0} /\ Layout(align) /\ SlotSize \in Nat /\ MAGIC_SIZE \in Nat \ {0}
  BY Geometry, TrailerAssumption
<1> QED BY <1>1 DEF Layout, Offset

\* Only the whole magic is good.
LEMMA MagicIs ==
  ASSUME NEW s
  PROVE  /\ Magic(s) = "Good" <=> \A i \in 1..MAGIC_SIZE : s[MagicOff + i - 1] = MagicBytes[i]
         /\ Magic(s) = "Unset" <=> \A i \in 1..MAGIC_SIZE : s[MagicOff + i - 1] = ERASED
<1>1. PICK i \in 1..MAGIC_SIZE : MagicBytes[i] # ERASED
  BY TrailerAssumption
<1> QED BY <1>1 DEF Magic

\* An image is on trial by the trailer of its own slot.
LEMMA TrialIs ==
  ASSUME align \in Aligns
  PROVE  OnTrial <=> Magic(p) = "Good" /\ ImageOk(p, align) = "Unset" /\ CopyDone(p, align) = "Set"
<1>1. Magic(ErasedSlot) = "Unset"
  BY FieldOffsets, MagicIs DEF ErasedSlot
<1> QED BY <1>1 DEF OnTrial, SwapType

------------------------------------------------------------------------------
(* A call that reports success has done its work. *)

\* The program of set_confirmed: image_ok of the running image.
OkOp(a, op) ==
  /\ op \in Program /\ op.area = "primary"
  /\ Reach(op) = ImageOkOff(a)..(ImageOkOff(a) + a - 1)
  /\ Datum(op, ImageOkOff(a)) = FLAG_SET

Typed == align \in Aligns /\ flash \in FlashType /\ todo \in Seq(Op)
\* Only a call that may still succeed has writes left.
CallInv ==
  /\ result \notin {"Written", "BadImage", "Pending", "Confirmed"} => todo = <<>>
  /\ ~up => result = "none"
\* What is left of set_pending is the part of the magic that is not there yet.
MarksInv ==
  result = "Pending" =>
    /\ \A k \in DOMAIN todo : MarkOp(align, todo[k])
    /\ \A i \in 1..MAGIC_SIZE :
         \/ s2[MagicOff + i - 1] = MagicBytes[i]
         \/ \E k \in DOMAIN todo : MagicOff + i - 1 \in Reach(todo[k])
ConfirmInv ==
  result = "Confirmed" =>
    /\ \A k \in DOMAIN todo : OkOp(align, todo[k])
    /\ todo = <<>> => ~OnTrial

SuccessInv == Typed /\ CallInv /\ MarksInv /\ ConfirmInv

\* The pages of a slot: the first is the first to go, and the last is among them.
LEMMA EraseFacts ==
  LET w == EraseAll("secondary")
  IN  /\ w \in Seq(Op) /\ w # <<>> /\ w[1].off = 0
      /\ \A k \in DOMAIN w : w[k] \in Erasure
      /\ \E k \in DOMAIN w : w[k].off = SlotSize - PAGE_SIZE
<1> DEFINE n == SlotSize \div PAGE_SIZE
           w == EraseAll("secondary")
<1>1. PICK q \in Nat \ {0} : SlotSize = PAGE_SIZE * q
  <2>1. SlotSize \in Nat \ {0} /\ PAGE_SIZE \in Nat \ {0} /\ SlotSize % PAGE_SIZE = 0
    BY TrailerAssumption
  <2>2. \E q \in Nat \ {0} : SlotSize = PAGE_SIZE * q /\ PAGE_SIZE <= SlotSize
    BY <2>1, Multiple
  <2> QED BY <2>2
<1>2. PAGE_SIZE \in Nat \ {0} /\ SlotSize \in Nat
  BY TrailerAssumption
<1>3. n = q
  <2>1. (PAGE_SIZE * q + 0) \div PAGE_SIZE = q
    BY <1>2, ModUnique
  <2>2. PAGE_SIZE * q + 0 = SlotSize
    BY <1>1, <1>2
  <2> QED BY <2>1, <2>2
<1>4. w = [i \in 1..q |-> [kind |-> "erase", area |-> "secondary", off |-> (i - 1) * PAGE_SIZE]]
  BY <1>3 DEF EraseAll
<1>5. \A i \in 1..q : (i - 1) * PAGE_SIZE \in Nat
  BY <1>2
<1>6. \A i \in 1..q : w[i] \in Erasure /\ w[i].off = (i - 1) * PAGE_SIZE
  BY <1>4, <1>5 DEF Erasure
<1>7. DOMAIN w = 1..q /\ \A i \in 1..q : w[i] \in Op
  BY <1>4, <1>6 DEF Op
<1>8. w \in Seq(Op)
  BY <1>4, <1>7
<1> HIDE DEF w
<1>9. (1 - 1) * PAGE_SIZE = 0 /\ (q - 1) * PAGE_SIZE = SlotSize - PAGE_SIZE
  BY <1>1, <1>2
<1>10. w # <<>> /\ w[1].off = 0 /\ w[q].off = SlotSize - PAGE_SIZE
  BY <1>1, <1>6, <1>7, <1>9
<1> QED BY <1>1, <1>6, <1>7, <1>8, <1>10 DEF w

\* The slots after a boot.
LEMMA SlotFacts ==
  ASSUME align \in Aligns, NEW s \in Slot
  PROVE  /\ Below(align, s) \in Slot /\ ErasedSlot \in Slot
         /\ \A ok \in BOOLEAN : Swapped(align, s, ok) \in Slot
<1>1. ERASED \in Byte /\ FLAG_SET \in Byte /\ \A o \in Offset : s[o] \in Byte
  BY DEF ERASED, FLAG_SET, Byte, Slot
<1>2. ASSUME NEW o \in Offset, o >= MagicOff PROVE MagicBytes[o - MagicOff + 1] \in Byte
  <2>1. o - MagicOff + 1 \in 1..MAGIC_SIZE
    BY <1>2, TrailerAssumption DEF Offset, MagicOff
  <2> QED BY <2>1, TrailerAssumption
<1> QED BY <1>1, <1>2 DEF Below, ErasedSlot, Swapped, Slot

\* What the bootloader leaves is a flash.
LEMMA BootTyped ==
  ASSUME Typed, Bootloader
  PROVE  flash' \in FlashType
<1>1. p \in Slot /\ s2 \in Slot /\ align \in Aligns
  BY DEF Typed, FlashType, Area, p, s2
<1>2. \A s, t \in Slot : [primary |-> s, secondary |-> t] \in FlashType
  BY DEF FlashType, Area
<1>3. \A t \in Slot : [flash EXCEPT !["secondary"] = t] \in FlashType
  BY DEF Typed, FlashType, Area
<1>4. /\ \A ok \in BOOLEAN : Swapped(align, s2, ok) \in Slot
      /\ Below(align, p) \in Slot /\ Below(align, s2) \in Slot /\ ErasedSlot \in Slot
  BY <1>1, SlotFacts
<1> QED BY <1>2, <1>3, <1>4 DEF Bootloader, Typed

\* Every way a write can end leaves a flash.
LEMMA WriteTyped ==
  ASSUME Typed, Carry \/ Fail \/ Reset
  PROVE  Typed'
<1>1. todo # <<>> => Head(todo) \in Op /\ Tail(todo) \in Seq(Op)
  BY Rest DEF Typed
<1>2. todo # <<>> => Applied(Head(todo)) \in FlashType /\ Torn(Head(todo)) \in FlashType
  BY <1>1, AppliedFacts, TornFacts DEF Typed, Landed
<1>3. <<>> \in Seq(Op)
  OBVIOUS
<1> QED BY <1>1, <1>2, <1>3 DEF Carry, Fail, Reset, Typed

\* A write carried out brings a call nearer to its end.
LEMMA CarrySuccess ==
  ASSUME SuccessInv, Carry
  PROVE  SuccessInv'
<1> DEFINE op == Head(todo)
<1>1. /\ todo # <<>> /\ todo \in Seq(Op) /\ align \in Aligns /\ flash \in FlashType
      /\ align' = align /\ result' = result /\ up' = up
      /\ todo' = Tail(todo) /\ flash' = Applied(op)
  BY DEF Carry, SuccessInv, Typed
<1>2. /\ op \in Op /\ op = todo[1] /\ 1 \in DOMAIN todo
      /\ \A k \in DOMAIN todo' : k + 1 \in DOMAIN todo /\ todo'[k] = todo[k + 1]
      /\ \A k \in DOMAIN todo : k = 1 \/ (k - 1 \in DOMAIN todo' /\ todo'[k - 1] = todo[k])
  BY <1>1, Rest
<1>3. Landed(op, flash') /\ Done(op, flash')
  BY <1>1, <1>2, AppliedFacts
<1> HIDE DEF op
<1>4. Typed' /\ CallInv'
  <2>1. Typed'
    BY WriteTyped DEF SuccessInv
  <2> QED BY <1>1, <2>1 DEF SuccessInv, CallInv
<1>5. MarksInv'
  <2> SUFFICES ASSUME result = "Pending" PROVE MarksInv'
    BY <1>1 DEF MarksInv
  <2>1. \A k \in DOMAIN todo : MarkOp(align, todo[k])
    BY DEF SuccessInv, MarksInv
  <2>2. \A k \in DOMAIN todo' : MarkOp(align', todo'[k])
    BY <1>1, <1>2, <2>1 DEF MarkOp, MeetsOk
  <2>3. ASSUME NEW i \in 1..MAGIC_SIZE
        PROVE  \/ s2'[MagicOff + i - 1] = MagicBytes[i]
               \/ \E k \in DOMAIN todo' : MagicOff + i - 1 \in Reach(todo'[k])
    <3> DEFINE o == MagicOff + i - 1
    <3>1. o \in Offset /\ op.area = "secondary" /\ op.kind # "erase"
      BY <1>1, <1>2, <2>1, FieldOffsets DEF MarkOp, Program
    <3>2. CASE o \in Reach(op)
      BY <1>2, <1>3, <2>1, <3>1, <3>2 DEF MarkOp, Done, s2
    <3>3. CASE o \notin Reach(op)
      <4>1. s2'[o] = s2[o]
        BY <1>3, <3>1, <3>3 DEF Landed, s2
      <4>2. ASSUME NEW k \in DOMAIN todo, o \in Reach(todo[k])
            PROVE  \E j \in DOMAIN todo' : o \in Reach(todo'[j])
        BY <1>2, <3>3, <4>2
      <4> HIDE DEF o
      <4>3. s2[o] = MagicBytes[i] \/ \E k \in DOMAIN todo : o \in Reach(todo[k])
        BY DEF SuccessInv, MarksInv, o
      <4> QED BY <4>1, <4>2, <4>3 DEF o
    <3> QED BY <3>2, <3>3
  <2> QED BY <2>2, <2>3 DEF MarksInv
<1>6. ConfirmInv'
  <2> SUFFICES ASSUME result = "Confirmed" PROVE ConfirmInv'
    BY <1>1 DEF ConfirmInv
  <2>1. \A k \in DOMAIN todo : OkOp(align, todo[k])
    BY DEF SuccessInv, ConfirmInv
  <2>2. \A k \in DOMAIN todo' : OkOp(align', todo'[k])
    BY <1>1, <1>2, <2>1 DEF OkOp
  <2>3. p'[ImageOkOff(align)] = FLAG_SET
    <3>1. ImageOkOff(align) \in Offset /\ align \in Nat \ {0} /\ ImageOkOff(align) \in Int
      BY <1>1, FieldOffsets DEF Offset
    <3>2. OkOp(align, op)
      BY <1>2, <2>1
    <3>3. ImageOkOff(align) \in Reach(op) /\ op.kind # "erase" /\ op.area = "primary"
      BY <3>1, <3>2 DEF OkOp, Program
    <3> QED BY <1>3, <3>1, <3>2, <3>3 DEF Done, OkOp, p
  <2>4. ~OnTrial'
    <3>1. ImageOk(p, align)' # "Unset"
      BY <1>1, <2>3 DEF ImageOk, Flag, FLAG_SET, ERASED
    <3> QED BY <1>4, <3>1 DEF OnTrial, SwapType, Typed
  <2> QED BY <2>2, <2>4 DEF ConfirmInv
<1> QED BY <1>4, <1>5, <1>6 DEF SuccessInv

\* So do the calls themselves, a failure, a reset and a boot.
LEMMA SuccessStep ==
  ASSUME SuccessInv, [Next]_vars
  PROVE  SuccessInv'
<1>1. Typed /\ CallInv /\ align \in Aligns /\ <<>> \in Seq(Op)
  BY DEF SuccessInv, Typed
<1>2. CASE UNCHANGED vars
  BY <1>2 DEF vars, SuccessInv, Typed, CallInv, MarksInv, ConfirmInv, MarkOp, MeetsOk, OkOp,
              OnTrial, p, s2
<1>3. ASSUME NEW image \in Images, Update(image)
      PROVE  SuccessInv'
  <2>1. image \in Seq(Byte) /\ align \in Nat \ {0}
    BY <1>1, TrailerAssumption
  <2>2. todo' \in Seq(Op)
    BY <1>3, <2>1, EraseFacts, WriteFacts, Joined DEF Update, Area
  <2> QED BY <1>1, <1>3, <2>2
          DEF Update, Call, SuccessInv, Typed, CallInv, MarksInv, ConfirmInv
<1>4. ASSUME NEW permanent \in BOOLEAN, set_pending(permanent)
      PROVE  SuccessInv'
  <2>1. MarkList(Marks(align, permanent), permanent)
    BY <1>1, MarksFacts
  <2>2. todo' \in Seq(Op)
    BY <1>1, <1>4, <2>1, EraseFacts DEF set_pending, MarkList
  <2>3. Typed' /\ CallInv' /\ align' = align /\ s2' = s2
    BY <1>1, <1>4, <2>2 DEF set_pending, Call, Typed, CallInv, s2
  <2>4. ConfirmInv'
    BY <1>4 DEF set_pending, ConfirmInv
  <2>5. MarksInv'
    <3>1. CASE Magic(s2) = "Good"
      <4>1. \A i \in 1..MAGIC_SIZE : s2[MagicOff + i - 1] = MagicBytes[i]
        BY <3>1, MagicIs
      <4> QED BY <1>4, <2>3, <3>1, <4>1 DEF set_pending, MarksInv
    <3>2. CASE Magic(s2) = "Unset"
      <4>1. todo' = Marks(align, permanent)
        BY <1>4, <3>2 DEF set_pending
      <4>2. \A k \in DOMAIN todo' : MarkOp(align', todo'[k])
        BY <2>1, <2>3, <4>1 DEF MarkList, MarkOp, MeetsOk
      <4> QED BY <2>1, <4>1, <4>2 DEF MarkList, MarksInv
    <3>3. CASE Magic(s2) = "Bad"
      BY <1>4, <3>3 DEF set_pending, MarksInv
    <3> QED BY <3>1, <3>2, <3>3 DEF Magic
  <2> QED BY <2>3, <2>4, <2>5 DEF SuccessInv
<1>5. CASE set_confirmed
  <2> DEFINE w == WriteByte(align, "primary", ImageOkOff(align), FLAG_SET)
  <2>1. align \in Nat \ {0} /\ ImageOkOff(align) \in Nat /\ FLAG_SET \in Byte
    BY <1>1, FieldOffsets DEF Offset, FLAG_SET, Byte
  <2>2. w \in Seq(Op) /\ \A k \in DOMAIN w : OkOp(align, w[k])
    <3> DEFINE at == ImageOkOff(align)
    <3>1. at \in Nat /\ "primary" \in Area
      BY <2>1 DEF Area
    <3> HIDE DEF at
    <3>2. LET v == WriteByte(align, "primary", at, FLAG_SET)
          IN  /\ v \in Seq(Op)
              /\ \A k \in DOMAIN v : /\ v[k] \in Program /\ v[k].area = "primary"
                                     /\ Reach(v[k]) = at..(at + align - 1)
                                     /\ Datum(v[k], at) = FLAG_SET
      BY <2>1, <3>1, ByteFacts
    <3> QED BY <3>2 DEF OkOp, at
  <2> HIDE DEF w
  <2>3. todo' = IF NeedsOk(p, align) THEN w ELSE <<>>
    BY <1>5 DEF set_confirmed, w
  <2>4. Typed' /\ align' = align /\ flash' = flash /\ up' = up /\ up
        /\ result' \in {"BadVect", "Confirmed"}
        /\ (result' = "BadVect" <=> Magic(p) = "Bad")
    BY <1>1, <1>5, <2>2, <2>3 DEF set_confirmed, Call, Typed
  <2>5. CallInv' /\ MarksInv'
    BY <2>3, <2>4 DEF CallInv, MarksInv, NeedsOk
  <2>6. ConfirmInv'
    <3>1. \A k \in DOMAIN todo' : OkOp(align', todo'[k])
      BY <2>2, <2>3, <2>4 DEF OkOp
    <3>2. ~NeedsOk(p, align) => ~OnTrial'
      BY <1>1, <2>4, TrialIs DEF NeedsOk, OnTrial, p
    <3>3. NeedsOk(p, align) => todo' # <<>>
      <4>1. w # <<>>
        <5>1. <<FLAG_SET>> \in Seq(Byte) /\ Len(<<FLAG_SET>>) = 1
          BY <2>1
        <5>2. DOMAIN Write(align, "primary", ImageOkOff(align), <<FLAG_SET>>) # {}
          <6>1. ImageOkOff(align) \in ImageOkOff(align)..ImageOkOff(align) + Len(<<FLAG_SET>>) - 1
            BY <2>1, <5>1
          <6> QED BY <2>1, <5>1, <6>1, WriteCovers DEF Area
        <5> QED BY <5>2 DEF w, WriteByte
      <4> QED BY <2>3, <4>1
    <3> QED BY <3>1, <3>2, <3>3 DEF ConfirmInv
  <2> QED BY <2>4, <2>5, <2>6 DEF SuccessInv
<1>6. CASE Carry
  BY <1>6, CarrySuccess
<1>7. CASE Fail \/ Reset
  <2>1. Typed'
    BY <1>1, <1>7, WriteTyped
  <2>2. todo' = <<>> /\ result' \in {"none", "Flash", "BadImage"} /\ (~up' => result' = "none")
    BY <1>1, <1>7 DEF Fail, Reset, CallInv
  <2> QED BY <2>1, <2>2 DEF SuccessInv, CallInv, MarksInv, ConfirmInv
<1>8. CASE Bootloader
  <2>1. flash' \in FlashType
    BY <1>1, <1>8, BootTyped
  <2>2. result = "none" /\ UNCHANGED <<align, todo, result>>
    BY <1>1, <1>8 DEF Bootloader, CallInv
  <2> QED BY <1>1, <2>1, <2>2 DEF SuccessInv, Typed, CallInv, MarksInv, ConfirmInv
<1> QED BY <1>2, <1>3, <1>4, <1>5, <1>6, <1>7, <1>8 DEF Next

\* Both slots are slots from the start.
LEMMA SuccessInit ==
  ASSUME Init
  PROVE  SuccessInv
<1>1. PICK i \in Images :
        flash = [area \in Area |-> [o \in Offset |->
                   IF area = "primary" /\ o < Len(i) THEN i[o + 1] ELSE ERASED]]
  BY DEF Init
<1>2. i \in Seq(Byte) /\ Len(i) \in Nat /\ ERASED \in Byte
  <2>1. ERASED \in Byte
    BY DEF ERASED, Byte
  <2> QED BY <2>1, TrailerAssumption
<1>3. flash \in FlashType
  <2>1. ASSUME NEW o \in Offset, o < Len(i) PROVE i[o + 1] \in Byte
    <3>1. o + 1 \in 1..Len(i)
      BY <1>2, <2>1 DEF Offset
    <3> QED BY <1>2, <3>1
  <2> QED BY <1>1, <1>2, <2>1 DEF FlashType, Slot
<1> QED BY <1>3 DEF Init, SuccessInv, Typed, CallInv, MarksInv, ConfirmInv

\* set_pending returns Ok only with the slot marked, or image_ok torn or overlaid,
\* and set_confirmed only with nothing left for the bootloader to undo: for every
\* size, alignment and set of images shorter than the slot, whatever was in the
\* trailer and however earlier calls ended.
THEOREM SuccessDone == Spec => []SuccessIsDone
<1>1. SuccessInv => SuccessIsDone
  <2> SUFFICES ASSUME SuccessInv, todo = <<>>, result = "Pending"
               PROVE  SwapType(p, s2, align) \in {"Test", "Perm"} \/ ImageOk(s2, align) = "Bad"
    BY DEF SuccessInv, SuccessIsDone, ConfirmInv
  <2>1. Magic(s2) = "Good"
    <3>1. \A i \in 1..MAGIC_SIZE : s2[MagicOff + i - 1] = MagicBytes[i]
      BY DEF SuccessInv, MarksInv
    <3> QED BY <3>1, MagicIs
  <2> QED BY <2>1 DEF SwapType, ImageOk, Flag
<1> QED BY <1>1, SuccessInit, SuccessStep, PTL DEF Spec

------------------------------------------------------------------------------
(* What Boot sees of a slot: the image in it and its mark. *)

MarkOf(s) ==
  IF Magic(s) = "Good" /\ s[ImageOkOff(align)] = ERASED THEN "Test"
  ELSE IF Magic(s) = "Good" /\ s[ImageOkOff(align)] = FLAG_SET THEN "Perm" ELSE "None"
Running == FitIn(p, align)
Spare == Seen(s2, align)
Marked == MarkOf(s2)
\* A fit image is the same one, or there is none.
Alike(x, y) == x = y \/ (x \in {NoImage, Overlong} /\ y \in {NoImage, Overlong})

\* A slot holds one image: none is the beginning of another.
LEMMA HeldIs ==
  ASSUME NEW s, NEW i \in Images, Holds(s, i)
  PROVE  ImageIn(s) = i
<1>1. ASSUME NEW j \in Images, Holds(s, j) PROVE j = i
  <2> SUFFICES ASSUME j # i PROVE FALSE
    OBVIOUS
  <2>1. PICK k \in DOMAIN i \cap DOMAIN j : i[k] # j[k]
    BY FlashAssumption DEF Parted
  <2>2. i \in Seq(Byte) /\ j \in Seq(Byte)
    BY TrailerAssumption
  <2>3. k \in 1..Len(i) /\ k \in 1..Len(j)
    BY <2>2
  <2> QED BY <1>1, <2>1, <2>3 DEF Holds
<1> QED BY <1>1 DEF ImageIn

\* What a slot holds is an image or none, and what Boot sees of it.
LEMMA ImageType ==
  ASSUME NEW s, NEW a
  PROVE  /\ ImageIn(s) \in Images \cup {NoImage}
         /\ ImageIn(s) # NoImage => Holds(s, ImageIn(s))
         /\ FitIn(s, a) \in Images \cup {NoImage}
         /\ Seen(s, a) \in Images \cup {NoImage, Overlong}
         /\ Seen(s, a) = NoImage <=> ImageIn(s) = NoImage
         /\ FitIn(s, a) = IF Seen(s, a) = Overlong THEN NoImage ELSE Seen(s, a)
         /\ Seen(s, a) \in {NoImage, Overlong} <=> FitIn(s, a) = NoImage
<1>1. ImageIn(s) \in Images \cup {NoImage}
      /\ (ImageIn(s) # NoImage => Holds(s, ImageIn(s)))
  BY DEF ImageIn
<1>2. Fit(a) \subseteq Images /\ NoImage \notin Images /\ Overlong \notin Images \cup {NoImage}
  BY TrailerAssumption DEF Fit
<1> QED BY <1>1, <1>2 DEF FitIn, Seen

\* What is held of a fit image lies below the trailer.
LEMMA FitHeld ==
  ASSUME align \in Aligns, NEW s, NEW t, NEW i \in Fit(align), Holds(s, i),
         \A o \in Offset : o < SwapSizeOff(align) => s[o] = t[o]
  PROVE  FitIn(t, align) = i
<1>1. i \in Images /\ i \in Seq(Byte) /\ Len(i) \in Nat /\ Len(i) <= SwapSizeOff(align)
  BY TrailerAssumption DEF Fit
<1>2. ASSUME NEW j \in 1..Len(i) PROVE s[j - 1] = t[j - 1]
  <2>1. /\ SwapSizeOff(align) <= CopyDoneOff(align) /\ SwapSizeOff(align) \in Nat
        /\ CopyDoneOff(align) \in 0..SlotSize - 1 /\ SlotSize \in Nat
    BY FieldOffsets, TrailerAssumption DEF Offset
  <2>2. j - 1 \in Offset /\ j - 1 < SwapSizeOff(align)
    BY <1>1, <2>1 DEF Offset
  <2> QED BY <2>2
<1>3. Holds(t, i)
  BY <1>2 DEF Holds
<1> QED BY <1>1, <1>3, HeldIs DEF FitIn

\* Two slots that agree below the trailer hold the same fit image.
LEMMA SameFit ==
  ASSUME align \in Aligns, NEW s, NEW t,
         \A o \in Offset : o < SwapSizeOff(align) => s[o] = t[o]
  PROVE  /\ FitIn(t, align) = FitIn(s, align)
         /\ Alike(Seen(s, align), Seen(t, align)) /\ Alike(Seen(t, align), FitIn(s, align))
<1>1. ASSUME NEW u PROVE FitIn(u, align) # NoImage =>
                           FitIn(u, align) \in Fit(align) /\ Holds(u, FitIn(u, align))
  <2>1. ImageIn(u) \in Fit(align) => ImageIn(u) \in Images /\ ImageIn(u) # NoImage
    BY TrailerAssumption DEF Fit
  <2> QED BY <2>1, ImageType DEF FitIn
<1>2. FitIn(s, align) # NoImage => FitIn(t, align) = FitIn(s, align)
  BY <1>1, FitHeld
<1>3. FitIn(t, align) # NoImage => FitIn(s, align) = FitIn(t, align)
  BY <1>1, FitHeld
<1>4. FitIn(t, align) = FitIn(s, align)
  BY <1>2, <1>3
<1> QED BY <1>4, ImageType DEF Alike

\* A slot whose first byte is gone holds none.
LEMMA FirstGone ==
  ASSUME NEW s, s[0] \in {ERASED, Junk}
  PROVE  ImageIn(s) = NoImage /\ FitIn(s, align) = NoImage /\ Seen(s, align) = NoImage
<1>1. ASSUME NEW image \in Images PROVE ~Holds(s, image)
  <2>1. image \in Seq(Byte) /\ image # <<>> /\ image[1] \notin {ERASED, Junk}
    BY TrailerAssumption, FlashAssumption
  <2>2. 1 \in 1..Len(image) /\ 1 - 1 = 0
    BY <2>1
  <2> QED BY <2>1, <2>2 DEF Holds
<1>2. ImageIn(s) = NoImage
  BY <1>1 DEF ImageIn
<1> QED BY <1>2, ImageType DEF FitIn

\* Nor does one with the beginning of an image that reaches into the trailer hold
\* one that does not.
LEMMA NoneFits ==
  ASSUME align \in Aligns, NEW s, NEW image \in Images, Len(image) > SwapSizeOff(align),
         \A o \in Offset : o < SwapSizeOff(align) => s[o] = image[o + 1]
  PROVE  FitIn(s, align) = NoImage
<1> SUFFICES ASSUME NEW i \in Fit(align), Holds(s, i) PROVE FALSE
  <2>1. ImageIn(s) \in Fit(align) => Holds(s, ImageIn(s))
    <3>1. NoImage \notin Fit(align)
      BY TrailerAssumption DEF Fit
    <3> QED BY <3>1, ImageType
  <2> QED BY <2>1 DEF FitIn
<1>1. /\ i \in Images /\ i \in Seq(Byte) /\ Len(i) \in Nat /\ Len(i) <= SwapSizeOff(align)
      /\ image \in Seq(Byte) /\ Len(image) \in Nat
  BY TrailerAssumption DEF Fit
<1>2. PICK k \in DOMAIN i \cap DOMAIN image : i[k] # image[k]
  <2>1. i # image
    BY <1>1, FieldOffsets
  <2> QED BY <1>1, <2>1, FlashAssumption DEF Parted
<1>3. /\ SwapSizeOff(align) <= CopyDoneOff(align) /\ SwapSizeOff(align) \in Nat
      /\ CopyDoneOff(align) \in 0..SlotSize - 1 /\ SlotSize \in Nat
  BY FieldOffsets, TrailerAssumption DEF Offset
<1> DEFINE o == k - 1
<1>4. k \in 1..Len(i) /\ o \in Offset /\ o < SwapSizeOff(align) /\ o + 1 = k
  BY <1>1, <1>2, <1>3 DEF Offset
<1>5. s[o] = i[k]
  BY <1>4 DEF Holds
<1> HIDE DEF o
<1>6. s[o] = image[k]
  BY <1>4
<1> QED BY <1>2, <1>5, <1>6

\* swap_type, but for a trial that fails, is read off the second slot alone.
LEMMA MarkIs ==
  ASSUME NEW q, NEW s
  PROVE  /\ (IF SwapType(q, s, align) \in {"Test", "Perm"} THEN SwapType(q, s, align)
             ELSE "None") = MarkOf(s)
         /\ SwapType(q, s, align) \in {"Test", "Perm"} <=> MarkOf(s) # "None"
         /\ MarkOf(s) # "None" => SwapType(q, s, align) = MarkOf(s)
         /\ MarkOf(s) \in {"None", "Test", "Perm"}
         /\ MarkOf(s) # "None" => Magic(s) = "Good"
BY DEF SwapType, MarkOf, ImageOk, Flag, FLAG_SET, ERASED

------------------------------------------------------------------------------
(* The invariant under which the marks keep what Boot promises.             *)

\* What op programs, if anything, does not complete the magic at its byte i.
Spares(op, i) ==
  MagicOff + i - 1 \in Reach(op) => Datum(op, MagicOff + i - 1) # MagicBytes[i]
Above(a, op) == \A o \in Reach(op) : o >= SwapSizeOff(a)
LastPage(op) == op.kind = "erase" /\ op.off = SlotSize - PAGE_SIZE
EarlyPage(op) == op.kind = "erase" /\ op.off + PAGE_SIZE <= SlotSize - PAGE_SIZE

\* While the second slot is erased and written it has no good magic, or its last
\* page is still to be erased; its first page is the first to go.
ReplaceInv ==
  result \in {"Written", "BadImage"} /\ todo # <<>> =>
    /\ result = "BadImage" => \A k \in DOMAIN todo : todo[k].kind = "erase"
    /\ \A k \in DOMAIN todo : /\ todo[k].area = "secondary"
                              /\ todo[k].kind = "erase" => LastPage(todo[k]) \/ EarlyPage(todo[k])
    /\ \A j, k \in DOMAIN todo : j <= k /\ todo[k].kind = "erase" => todo[j].kind = "erase"
    /\ todo[1].kind = "erase" => todo[1].off = 0 \/ s2[0] = ERASED
    /\ \E i \in 1..MAGIC_SIZE :
         /\ \A k \in DOMAIN todo : todo[k].kind = "program" => Spares(todo[k], i)
         /\ s2[MagicOff + i - 1] # MagicBytes[i] \/ \E k \in DOMAIN todo : LastPage(todo[k])
\* What is left of an update.  An image that sets image_ok lies over the trailer,
\* and all of it below the trailer is there by then.
WriteInv ==
  result = "Written" /\ todo # <<>> =>
    \E image \in Images :
      /\ \A k \in DOMAIN todo :
           todo[k].kind = "program" => UnitOf(todo[k], align, "secondary", 0, image)
      /\ \A o \in 0..Len(image) - 1 :
           \/ s2[o] = image[o + 1] /\ \A k \in DOMAIN todo : todo[k].kind # "erase"
           \/ \E k \in DOMAIN todo : todo[k].kind = "program" /\ o \in Reach(todo[k])
      /\ \A j, k \in DOMAIN todo :
           /\ todo[j].kind = "program" /\ MeetsOk(align, todo[j]) /\ j <= k
           => Above(align, todo[k])
      /\ s2[ImageOkOff(align)] = FLAG_SET =>
           \/ \E k \in DOMAIN todo : LastPage(todo[k])
           \/ \A k \in DOMAIN todo : Above(align, todo[k])
\* image_ok is written after the magic, and only if a permanent swap was asked for.
OrderInv ==
  result = "Pending" =>
    /\ asked # {}
    /\ \A k \in DOMAIN todo : MeetsOk(align, todo[k]) => "Perm" \in asked
    /\ \A j, k \in DOMAIN todo : MeetsOk(align, todo[j]) /\ j <= k => ~MeetsMagic(todo[k])
    /\ (\E k \in DOMAIN todo : MeetsMagic(todo[k])) =>
         s2[ImageOkOff(align)] # FLAG_SET \/ FitIn(s2, align) = NoImage
VouchInv == result = "Confirmed" /\ todo # <<>> => vouched
\* While an image is on trial, the one it would be swapped back for is left alone.
TrialInv == OnTrial => Magic(s2) = "Unset" /\ result \notin {"Written", "BadImage", "Pending"}
\* Without a magic, only an image that reaches into the trailer sets image_ok.
OkInv == Magic(s2) = "Unset" /\ s2[ImageOkOff(align)] = FLAG_SET => FitIn(s2, align) = NoImage

BootInv ==
  /\ SuccessInv /\ ReplaceInv /\ WriteInv /\ OrderInv /\ VouchInv
  /\ TrialInv /\ OkInv

\* What one write may do to what Boot sees.
Move ==
  \/ Running' = Running /\ Spare' = Spare /\ Marked' = Marked /\ (OnTrial' <=> OnTrial)
  \/ /\ Running' = Running /\ Alike(Spare, Spare') /\ (OnTrial' <=> OnTrial) /\ asked # {}
     /\ \/ Marked = "None" /\ Marked' = "Test"
        \/ Marked = "Test" /\ Marked' = "Perm" /\ "Perm" \in asked
        \/ Marked = "None" /\ Spare \in {NoImage, Overlong} /\ Marked' = "Perm"
        \/ Marked' = Marked
  \/ /\ Running' = Running /\ ~OnTrial /\ ~OnTrial'
     /\ Marked' = "None" \/ (Marked' = Marked /\ Spare' = NoImage)
  \/ /\ Running' = Running /\ Spare' = Spare /\ Marked' = Marked
     /\ vouched /\ OnTrial /\ ~OnTrial'
\* What it leaves.
Effect == Move /\ OkInv' /\ (OnTrial' => OnTrial /\ Magic(s2)' = "Unset")

\* What reads the flash alone stays as it is while nothing is written.
LEMMA CallKeeps ==
  ASSUME BootInv, flash' = flash, align' = align
  PROVE  /\ OkInv' /\ (OnTrial' <=> OnTrial) /\ Magic(s2)' = Magic(s2)
         /\ Running' = Running /\ Spare' = Spare /\ Marked' = Marked /\ p' = p /\ s2' = s2
BY DEF BootInv, OkInv, OnTrial, Running, Spare, Marked, MarkOf, Magic, p, s2

\* One write of the call under way, carried out or torn.
Strike(op) ==
  /\ todo # <<>> /\ op = todo[1] /\ op \in Op /\ Programmable(op)
  /\ align' = align /\ Landed(op, flash')
  /\ Done(op, flash') \/ TornAt(op, flash')

\* set_confirmed's: image_ok of the running image, and nothing else that is read.
LEMMA ConfirmStrikes ==
  ASSUME BootInv, result = "Confirmed", NEW op, Strike(op)
  PROVE  Effect
<1>1. /\ align \in Aligns /\ OkOp(align, op) /\ vouched /\ align' = align
  BY Rest DEF BootInv, SuccessInv, Typed, ConfirmInv, VouchInv, Strike
<1>2. /\ op.area = "primary" /\ op.kind = "program" /\ Landed(op, flash')
      /\ Reach(op) = ImageOkOff(align)..(ImageOkOff(align) + align - 1)
  BY <1>1 DEF OkOp, Program, Strike
<1>3. /\ ImageOkOff(align) \in Offset /\ ImageOkOff(align) \in Nat /\ align \in Nat \ {0}
      /\ ImageOkOff(align) + align <= MagicOff /\ MagicOff \in Nat
      /\ CopyDoneOff(align) < ImageOkOff(align) /\ CopyDoneOff(align) \in Offset
      /\ SwapSizeOff(align) <= ImageOkOff(align) /\ SwapSizeOff(align) \in Nat
      /\ \A o \in Offset : o \in Int
  BY <1>1, Geometry, FieldOffsets DEF Layout, Offset
<1>4. s2' = s2
  BY <1>2 DEF Landed, s2, Area
<1>5. \A o \in Offset : o \notin Reach(op) => p'[o] = p[o]
  BY <1>2 DEF Landed, p
<1>6. p[ImageOkOff(align)] = ERASED
  BY <1>2, <1>3 DEF Strike, Programmable, p
<1>7. \A i \in 1..MAGIC_SIZE : p'[MagicOff + i - 1] = p[MagicOff + i - 1]
  <2> TAKE i \in 1..MAGIC_SIZE
  <2> DEFINE o == MagicOff + i - 1
  <2>1. o \in Offset /\ o \in Int /\ o >= MagicOff
    BY <1>1, <1>3, FieldOffsets
  <2> HIDE DEF o
  <2>2. p'[o] = p[o]
    BY <1>2, <1>3, <1>5, <2>1
  <2> QED BY <2>2 DEF o
<1>8. p'[CopyDoneOff(align)] = p[CopyDoneOff(align)]
  BY <1>2, <1>3, <1>5
<1>10. Running' = Running
  <2>1. \A o \in Offset : o < SwapSizeOff(align) => p[o] = p'[o]
    BY <1>2, <1>3, <1>5
  <2>2. FitIn(p', align) = FitIn(p, align)
    BY <1>1, <2>1, SameFit
  <2> QED BY <1>1, <2>2 DEF Running
<1>11. OnTrial' => OnTrial
  <2>1. OnTrial' => (Magic(p) = "Good" /\ ImageOk(p, align) = "Unset" /\ CopyDone(p, align) = "Set")'
    BY <1>1, TrialIs DEF OnTrial, SwapType
  <2>2. Magic(p)' = Magic(p)
    BY <1>7 DEF Magic
  <2>3. CopyDone(p, align)' = CopyDone(p, align)
    BY <1>1, <1>8 DEF CopyDone
  <2>4. ImageOk(p, align) = "Unset"
    BY <1>6 DEF ImageOk, Flag
  <2> QED BY <1>1, <2>1, <2>2, <2>3, <2>4, TrialIs
<1>12. Spare' = Spare /\ Marked' = Marked /\ OkInv' /\ Magic(s2)' = Magic(s2)
  BY <1>1, <1>4, Zenon DEF Spare, Marked, MarkOf, OkInv, BootInv
<1>13. OnTrial => Magic(s2) = "Unset"
  BY DEF BootInv, TrialInv
<1>14. Move
  BY <1>1, <1>10, <1>11, <1>12 DEF Move, OnTrial
<1> QED BY <1>11, <1>12, <1>13, <1>14 DEF Effect

\* A write to the second slot leaves the first, which is not on trial, alone.
LEMMA SecondSlot ==
  ASSUME BootInv, result \in {"Written", "BadImage", "Pending"}, NEW op, Strike(op),
         op.area = "secondary"
  PROVE  /\ p' = p /\ Running' = Running /\ ~OnTrial /\ ~OnTrial'
         /\ \A o \in Offset : o \notin Reach(op) => s2'[o] = s2[o]
         /\ op.kind # "erase" => \A o \in Offset : o \in Reach(op) => s2[o] = ERASED
<1>1. p' = p
  BY DEF Strike, Landed, p, Area
<1>2. ~OnTrial
  BY DEF BootInv, TrialInv
<1>3. OnTrial' <=> OnTrial
  BY <1>1 DEF Strike, OnTrial
<1>4. op.kind # "erase" => op.kind = "program"
  BY OpFacts DEF Strike
<1> QED BY <1>1, <1>2, <1>3, <1>4
        DEF Running, Strike, Landed, Programmable, s2

\* What the magic is after a write that does not meet it.
LEMMA MagicKept ==
  ASSUME align \in Aligns, NEW op, ~MeetsMagic(op),
         \A o \in Offset : o \notin Reach(op) => s2'[o] = s2[o]
  PROVE  /\ Magic(s2)' = Magic(s2)
         /\ \A i \in 1..MAGIC_SIZE : s2'[MagicOff + i - 1] = s2[MagicOff + i - 1]
<1>1. \A i \in 1..MAGIC_SIZE : s2'[MagicOff + i - 1] = s2[MagicOff + i - 1]
  BY FieldOffsets DEF MeetsMagic
<1> QED BY <1>1 DEF Magic

\* set_pending's: the marks grow up to what was asked for, or are lost.
LEMMA PendingStrikes ==
  ASSUME BootInv, result = "Pending", NEW op, Strike(op)
  PROVE  Effect
<1>1. /\ align \in Aligns /\ MarkOp(align, op) /\ align' = align /\ 1 \in DOMAIN todo
      /\ op = todo[1] /\ op.area = "secondary" /\ op.kind = "program"
  BY Rest DEF BootInv, SuccessInv, Typed, MarksInv, Strike, MarkOp, Program
<1>2. /\ p' = p /\ Running' = Running /\ ~OnTrial /\ ~OnTrial'
      /\ \A o \in Offset : o \notin Reach(op) => s2'[o] = s2[o]
      /\ \A o \in Offset : o \in Reach(op) => s2[o] = ERASED
  BY <1>1, SecondSlot
<1>3. /\ asked # {} /\ (MeetsOk(align, op) => "Perm" \in asked /\ ~MeetsMagic(op))
      /\ (MeetsMagic(op) => s2[ImageOkOff(align)] # FLAG_SET \/ FitIn(s2, align) = NoImage)
  BY <1>1 DEF BootInv, OrderInv
<1>4. Landed(op, flash') /\ (Done(op, flash') \/ TornAt(op, flash'))
  BY DEF Strike
<1>5. \A o \in Offset : o < SwapSizeOff(align) => s2[o] = s2'[o]
  <2>1. \A o \in Offset : o < SwapSizeOff(align) => o \notin Reach(op)
    BY <1>1, FieldOffsets DEF MarkOp, Offset
  <2> QED BY <1>2, <2>1
<1>6. FitIn(s2', align) = FitIn(s2, align) /\ Alike(Spare, Spare')
  BY <1>1, <1>5, SameFit DEF Spare
<1>7. ImageOkOff(align) \in Offset
      /\ \A i \in 1..MAGIC_SIZE : MagicOff + i - 1 \in Offset
  BY <1>1, FieldOffsets
<1>8. Marked = MarkOf(s2) /\ Marked' = IF Magic(s2)' = "Good" /\ s2'[ImageOkOff(align)] = ERASED THEN "Test"
               ELSE IF Magic(s2)' = "Good" /\ s2'[ImageOkOff(align)] = FLAG_SET THEN "Perm"
               ELSE "None"
  BY <1>1 DEF Marked, MarkOf
<1>9. OkInv' <=> (Magic(s2)' = "Unset" /\ s2'[ImageOkOff(align)] = FLAG_SET
                  => FitIn(s2, align) = NoImage)
  BY <1>1, <1>6 DEF OkInv
<1>10. OkInv
  BY DEF BootInv
<1>11. ~MeetsOk(align, op) => s2'[ImageOkOff(align)] = s2[ImageOkOff(align)]
  BY <1>2, <1>7 DEF MeetsOk
<1>12. MeetsOk(align, op) => s2[ImageOkOff(align)] = ERASED
  BY <1>2, <1>7 DEF MeetsOk
<1>13. ~MeetsMagic(op) => Magic(s2)' = Magic(s2)
  BY <1>1, <1>2, MagicKept
<1>14. CASE TornAt(op, flash')
  <2>1. Junk # FLAG_SET
    BY FlashAssumption
  <2>2. CASE MeetsMagic(op)
    <3>1. PICK i \in 1..MAGIC_SIZE : MagicOff + i - 1 \in Reach(op)
      BY <2>2 DEF MeetsMagic
    <3>2. s2'[MagicOff + i - 1] = Junk
      BY <1>1, <1>7, <1>14, <3>1 DEF TornAt, s2
    <3>3. Magic(s2)' # "Good"
      BY <3>2, FlashAssumption, MagicIs
    <3>4. s2'[ImageOkOff(align)] = FLAG_SET => FitIn(s2, align) = NoImage
      BY <1>3, <1>11, <2>2
    <3> QED BY <1>2, <1>8, <1>9, <3>3, <3>4 DEF Effect, Move
  <2>3. CASE ~MeetsMagic(op) /\ MeetsOk(align, op)
    <3>1. s2'[ImageOkOff(align)] = Junk
      BY <1>1, <1>7, <1>14, <2>3 DEF TornAt, s2, MeetsOk
    <3>2. Marked' = "None" \/ Marked' = Marked
      BY <1>8, <1>12, <1>13, <2>1, <2>3, <3>1 DEF MarkOf
    <3> QED BY <1>2, <1>3, <1>6, <1>9, <2>1, <3>1, <3>2 DEF Effect, Move
  <2>4. CASE ~MeetsMagic(op) /\ ~MeetsOk(align, op)
    <3>1. Marked' = Marked /\ OkInv'
      BY <1>8, <1>9, <1>10, <1>11, <1>13, <2>4 DEF MarkOf, OkInv
    <3> QED BY <1>2, <1>3, <1>6, <3>1 DEF Effect, Move
  <2> QED BY <2>2, <2>3, <2>4
<1>15. CASE Done(op, flash')
  <2>1. \A i \in 1..MAGIC_SIZE :
          \/ MagicOff + i - 1 \in Reach(op) /\ s2'[MagicOff + i - 1] = MagicBytes[i]
          \/ s2'[MagicOff + i - 1] = s2[MagicOff + i - 1]
    BY <1>1, <1>2, <1>7, <1>15 DEF Done, MarkOp, s2
  <2>3. Magic(s2) = "Good" => Magic(s2)' = "Good"
    BY <2>1, MagicIs
  <2>4. CASE MeetsOk(align, op)
    <3>1. \A k \in DOMAIN todo : ~MeetsMagic(todo[k])
      <4> TAKE k \in DOMAIN todo
      <4>1. 1 <= k
        BY DEF BootInv, SuccessInv, Typed
      <4> QED BY <1>1, <2>4, <4>1 DEF BootInv, OrderInv
    <3>2. Magic(s2) = "Good"
      <4>1. \A i \in 1..MAGIC_SIZE : s2[MagicOff + i - 1] = MagicBytes[i]
        BY <3>1 DEF BootInv, SuccessInv, MarksInv, MeetsMagic
      <4> QED BY <4>1, MagicIs
    <3>3. s2'[ImageOkOff(align)] = FLAG_SET
      BY <1>1, <1>7, <1>15, <2>4 DEF Done, MarkOp, MeetsOk, s2
    <3>4. Marked = "Test" /\ Marked' = "Perm"
      BY <1>8, <1>12, <2>3, <2>4, <3>2, <3>3 DEF MarkOf, FLAG_SET, ERASED
    <3>5. OkInv'
      BY <1>9, <2>3, <3>2
    <3> QED BY <1>2, <1>3, <1>6, <2>4, <3>4, <3>5 DEF Effect, Move
  <2>5. CASE ~MeetsOk(align, op) /\ MeetsMagic(op)
    <3>1. /\ s2'[ImageOkOff(align)] = s2[ImageOkOff(align)]
          /\ s2[ImageOkOff(align)] = FLAG_SET => FitIn(s2, align) = NoImage
      BY <1>3, <1>11, <2>5
    <3>2. \/ Marked' = Marked \/ (Marked = "None" /\ Marked' = "Test")
          \/ Marked = "None" /\ Marked' = "Perm" /\ FitIn(s2, align) = NoImage
      BY <1>8, <2>3, <3>1 DEF MarkOf, FLAG_SET, ERASED
    <3>3. OkInv' /\ (FitIn(s2, align) = NoImage => Spare \in {NoImage, Overlong})
      BY <1>9, <3>1, ImageType DEF Spare
    <3> QED BY <1>2, <1>3, <1>6, <3>2, <3>3 DEF Effect, Move
  <2>6. CASE ~MeetsOk(align, op) /\ ~MeetsMagic(op)
    <3>1. Marked' = Marked /\ OkInv'
      BY <1>8, <1>9, <1>10, <1>11, <1>13, <2>6 DEF MarkOf, OkInv
    <3> QED BY <1>2, <1>3, <1>6, <3>1 DEF Effect, Move
  <2> QED BY <2>4, <2>5, <2>6
<1> QED BY <1>4, <1>14, <1>15

\* What the erase of a page reaches.
LEMMA PageReach ==
  ASSUME align \in Aligns, NEW op \in Op, op.kind = "erase"
  PROVE  /\ LastPage(op) => /\ ImageOkOff(align) \in Reach(op)
                            /\ \A i \in 1..MAGIC_SIZE : MagicOff + i - 1 \in Reach(op)
         /\ EarlyPage(op) => /\ ImageOkOff(align) \notin Reach(op)
                             /\ \A i \in 1..MAGIC_SIZE : MagicOff + i - 1 \notin Reach(op)
         /\ op.off = 0 => 0 \in Reach(op)
<1>1. op.off \in Nat
  BY DEF Op, Program, Erasure
<1>2. Reach(op) = op.off..(op.off + PAGE_SIZE - 1)
  BY DEF Reach
<1>3. /\ SlotSize \in Nat /\ PAGE_SIZE \in Nat \ {0} /\ ImageOkOff(align) \in 0..SlotSize - 1
      /\ SlotSize - PAGE_SIZE <= ImageOkOff(align)
      /\ \A i \in 1..MAGIC_SIZE : MagicOff + i - 1 \in 0..SlotSize - 1
                                  /\ MagicOff + i - 1 > ImageOkOff(align)
  BY FieldOffsets, FlashAssumption, TrailerAssumption DEF Offset
<1>4. ASSUME NEW o \in 0..SlotSize - 1, o >= SlotSize - PAGE_SIZE
      PROVE  (LastPage(op) => o \in Reach(op)) /\ (EarlyPage(op) => o \notin Reach(op))
  BY <1>1, <1>2, <1>3, <1>4 DEF LastPage, EarlyPage
<1>5. \A i \in 1..MAGIC_SIZE : /\ LastPage(op) => MagicOff + i - 1 \in Reach(op)
                               /\ EarlyPage(op) => MagicOff + i - 1 \notin Reach(op)
  <2> TAKE i \in 1..MAGIC_SIZE
  <2> DEFINE o == MagicOff + i - 1
  <2>1. o \in 0..SlotSize - 1 /\ o > ImageOkOff(align)
    BY <1>3
  <2> HIDE DEF o
  <2>2. o >= SlotSize - PAGE_SIZE
    BY <1>3, <2>1
  <2>3. (LastPage(op) => o \in Reach(op)) /\ (EarlyPage(op) => o \notin Reach(op))
    BY <1>4, <2>1, <2>2
  <2> QED BY <2>3 DEF o
<1> QED BY <1>1, <1>2, <1>3, <1>4, <1>5

\* A program of an update that sets image_ok is of an image that lies over it.
LEMMA WrittenOk ==
  ASSUME BootInv, result = "Written", NEW op, Strike(op),
         \A k \in DOMAIN todo : todo[k].kind # "erase"
  PROVE  OkInv'
<1>1. /\ align \in Aligns /\ align' = align /\ 1 \in DOMAIN todo /\ todo # <<>>
      /\ op = todo[1] /\ op \in Op /\ todo \in Seq(Op) /\ op.area = "secondary"
  BY Rest DEF BootInv, SuccessInv, Typed, ReplaceInv, Strike
<1>2. op.kind = "program"
  BY <1>1, OpFacts
<1>3. PICK image \in Images :
        /\ UnitOf(op, align, "secondary", 0, image)
        /\ \A o \in 0..Len(image) - 1 :
             s2[o] = image[o + 1] \/ \E k \in DOMAIN todo : o \in Reach(todo[k])
        /\ MeetsOk(align, op) => \A k \in DOMAIN todo : 1 <= k => Above(align, todo[k])
        /\ s2[ImageOkOff(align)] = FLAG_SET => Above(align, op)
  BY <1>1, <1>2 DEF BootInv, WriteInv, LastPage
<1>4. /\ \A o \in Offset : o \notin Reach(op) => s2'[o] = s2[o]
      /\ \A o \in Offset : o \in Reach(op) => s2[o] = ERASED
      /\ Done(op, flash') \/ TornAt(op, flash')
  BY <1>1, <1>2, SecondSlot DEF Strike
<1>5. /\ ImageOkOff(align) \in Offset /\ ImageOkOff(align) \in Nat /\ ERASED # FLAG_SET
      /\ \A i \in 1..MAGIC_SIZE : MagicOff + i - 1 \in Offset
      /\ SwapSizeOff(align) <= ImageOkOff(align) /\ SwapSizeOff(align) \in Nat
      /\ Junk # FLAG_SET /\ \A o \in Offset : o \in Nat
  BY <1>1, FieldOffsets, FlashAssumption DEF Offset, ERASED, FLAG_SET
<1> SUFFICES ASSUME Magic(s2)' = "Unset", s2'[ImageOkOff(align)] = FLAG_SET
             PROVE  FitIn(s2', align) = NoImage
  BY <1>1 DEF OkInv
<1>6. Above(align, op) => \A o \in Offset : o < SwapSizeOff(align) => s2[o] = s2'[o]
  BY <1>4, <1>5 DEF Above
<1>7. CASE MeetsOk(align, op)
  <2>1. Fill(image, ImageOkOff(align) + 1) = FLAG_SET
    <3>1. Datum(op, ImageOkOff(align)) = FLAG_SET
      BY <1>1, <1>2, <1>4, <1>5, <1>7 DEF Done, TornAt, MeetsOk, s2
    <3>2. Datum(op, ImageOkOff(align)) = Fill(image, ImageOkOff(align) - 0 + 1)
      BY <1>3, <1>7 DEF UnitOf, MeetsOk
    <3>3. ImageOkOff(align) - 0 + 1 = ImageOkOff(align) + 1
      BY <1>5
    <3> QED BY <3>1, <3>2, <3>3
  <2>2. Len(image) \in Nat /\ Len(image) > SwapSizeOff(align)
    BY <1>5, <2>1, TrailerAssumption DEF Fill
  <2>3. \A k \in DOMAIN todo : Above(align, todo[k])
    BY <1>1, <1>3, <1>7
  <2>4. \A o \in Offset : o < SwapSizeOff(align) => s2[o] = image[o + 1]
    <3> SUFFICES ASSUME NEW o \in Offset, o < SwapSizeOff(align) PROVE s2[o] = image[o + 1]
      OBVIOUS
    <3>1. o \in Nat /\ o \in 0..Len(image) - 1 /\ ~(o >= SwapSizeOff(align))
      BY <1>5, <2>2
    <3> QED BY <1>3, <2>3, <3>1 DEF Above
  <2>5. \A o \in Offset : o < SwapSizeOff(align) => s2'[o] = image[o + 1]
    BY <1>1, <1>6, <2>3, <2>4
  <2> QED BY <1>1, <2>2, <2>5, NoneFits
<1>8. CASE ~MeetsOk(align, op)
  <2>1. s2[ImageOkOff(align)] = FLAG_SET
    BY <1>4, <1>5, <1>8 DEF MeetsOk
  <2>2. Magic(s2) = "Unset"
    <3> SUFFICES ASSUME NEW j \in 1..MAGIC_SIZE
                 PROVE  s2[MagicOff + j - 1] = ERASED
      BY MagicIs
    <3>1. s2'[MagicOff + j - 1] = ERASED
      BY MagicIs
    <3> QED BY <1>4, <1>5, <3>1
  <2>3. FitIn(s2', align) = FitIn(s2, align)
    BY <1>1, <1>3, <1>6, <2>1, SameFit
  <2> QED BY <2>1, <2>2, <2>3 DEF BootInv, OkInv
<1> QED BY <1>7, <1>8

\* Those of an update, and of set_pending on a bad magic: the second slot loses
\* its mark, or its image.
LEMMA ReplaceStrikes ==
  ASSUME BootInv, result \in {"Written", "BadImage"}, NEW op, Strike(op)
  PROVE  Effect
<1>1. /\ align \in Aligns /\ align' = align /\ 1 \in DOMAIN todo /\ todo # <<>>
      /\ op = todo[1] /\ op.area = "secondary" /\ op \in Op
  BY Rest DEF BootInv, SuccessInv, Typed, ReplaceInv, Strike
<1>2. /\ p' = p /\ Running' = Running /\ ~OnTrial /\ ~OnTrial'
      /\ \A o \in Offset : o \notin Reach(op) => s2'[o] = s2[o]
      /\ op.kind # "erase" => \A o \in Offset : o \in Reach(op) => s2[o] = ERASED
  BY <1>1, SecondSlot
<1>3. Done(op, flash') \/ TornAt(op, flash')
  BY DEF Strike
<1>4. /\ 0 \in Offset /\ ImageOkOff(align) \in Offset
      /\ \A i \in 1..MAGIC_SIZE : MagicOff + i - 1 \in Offset
  BY <1>1, FieldOffsets, TrailerAssumption DEF Offset
<1>5. Marked = MarkOf(s2) /\ Marked' = IF Magic(s2)' = "Good" /\ s2'[ImageOkOff(align)] = ERASED THEN "Test"
               ELSE IF Magic(s2)' = "Good" /\ s2'[ImageOkOff(align)] = FLAG_SET THEN "Perm"
               ELSE "None"
  BY <1>1 DEF Marked, MarkOf
<1>6. OkInv' <=> (Magic(s2)' = "Unset" /\ s2'[ImageOkOff(align)] = FLAG_SET
                  => FitIn(s2', align) = NoImage)
  BY <1>1 DEF OkInv
<1>7. OkInv /\ Junk # FLAG_SET /\ ERASED # FLAG_SET
  BY FlashAssumption DEF BootInv, ERASED, FLAG_SET
<1>8. CASE op.kind = "erase"
  <2>1. \A o \in Offset : o \in Reach(op) => s2'[o] \in {ERASED, Junk}
    BY <1>1, <1>3, <1>8 DEF Done, TornAt, s2
  <2>2. LastPage(op) \/ EarlyPage(op)
    BY <1>1, <1>8 DEF BootInv, ReplaceInv
  <2>3. CASE LastPage(op)
    <3>1. 1 \in 1..MAGIC_SIZE
      BY TrailerAssumption
    <3>2. s2'[MagicOff + 1 - 1] \in {ERASED, Junk} /\ s2'[ImageOkOff(align)] \in {ERASED, Junk}
      BY <1>1, <1>4, <1>8, <2>1, <2>3, <3>1, PageReach
    <3>3. Magic(s2)' # "Good"
      BY <3>1, <3>2, FlashAssumption, MagicIs
    <3> QED BY <1>2, <1>5, <1>6, <1>7, <3>2, <3>3 DEF Effect, Move
  <2>4. CASE EarlyPage(op)
    <3>1. ~MeetsMagic(op) /\ ImageOkOff(align) \notin Reach(op)
      BY <1>1, <1>8, <2>4, PageReach DEF MeetsMagic
    <3>2. Magic(s2)' = Magic(s2) /\ s2'[ImageOkOff(align)] = s2[ImageOkOff(align)]
      BY <1>1, <1>2, <1>4, <3>1, MagicKept
    <3>3. Marked' = Marked
      BY <1>5, <3>2 DEF MarkOf
    <3>4. s2'[0] \in {ERASED, Junk}
      <4>1. op.off = 0 \/ s2[0] = ERASED
        BY <1>1, <1>8 DEF BootInv, ReplaceInv
      <4>2. op.off = 0 => 0 \in Reach(op)
        BY <1>1, <1>8, PageReach
      <4> QED BY <1>2, <1>4, <2>1, <4>1, <4>2
    <3>5. Spare' = NoImage /\ OkInv'
      <4>1. FitIn(s2', align) = NoImage /\ Seen(s2', align) = NoImage
        BY <3>4, FirstGone
      <4> QED BY <1>1, <1>6, <4>1 DEF Spare
    <3> QED BY <1>2, <3>3, <3>5 DEF Effect, Move
  <2> QED BY <2>2, <2>3, <2>4
<1>9. CASE op.kind = "program"
  <2>1. \A k \in DOMAIN todo : 1 <= k
    BY DEF BootInv, SuccessInv, Typed
  <2>2. \A k \in DOMAIN todo : todo[k].kind # "erase"
    BY <1>1, <1>9, <2>1 DEF BootInv, ReplaceInv
  <2>3. PICK i \in 1..MAGIC_SIZE : Spares(op, i) /\ s2[MagicOff + i - 1] # MagicBytes[i]
    BY <1>1, <1>9, <2>2 DEF BootInv, ReplaceInv, LastPage
  <2>4. s2'[MagicOff + i - 1] # MagicBytes[i]
    BY <1>1, <1>2, <1>3, <1>4, <1>9, <2>3, FlashAssumption DEF Done, TornAt, Spares, s2
  <2>5. Magic(s2)' # "Good"
    BY <2>4, MagicIs
  <2>6. result = "Written"
    BY <1>1, <2>2 DEF BootInv, ReplaceInv
  <2>7. OkInv'
    BY <2>2, <2>6, WrittenOk
  <2> QED BY <1>2, <1>5, <2>5, <2>7 DEF Effect, Move
<1> QED BY <1>1, <1>8, <1>9, OpFacts

\* However one write of a call ends, that is what it does.
LEMMA WriteEffect ==
  ASSUME BootInv, Carry \/ Fail \/ Reset
  PROVE  Effect
<1>1. flash \in FlashType /\ todo \in Seq(Op) /\ align' = align
  BY DEF BootInv, SuccessInv, Typed, Carry, Fail, Reset
<1>2. CASE flash' = flash
  <2>1. /\ Running' = Running /\ Spare' = Spare /\ Marked' = Marked /\ (OnTrial' <=> OnTrial)
        /\ Magic(s2)' = Magic(s2) /\ OkInv'
    BY <1>1, <1>2, CallKeeps
  <2>2. OnTrial => Magic(s2) = "Unset"
    BY DEF BootInv, TrialInv
  <2> QED BY <2>1, <2>2 DEF Effect, Move
<1>3. CASE flash' # flash
  <2> DEFINE op == Head(todo)
  <2>1. /\ todo # <<>> /\ Programmable(op)
        /\ flash' \in {Applied(op), Torn(op)}
    BY <1>3 DEF Carry, Fail, Reset
  <2>2. op = todo[1] /\ op \in Op
    BY <1>1, <2>1, Rest
  <2> HIDE DEF op
  <2>3. Landed(op, flash') /\ (Done(op, flash') \/ TornAt(op, flash'))
    BY <1>1, <2>1, <2>2, AppliedFacts, TornFacts
  <2>4. Strike(op)
    BY <1>1, <2>1, <2>2, <2>3 DEF Strike
  <2>5. result \in {"Written", "BadImage", "Pending", "Confirmed"}
    BY <2>1 DEF BootInv, SuccessInv, CallInv
  <2> QED BY <2>4, <2>5, ReplaceStrikes, PendingStrikes, ConfirmStrikes
<1> QED BY <1>2, <1>3

\* A call that is cut off leaves nothing to do.
LEMMA CutBoot ==
  ASSUME BootInv, Fail \/ Reset
  PROVE  BootInv' /\ Move
<1>1. Effect
  BY WriteEffect
<1>2. SuccessInv'
  BY SuccessStep DEF BootInv, Next
<1>3. todo' = <<>> /\ result' \in {"none", "Flash", "BadImage"}
      /\ (result' = "BadImage" => result = "BadImage")
  BY DEF Fail, Reset
<1>4. ReplaceInv' /\ WriteInv' /\ OrderInv' /\ VouchInv'
  BY <1>3 DEF ReplaceInv, WriteInv, OrderInv, VouchInv
<1>5. TrialInv'
  BY <1>1, <1>3 DEF Effect, TrialInv, BootInv
<1> QED BY <1>1, <1>2, <1>4, <1>5 DEF Effect, BootInv

\* What is left of an update once a program or an erase of it has ended.
LEMMA CarryWrite ==
  ASSUME BootInv, Carry
  PROVE  WriteInv'
<1> DEFINE op == todo[1]
<1> SUFFICES ASSUME result = "Written", todo' # <<>> PROVE WriteInv'
  BY DEF WriteInv, Carry
<1>1. /\ todo # <<>> /\ todo \in Seq(Op) /\ align \in Aligns /\ flash \in FlashType
      /\ align' = align /\ todo' = Tail(todo) /\ flash' = Applied(Head(todo))
  BY DEF Carry, BootInv, SuccessInv, Typed
<1>2. /\ op \in Op /\ op = Head(todo) /\ 1 \in DOMAIN todo
      /\ \A k \in DOMAIN todo' : k \in Nat /\ k + 1 \in DOMAIN todo /\ todo'[k] = todo[k + 1]
      /\ \A k \in DOMAIN todo : /\ k = 1 \/ (k - 1 \in DOMAIN todo' /\ todo'[k - 1] = todo[k])
                                /\ k \in Nat /\ 1 <= k
  BY <1>1, Rest
<1>3. op.area = "secondary" /\ (op.kind = "erase" \/ op.kind = "program")
      /\ (op.kind = "erase" => LastPage(op) \/ EarlyPage(op))
      /\ \A j, k \in DOMAIN todo : j <= k /\ todo[k].kind = "erase" => todo[j].kind = "erase"
  BY <1>1, <1>2, OpFacts DEF BootInv, ReplaceInv
<1>4. PICK image \in Images :
      /\ \A k \in DOMAIN todo :
           todo[k].kind = "program" => UnitOf(todo[k], align, "secondary", 0, image)
      /\ \A o \in 0..Len(image) - 1 :
           \/ s2[o] = image[o + 1] /\ \A k \in DOMAIN todo : todo[k].kind # "erase"
           \/ \E k \in DOMAIN todo : todo[k].kind = "program" /\ o \in Reach(todo[k])
      /\ \A j, k \in DOMAIN todo :
           /\ todo[j].kind = "program" /\ MeetsOk(align, todo[j]) /\ j <= k
           => Above(align, todo[k])
      /\ s2[ImageOkOff(align)] = FLAG_SET =>
           \/ \E k \in DOMAIN todo : LastPage(todo[k])
           \/ \A k \in DOMAIN todo : Above(align, todo[k])
  BY <1>1, Zenon DEF BootInv, WriteInv
<1>5. Landed(op, flash') /\ Done(op, flash')
  BY <1>1, <1>2, AppliedFacts
<1> HIDE DEF op
<1>6. /\ ImageOkOff(align) \in Offset /\ Len(image) \in Nat /\ Len(image) < SlotSize
      /\ \A o \in 0..Len(image) - 1 : o \in Offset /\ o - 0 + 1 = o + 1 /\ o + 1 <= Len(image)
  BY <1>1, FieldOffsets, TrailerAssumption DEF Offset
<1>7. /\ \A o \in Offset : o \notin Reach(op) => s2'[o] = s2[o]
      /\ \A o \in Offset : o \in Reach(op) =>
           s2'[o] = IF op.kind = "erase" THEN ERASED ELSE Datum(op, o)
  BY <1>3, <1>5 DEF Landed, Done, s2
<1>8. \A k \in DOMAIN todo' :
        todo'[k].kind = "program" => UnitOf(todo'[k], align, "secondary", 0, image)
  BY <1>2, <1>4
<1>9. ASSUME NEW o \in 0..Len(image) - 1
      PROVE  \/ s2'[o] = image[o + 1] /\ \A k \in DOMAIN todo' : todo'[k].kind # "erase"
             \/ \E k \in DOMAIN todo' : todo'[k].kind = "program" /\ o \in Reach(todo'[k])
  <2>1. ASSUME NEW k \in DOMAIN todo, todo[k].kind = "program", o \in Reach(todo[k]), k # 1
        PROVE  \E j \in DOMAIN todo' : todo'[j].kind = "program" /\ o \in Reach(todo'[j])
    BY <1>2, <2>1
  <2>0. op.kind = "program" => \A k \in DOMAIN todo' : todo'[k].kind # "erase"
    BY <1>2, <1>3 DEF op
  <2>2. CASE op.kind = "program" /\ o \in Reach(op)
    <3>1. Datum(op, o) = Fill(image, o - 0 + 1)
      BY <1>2, <1>4, <2>2 DEF UnitOf, op
    <3>2. Datum(op, o) = image[o + 1]
      BY <1>6, <3>1 DEF Fill
    <3> QED BY <1>6, <1>7, <2>0, <2>2, <3>2
  <2>3. CASE op.kind = "program" /\ o \notin Reach(op)
    <3>1. s2'[o] = s2[o]
      BY <1>6, <1>7, <2>3
    <3> QED BY <1>4, <2>0, <2>1, <2>3, <3>1 DEF op
  <2>4. CASE op.kind = "erase"
    <3>1. PICK k \in DOMAIN todo : todo[k].kind = "program" /\ o \in Reach(todo[k])
      BY <1>2, <1>4, <2>4 DEF op
    <3> QED BY <2>1, <2>4, <3>1 DEF op
  <2> QED BY <1>3, <2>2, <2>3, <2>4
<1>10. \A j, k \in DOMAIN todo' :
         /\ todo'[j].kind = "program" /\ MeetsOk(align, todo'[j]) /\ j <= k
         => Above(align, todo'[k])
  <2> TAKE j, k \in DOMAIN todo'
  <2>1. j \in Nat /\ k \in Nat /\ j + 1 \in DOMAIN todo /\ k + 1 \in DOMAIN todo
        /\ todo'[j] = todo[j + 1] /\ todo'[k] = todo[k + 1]
    BY <1>2
  <2>2. j <= k => j + 1 <= k + 1
    BY <2>1
  <2> QED BY <1>4, <2>1, <2>2
<1>11. ASSUME s2'[ImageOkOff(align)] = FLAG_SET
       PROVE  \/ \E k \in DOMAIN todo' : LastPage(todo'[k])
              \/ \A k \in DOMAIN todo' : Above(align, todo'[k])
  <2>1. CASE op.kind = "program" /\ MeetsOk(align, op)
    BY <1>2, <1>4, <2>1 DEF op
  <2>2. CASE op.kind = "erase" /\ LastPage(op)
    <3>1. ImageOkOff(align) \in Reach(op)
      BY <1>1, <1>2, <2>2, PageReach
    <3> QED BY <1>6, <1>7, <1>11, <2>2, <3>1 DEF ERASED, FLAG_SET
  <2>3. CASE ImageOkOff(align) \notin Reach(op) /\ ~LastPage(op)
    <3>1. s2[ImageOkOff(align)] = FLAG_SET
      BY <1>6, <1>7, <1>11, <2>3
    <3> QED BY <1>2, <1>4, <2>3, <3>1 DEF op
  <2>4. CASE op.kind = "erase" /\ ~LastPage(op)
    BY <1>1, <1>2, <1>3, <2>3, <2>4, PageReach
  <2>5. CASE op.kind = "program" /\ ~MeetsOk(align, op)
    BY <2>3, <2>5 DEF LastPage, MeetsOk
  <2> QED BY <1>3, <2>1, <2>2, <2>4, <2>5
<1>12. WriteInv' <=> (result' = "Written" /\ todo' # <<>> =>
    \E i \in Images :
      /\ \A k \in DOMAIN todo' :
           todo'[k].kind = "program" => UnitOf(todo'[k], align, "secondary", 0, i)
      /\ \A o \in 0..Len(i) - 1 :
           \/ s2'[o] = i[o + 1] /\ \A k \in DOMAIN todo' : todo'[k].kind # "erase"
           \/ \E k \in DOMAIN todo' : todo'[k].kind = "program" /\ o \in Reach(todo'[k])
      /\ \A j, k \in DOMAIN todo' :
           /\ todo'[j].kind = "program" /\ MeetsOk(align, todo'[j]) /\ j <= k
           => Above(align, todo'[k])
      /\ s2'[ImageOkOff(align)] = FLAG_SET =>
           \/ \E k \in DOMAIN todo' : LastPage(todo'[k])
           \/ \A k \in DOMAIN todo' : Above(align, todo'[k]))
  BY <1>1 DEF WriteInv
<1> QED BY <1>8, <1>9, <1>10, <1>11, <1>12, Zenon

\* A program or an erase that ends leaves the rest of its call to do.
LEMMA CarryBoot ==
  ASSUME BootInv, Carry
  PROVE  BootInv' /\ Move
<1> DEFINE op == todo[1]
<1>1. Effect
  BY WriteEffect
<1>2. SuccessInv'
  BY SuccessStep DEF BootInv, Next
<1>3. /\ todo # <<>> /\ todo \in Seq(Op) /\ align \in Aligns /\ flash \in FlashType
      /\ align' = align /\ result' = result /\ asked' = asked /\ vouched' = vouched
      /\ Programmable(Head(todo)) /\ todo' = Tail(todo) /\ flash' = Applied(Head(todo))
  BY DEF Carry, BootInv, SuccessInv, Typed
<1>4. /\ op \in Op /\ op = Head(todo) /\ 1 \in DOMAIN todo
      /\ \A k \in DOMAIN todo' : k \in Nat /\ k + 1 \in DOMAIN todo /\ todo'[k] = todo[k + 1]
      /\ \A k \in DOMAIN todo : /\ k = 1 \/ (k - 1 \in DOMAIN todo' /\ todo'[k - 1] = todo[k])
                                /\ k \in Nat /\ 1 <= k
  BY <1>3, Rest
<1> HIDE DEF op
<1>5. Landed(op, flash') /\ Done(op, flash') /\ Strike(op)
  BY <1>3, <1>4, AppliedFacts DEF Strike, op
<1>6. /\ 0 \in Offset /\ ImageOkOff(align) \in Offset
      /\ \A i \in 1..MAGIC_SIZE : MagicOff + i - 1 \in Offset
  BY <1>3, FieldOffsets, TrailerAssumption DEF Offset
<1>7. ReplaceInv'
  <2> SUFFICES ASSUME result \in {"Written", "BadImage"}, todo' # <<>> PROVE ReplaceInv'
    BY <1>3 DEF ReplaceInv
  <2>1. /\ result = "BadImage" => \A k \in DOMAIN todo : todo[k].kind = "erase"
        /\ \A k \in DOMAIN todo : /\ todo[k].area = "secondary"
                                  /\ todo[k].kind = "erase" => LastPage(todo[k]) \/ EarlyPage(todo[k])
        /\ \A j, k \in DOMAIN todo : j <= k /\ todo[k].kind = "erase" => todo[j].kind = "erase"
        /\ todo[1].kind = "erase" => todo[1].off = 0 \/ s2[0] = ERASED
    BY <1>3, Zenon DEF ReplaceInv, BootInv
  <2>2. PICK i \in 1..MAGIC_SIZE :
          /\ \A k \in DOMAIN todo : todo[k].kind = "program" => Spares(todo[k], i)
          /\ s2[MagicOff + i - 1] # MagicBytes[i] \/ \E k \in DOMAIN todo : LastPage(todo[k])
    BY <1>3, Zenon DEF ReplaceInv, BootInv
  <2>3. op.area = "secondary" /\ (\A o \in Offset : o \notin Reach(op) => s2'[o] = s2[o])
        /\ \A o \in Offset : o \in Reach(op) =>
             s2'[o] = IF op.kind = "erase" THEN ERASED ELSE Datum(op, o)
    BY <1>4, <1>5, <2>1 DEF Landed, Done, s2, op
  <2>4. /\ result' = "BadImage" => \A k \in DOMAIN todo' : todo'[k].kind = "erase"
        /\ \A k \in DOMAIN todo' :
             /\ todo'[k].area = "secondary"
             /\ todo'[k].kind = "erase" => LastPage(todo'[k]) \/ EarlyPage(todo'[k])
    BY <1>3, <1>4, <2>1
  <2>5. \A j, k \in DOMAIN todo' : j <= k /\ todo'[k].kind = "erase" => todo'[j].kind = "erase"
    <3> TAKE j, k \in DOMAIN todo'
    <3>1. j \in Nat /\ k \in Nat /\ j + 1 \in DOMAIN todo /\ k + 1 \in DOMAIN todo
          /\ todo'[j] = todo[j + 1] /\ todo'[k] = todo[k + 1]
      BY <1>4
    <3>2. j <= k => j + 1 <= k + 1
      BY <3>1
    <3> QED BY <2>1, <3>1, <3>2
  <2>6. todo'[1].kind = "erase" => todo'[1].off = 0 \/ s2'[0] = ERASED
    <3> SUFFICES ASSUME todo'[1].kind = "erase" PROVE s2'[0] = ERASED
      OBVIOUS
    <3>1. 1 + 1 \in DOMAIN todo /\ todo'[1] = todo[1 + 1]
      <4>1. 1 \in DOMAIN todo'
        BY <1>3, <1>4, <2>4, Rest DEF BootInv, SuccessInv, Typed
      <4> QED BY <1>4, <4>1
    <3>2. op.kind = "erase"
      BY <1>4, <2>1, <3>1 DEF op
    <3>3. op.off = 0 => 0 \in Reach(op)
      BY <1>3, <1>4, <3>2, PageReach
    <3> QED BY <1>6, <2>1, <2>3, <3>2, <3>3 DEF op
  <2>7. \A k \in DOMAIN todo' : todo'[k].kind = "program" => Spares(todo'[k], i)
    BY <1>4, <2>2
  <2>8. s2'[MagicOff + i - 1] # MagicBytes[i] \/ \E k \in DOMAIN todo' : LastPage(todo'[k])
    <3>1. MagicOff + i - 1 \in Offset /\ MagicBytes[i] # ERASED
      BY <1>6, FlashAssumption
    <3>2. CASE s2[MagicOff + i - 1] # MagicBytes[i]
      <4>1. op.kind = "program" /\ MagicOff + i - 1 \in Reach(op) =>
              Datum(op, MagicOff + i - 1) # MagicBytes[i]
        BY <1>4, <2>2 DEF Spares, op
      <4>2. op.kind = "program" \/ op.kind = "erase"
        BY <1>4, OpFacts
      <4> QED BY <2>3, <3>1, <3>2, <4>1, <4>2
    <3>3. ASSUME NEW k \in DOMAIN todo, LastPage(todo[k])
          PROVE  s2'[MagicOff + i - 1] # MagicBytes[i] \/ \E j \in DOMAIN todo' : LastPage(todo'[j])
      <4>1. CASE k = 1
        <5>1. op.kind = "erase" /\ LastPage(op)
          BY <3>3, <4>1 DEF LastPage, op
        <5>2. MagicOff + i - 1 \in Reach(op)
          BY <1>3, <1>4, <5>1, PageReach
        <5> QED BY <2>3, <3>1, <5>1, <5>2
      <4>2. CASE k # 1
        BY <1>4, <3>3, <4>2
      <4> QED BY <4>1, <4>2
    <3> QED BY <2>2, <3>2, <3>3
  <2> QED BY <2>4, <2>5, <2>6, <2>7, <2>8 DEF ReplaceInv
<1>8. OrderInv'
  <2> SUFFICES ASSUME result = "Pending" PROVE OrderInv'
    BY <1>3 DEF OrderInv
  <2>1. /\ asked # {}
        /\ \A k \in DOMAIN todo : MeetsOk(align, todo[k]) => "Perm" \in asked
        /\ \A j, k \in DOMAIN todo : MeetsOk(align, todo[j]) /\ j <= k => ~MeetsMagic(todo[k])
        /\ (\E k \in DOMAIN todo : MeetsMagic(todo[k])) =>
             s2[ImageOkOff(align)] # FLAG_SET \/ FitIn(s2, align) = NoImage
    BY DEF OrderInv, BootInv
  <2>2. MarkOp(align, op)
    BY <1>4 DEF BootInv, SuccessInv, MarksInv, op
  <2>3. op.area = "secondary" /\ op.kind # "erase"
    BY <2>2 DEF MarkOp, Program
  <2>4. (\A o \in Offset : o \notin Reach(op) => s2'[o] = s2[o])
        /\ \A o \in Offset : o \in Reach(op) => s2'[o] = Datum(op, o)
    BY <1>5, <2>3 DEF Landed, Done, s2
  <2>5. FitIn(s2', align) = FitIn(s2, align)
    <3>1. \A o \in Offset : o < SwapSizeOff(align) => s2[o] = s2'[o]
      BY <1>3, <2>2, <2>4, FieldOffsets DEF MarkOp, Offset
    <3> QED BY <1>3, <3>1, SameFit
  <2>6. \A k \in DOMAIN todo' : MeetsOk(align', todo'[k]) => "Perm" \in asked'
    BY <1>3, <1>4, <2>1 DEF MeetsOk
  <2>7. \A j, k \in DOMAIN todo' : MeetsOk(align', todo'[j]) /\ j <= k => ~MeetsMagic(todo'[k])
    <3> TAKE j, k \in DOMAIN todo'
    <3>1. j \in Nat /\ k \in Nat /\ j + 1 \in DOMAIN todo /\ k + 1 \in DOMAIN todo
          /\ todo'[j] = todo[j + 1] /\ todo'[k] = todo[k + 1]
      BY <1>4
    <3>2. j <= k => j + 1 <= k + 1
      BY <3>1
    <3> QED BY <1>3, <2>1, <3>1, <3>2
  <2>8. ASSUME NEW k \in DOMAIN todo', MeetsMagic(todo'[k])
        PROVE  s2'[ImageOkOff(align)] # FLAG_SET \/ FitIn(s2', align) = NoImage
    <3>1. k + 1 \in DOMAIN todo /\ MeetsMagic(todo[k + 1]) /\ 1 <= k + 1
      BY <1>4, <2>8
    <3>2. ~MeetsOk(align, op)
      BY <1>4, <2>1, <3>1 DEF op
    <3> QED BY <1>6, <2>1, <2>4, <2>5, <3>1, <3>2 DEF MeetsOk
  <2> QED BY <1>3, <2>1, <2>6, <2>7, <2>8 DEF OrderInv
<1>9. VouchInv'
  BY <1>3 DEF VouchInv, BootInv
<1>10. TrialInv'
  BY <1>1, <1>3 DEF Effect, TrialInv, BootInv
<1>11. WriteInv'
  BY CarryWrite
<1> QED BY <1>1, <1>2, <1>7, <1>8, <1>9, <1>10, <1>11 DEF Effect, BootInv

------------------------------------------------------------------------------
(* What the calls set out to write. *)

\* Every page of a slot is the last one or lies below it.
LEMMA ErasePages ==
  LET w == EraseAll("secondary")
  IN  /\ \A k \in DOMAIN w : LastPage(w[k]) \/ EarlyPage(w[k])
      /\ \E k \in DOMAIN w : LastPage(w[k])
<1> DEFINE w == EraseAll("secondary")
<1>1. PAGE_SIZE \in Nat \ {0} /\ SlotSize \in Nat \ {0} /\ SlotSize % PAGE_SIZE = 0
  BY TrailerAssumption
<1>2. PICK q \in Nat \ {0} : SlotSize = PAGE_SIZE * q
  <2>1. \E q \in Nat \ {0} : SlotSize = PAGE_SIZE * q /\ PAGE_SIZE <= SlotSize
    BY <1>1, Multiple
  <2> QED BY <2>1
<1>3. SlotSize \div PAGE_SIZE = q
  <2>1. (PAGE_SIZE * q + 0) \div PAGE_SIZE = q
    BY <1>1, ModUnique
  <2>2. PAGE_SIZE * q + 0 = SlotSize
    BY <1>1, <1>2
  <2> QED BY <2>1, <2>2
<1>4. DOMAIN w = 1..q
  BY <1>3 DEF EraseAll
<1>5. \A k \in DOMAIN w : w[k].kind = "erase" /\ w[k].off = (k - 1) * PAGE_SIZE
  BY DEF EraseAll
<1> HIDE DEF w
<1>6. ASSUME NEW k \in DOMAIN w PROVE LastPage(w[k]) \/ EarlyPage(w[k])
  <2>1. CASE k = q
    <3>1. (q - 1) * PAGE_SIZE = SlotSize - PAGE_SIZE
      BY <1>1, <1>2
    <3> QED BY <1>5, <2>1, <3>1 DEF LastPage
  <2>2. CASE k # q
    <3> DEFINE d == q - 1 - k
    <3>1. k \in 1..q /\ d \in Nat /\ q - 1 = k + d
      BY <1>4, <2>2
    <3> HIDE DEF d
    <3>2. (q - 1) * PAGE_SIZE = SlotSize - PAGE_SIZE
      BY <1>1, <1>2
    <3>3. (k + d) * PAGE_SIZE = k * PAGE_SIZE + d * PAGE_SIZE /\ d * PAGE_SIZE >= 0
          /\ k * PAGE_SIZE = (k - 1) * PAGE_SIZE + PAGE_SIZE
      BY <1>1, <3>1
    <3>4. (k + d) * PAGE_SIZE = SlotSize - PAGE_SIZE
      BY <3>1, <3>2
    <3> DEFINE u == (k - 1) * PAGE_SIZE
               v == d * PAGE_SIZE
               x == (k + d) * PAGE_SIZE
               y == k * PAGE_SIZE
    <3>5. u \in Int /\ v \in Int
      BY <1>1, <3>1
    <3>6. x = y + v /\ v >= 0 /\ y = u + PAGE_SIZE /\ x = SlotSize - PAGE_SIZE
      BY <3>3, <3>4
    <3> HIDE DEF u, v, x, y
    <3>7. u + PAGE_SIZE <= SlotSize - PAGE_SIZE
      BY <1>1, <3>5, <3>6
    <3> QED BY <1>5, <3>7 DEF EarlyPage, u
  <2> QED BY <2>1, <2>2
<1>7. q \in DOMAIN w /\ LastPage(w[q])
  <2>1. (q - 1) * PAGE_SIZE = SlotSize - PAGE_SIZE
    BY <1>1, <1>2
  <2> QED BY <1>4, <1>5, <2>1 DEF LastPage
<1> QED BY <1>6, <1>7 DEF w

\* No image writes the whole magic: each ends before the slot does.
LEMMA Blot ==
  ASSUME align \in Aligns, NEW image \in Images, NEW op,
         UnitOf(op, align, "secondary", 0, image)
  PROVE  Spares(op, MAGIC_SIZE)
<1>1. /\ image \in Seq(Byte) /\ Len(image) \in Nat /\ Len(image) < SlotSize
      /\ MAGIC_SIZE \in Nat \ {0} /\ MagicBytes[MAGIC_SIZE] # ERASED
      /\ SlotSize \in Nat /\ MagicOff = SlotSize - MAGIC_SIZE
  BY TrailerAssumption, FlashAssumption DEF MagicOff
<1> SUFFICES ASSUME MagicOff + MAGIC_SIZE - 1 \in Reach(op)
             PROVE  Datum(op, MagicOff + MAGIC_SIZE - 1) # MagicBytes[MAGIC_SIZE]
  BY DEF Spares
<1>2. Datum(op, MagicOff + MAGIC_SIZE - 1) = Fill(image, (MagicOff + MAGIC_SIZE - 1) - 0 + 1)
  BY DEF UnitOf
<1>3. (MagicOff + MAGIC_SIZE - 1) - 0 + 1 = SlotSize
  BY <1>1
<1> QED BY <1>1, <1>2, <1>3 DEF Fill

\* The units of an image are written in order.
LEMMA InOrder ==
  ASSUME align \in Aligns, NEW image \in Images,
         NEW t, t = Write(align, "secondary", 0, image),
         NEW j \in DOMAIN t, NEW k \in DOMAIN t, MeetsOk(align, t[j]), j <= k
  PROVE  Above(align, t[k])
<1> DEFINE n == (Len(image) + align - 1) \div align
<1>1. align \in Nat \ {0} /\ Layout(align) /\ image \in Seq(Byte) /\ "secondary" \in Area
  BY Geometry, TrailerAssumption DEF Area
<1>2. DOMAIN t = 1..n /\ \A i \in 1..n : t[i] = Unit(align, "secondary", 0, image, i)
  BY DEF Write
<1> HIDE DEF n
<1>3. j \in Nat \ {0} /\ k \in Nat \ {0}
  <2>1. t \in Seq(Op)
    BY <1>1, WriteFacts
  <2> QED BY <2>1
<1>4. /\ Reach(t[j]) = (0 + (j - 1) * align)..(0 + (j - 1) * align + align - 1)
      /\ Reach(t[k]) = (0 + (k - 1) * align)..(0 + (k - 1) * align + align - 1)
  <2>1. ASSUME NEW i \in Nat \ {0}
        PROVE  Reach(Unit(align, "secondary", 0, image, i))
                 = (0 + (i - 1) * align)..(0 + (i - 1) * align + align - 1)
    <3>1. 0 \in Nat
      OBVIOUS
    <3> QED BY <1>1, <3>1, UnitFacts
  <2>2. t[j] = Unit(align, "secondary", 0, image, j) /\ t[k] = Unit(align, "secondary", 0, image, k)
    BY <1>2
  <2> QED BY <1>3, <2>1, <2>2
<1> DEFINE u == (j - 1) * align
           v == (k - 1) * align
<1>5. u \in Nat /\ v \in Nat /\ u <= v
  <2> DEFINE d == k - j
  <2>1. d \in Nat /\ k = j + d
    BY <1>3
  <2> DEFINE x == j - 1
  <2>2. x \in Nat /\ k - 1 = x + d
    BY <1>3, <2>1
  <2> HIDE DEF d, x
  <2>3. (x + d) * align = x * align + d * align /\ d * align \in Nat /\ x * align \in Nat
    BY <1>1, <2>1, <2>2
  <2>4. u = x * align /\ v = x * align + d * align
    BY <2>2, <2>3 DEF x
  <2> HIDE DEF u, v
  <2> QED BY <2>3, <2>4
<1> HIDE DEF u, v
<1>6. ImageOkOff(align) \in u..u + align - 1 /\ Reach(t[k]) = v..v + align - 1
  <2>1. Reach(t[j]) = (0 + u)..(0 + u + align - 1) /\ Reach(t[k]) = (0 + v)..(0 + v + align - 1)
    BY <1>4 DEF u, v
  <2>2. 0 + u = u /\ 0 + v = v
    BY <1>5
  <2> QED BY <2>1, <2>2 DEF MeetsOk
<1>7. v >= SwapSizeOff(align)
  BY <1>1, <1>5, <1>6 DEF Layout
<1> QED BY <1>1, <1>5, <1>6, <1>7 DEF Above, Layout

\* The writes of a call that replaces what the second slot holds.
ReplaceList(l, i) ==
  /\ \A k \in DOMAIN l : /\ l[k].area = "secondary"
                         /\ l[k].kind = "erase" => LastPage(l[k]) \/ EarlyPage(l[k])
  /\ \A j, k \in DOMAIN l : j <= k /\ l[k].kind = "erase" => l[j].kind = "erase"
  /\ l[1].off = 0
  /\ \A k \in DOMAIN l : l[k].kind = "program" => Spares(l[k], i)
  /\ \E k \in DOMAIN l : LastPage(l[k])

\* An erase of the second slot, then programs that spare a byte of the magic.
LEMMA ReplaceJoined ==
  ASSUME NEW w \in Seq(Op), w # <<>>, w[1].off = 0,
         \A k \in DOMAIN w : w[k] \in Erasure /\ (LastPage(w[k]) \/ EarlyPage(w[k])),
         \E k \in DOMAIN w : LastPage(w[k]),
         NEW i, NEW t \in Seq(Op),
         \A k \in DOMAIN t : t[k].area = "secondary" /\ t[k].kind = "program" /\ Spares(t[k], i),
         NEW u \in Seq(Op),
         \A k \in DOMAIN u : \/ k \in DOMAIN w /\ u[k] = w[k]
                             \/ \E j \in DOMAIN t : k = Len(w) + j /\ u[k] = t[j],
         \A k \in DOMAIN w : k \in DOMAIN u /\ u[k] = w[k]
  PROVE  ReplaceList(u, i)
<1>1. 1 \in DOMAIN w /\ DOMAIN w = 1..Len(w) /\ Len(w) \in Nat /\ DOMAIN t \subseteq Nat
  OBVIOUS
<1>2. \A k \in DOMAIN w : w[k].kind = "erase" /\ w[k].area = "secondary"
  <2>1. \A e \in Erasure : e.kind = "erase" /\ e.area = "secondary"
    BY DEF Erasure
  <2> QED BY <2>1
<1>3. \A k \in DOMAIN u : u[k].kind = "erase" => k \in DOMAIN w
  BY <1>2
<1>4. ASSUME NEW k \in DOMAIN u
      PROVE  /\ u[k].area = "secondary"
             /\ u[k].kind = "erase" => LastPage(u[k]) \/ EarlyPage(u[k])
             /\ u[k].kind = "program" => Spares(u[k], i)
  <2>1. CASE k \in DOMAIN w /\ u[k] = w[k]
    BY <1>2, <2>1
  <2>2. ASSUME NEW j \in DOMAIN t, u[k] = t[j]
        PROVE  u[k].area = "secondary" /\ u[k].kind = "program" /\ Spares(u[k], i)
    BY <2>2
  <2> QED BY <2>1, <2>2
<1>5. \A j, k \in DOMAIN u : j <= k /\ u[k].kind = "erase" => u[j].kind = "erase"
  <2> TAKE j, k \in DOMAIN u
  <2> HAVE j <= k /\ u[k].kind = "erase"
  <2>1. k \in 1..Len(w) /\ j \in Nat /\ 1 <= j
    BY <1>1, <1>3
  <2>2. j \in DOMAIN w
    BY <1>1, <2>1
  <2> QED BY <1>2, <2>2
<1>6. u[1].off = 0
  <2>1. u[1] = w[1]
    BY <1>1
  <2> QED BY <2>1
<1>7. \E k \in DOMAIN u : LastPage(u[k])
  <2>1. PICK k \in DOMAIN w : LastPage(w[k])
    OBVIOUS
  <2>2. k \in DOMAIN u /\ u[k] = w[k]
    OBVIOUS
  <2> QED BY <2>1, <2>2
<1> QED BY <1>4, <1>5, <1>6, <1>7 DEF ReplaceList

\* That is how an update, and set_pending on a bad magic, begin.
LEMMA ReplaceStarts ==
  ASSUME NEW t \in Seq(Op), NEW i \in 1..MAGIC_SIZE, align' = align,
         \A k \in DOMAIN t : /\ t[k].area = "secondary" /\ t[k].kind = "program"
                             /\ Spares(t[k], i),
         result' = "BadImage" => t = <<>>,
         NEW u, u = EraseAll("secondary") \o t, todo' = u
  PROVE  ReplaceInv'
<1> DEFINE w == EraseAll("secondary")
<1>1. /\ w \in Seq(Op) /\ w # <<>> /\ w[1].off = 0
      /\ \A k \in DOMAIN w : w[k] \in Erasure /\ (LastPage(w[k]) \/ EarlyPage(w[k]))
      /\ \E k \in DOMAIN w : LastPage(w[k])
  BY EraseFacts, ErasePages
<1> HIDE DEF w
<1>2. /\ w \o t \in Seq(Op)
      /\ \A k \in DOMAIN (w \o t) :
           \/ k \in DOMAIN w /\ (w \o t)[k] = w[k]
           \/ \E j \in DOMAIN t : k = Len(w) + j /\ (w \o t)[k] = t[j]
      /\ \A k \in DOMAIN w : k \in DOMAIN (w \o t) /\ (w \o t)[k] = w[k]
  BY <1>1, Joined
<1>3. ReplaceList(w \o t, i)
  BY <1>1, <1>2, ReplaceJoined
<1>4. ReplaceList(u, i)
  BY <1>3, Zenon DEF w
<1>5. ReplaceList(todo', i)
  BY <1>4
<1>6. result' = "BadImage" => \A k \in DOMAIN todo' : todo'[k].kind = "erase"
  <2> SUFFICES ASSUME t = <<>> PROVE \A k \in DOMAIN (w \o t) : (w \o t)[k].kind = "erase"
    BY Zenon DEF w
  <2>1. DOMAIN t = {} /\ \A e \in Erasure : e.kind = "erase"
    BY DEF Erasure
  <2> QED BY <1>1, <1>2, <2>1
<1> QED BY <1>5, <1>6, Zenon DEF ReplaceInv, ReplaceList

\* What an update has to write is all of its image, from the first byte on.
WriteList(a, l, image) ==
  /\ \A k \in DOMAIN l : l[k].kind = "program" => UnitOf(l[k], a, "secondary", 0, image)
  /\ \A o \in 0..Len(image) - 1 :
       \E k \in DOMAIN l : l[k].kind = "program" /\ o \in Reach(l[k])
  /\ \A j, k \in DOMAIN l :
       l[j].kind = "program" /\ MeetsOk(a, l[j]) /\ j <= k => Above(a, l[k])
  /\ \E k \in DOMAIN l : LastPage(l[k])

\* That is how it begins.
LEMMA WriteStarts ==
  ASSUME align \in Aligns, align' = align, NEW image \in Images,
         NEW t, t = Write(align, "secondary", 0, image),
         NEW w, w = EraseAll("secondary"), NEW u, u = w \o t, todo' = u
  PROVE  WriteInv'
<1>1. /\ align \in Nat \ {0} /\ image \in Seq(Byte) /\ Len(image) \in Nat
      /\ "secondary" \in Area
  BY FieldOffsets, TrailerAssumption DEF Area
<1>2. t \in Seq(Op) /\ \A k \in DOMAIN t : UnitOf(t[k], align, "secondary", 0, image)
  BY <1>1, WriteFacts
<1>3. /\ w \in Seq(Op) /\ (\A k \in DOMAIN w : w[k] \in Erasure)
      /\ \E k \in DOMAIN w : LastPage(w[k])
  BY EraseFacts, ErasePages
<1>4. /\ \A k \in DOMAIN u : \/ k \in DOMAIN w /\ u[k] = w[k]
                             \/ \E j \in DOMAIN t : k = Len(w) + j /\ u[k] = t[j]
      /\ \A k \in DOMAIN w : k \in DOMAIN u /\ u[k] = w[k]
      /\ \A j \in DOMAIN t : Len(w) + j \in DOMAIN u /\ u[Len(w) + j] = t[j]
  <2>1. LET v == w \o t
        IN  /\ \A k \in DOMAIN v : \/ k \in DOMAIN w /\ v[k] = w[k]
                                   \/ \E j \in DOMAIN t : k = Len(w) + j /\ v[k] = t[j]
            /\ \A k \in DOMAIN w : k \in DOMAIN v /\ v[k] = w[k]
            /\ \A j \in DOMAIN t : Len(w) + j \in DOMAIN v /\ v[Len(w) + j] = t[j]
    BY <1>2, <1>3, Joined
  <2> QED BY <2>1, Zenon
<1>5. /\ \A k \in DOMAIN w : w[k].kind # "program"
      /\ \A j \in DOMAIN t : t[j].kind = "program" /\ j \in Nat
      /\ Len(w) \in Nat /\ \A k \in DOMAIN w : k <= Len(w)
  <2>1. \A e \in Erasure : e.kind # "program"
    BY DEF Erasure
  <2>2. \A q \in Program : q.kind = "program"
    BY DEF Program
  <2> QED BY <1>2, <1>3, <2>1, <2>2 DEF UnitOf
<1>6. \A k \in DOMAIN u :
        u[k].kind = "program" => \E j \in DOMAIN t : k = Len(w) + j /\ u[k] = t[j]
  BY <1>4, <1>5
<1>7. \A k \in DOMAIN u :
        u[k].kind = "program" => UnitOf(u[k], align, "secondary", 0, image)
  BY <1>2, <1>6
<1>8. ASSUME NEW o \in 0..Len(image) - 1
      PROVE  \E k \in DOMAIN u : u[k].kind = "program" /\ o \in Reach(u[k])
  <2>1. o \in 0..0 + Len(image) - 1 /\ 0 \in Nat
    BY <1>1
  <2> DEFINE z == Write(align, "secondary", 0, image)
  <2>2. \E j \in DOMAIN z : o \in Reach(z[j])
    BY <1>1, <2>1, WriteCovers
  <2> HIDE DEF z
  <2>3. PICK j \in DOMAIN t : o \in Reach(t[j])
    BY <2>2, Zenon DEF z
  <2>4. Len(w) + j \in DOMAIN u /\ u[Len(w) + j] = t[j] /\ t[j].kind = "program"
    BY <1>4, <1>5, Zenon
  <2> QED BY <2>3, <2>4, Zenon
<1>9. ASSUME NEW j \in DOMAIN u, NEW k \in DOMAIN u,
             u[j].kind = "program", MeetsOk(align, u[j]), j <= k
      PROVE  Above(align, u[k])
  <2>1. PICK x \in DOMAIN t : j = Len(w) + x /\ u[j] = t[x]
    BY <1>6, <1>9
  <2>2. x \in Nat /\ 1 <= x
    BY <1>2
  <2>3. k \notin DOMAIN w
    BY <1>5, <1>9, <2>1, <2>2
  <2>4. PICK y \in DOMAIN t : k = Len(w) + y /\ u[k] = t[y]
    BY <1>4, <2>3
  <2>5. x <= y
    BY <1>5, <1>9, <2>1, <2>4
  <2> QED BY <1>9, <2>1, <2>4, <2>5, InOrder
<1>10. \E k \in DOMAIN u : LastPage(u[k])
  BY <1>3, <1>4
<1>11. WriteList(align, u, image)
  BY <1>7, <1>8, <1>9, <1>10 DEF WriteList
<1>12. WriteList(align', todo', image)
  BY <1>11
<1> QED BY <1>12, Zenon DEF WriteInv, WriteList

\* An update begins by erasing the slot that is not running.
LEMMA UpdateBoot ==
  ASSUME BootInv, NEW image \in Images, Update(image)
  PROVE  BootInv'
<1> DEFINE t == Write(align, "secondary", 0, image)
<1>1. /\ align \in Aligns /\ align \in Nat \ {0} /\ image \in Seq(Byte) /\ ~OnTrial
      /\ align' = align /\ flash' = flash /\ result' = "Written"
      /\ todo' = EraseAll("secondary") \o t
  BY FieldOffsets, TrailerAssumption DEF BootInv, SuccessInv, Typed, Update, Call
<1>2. t \in Seq(Op) /\ \A k \in DOMAIN t : UnitOf(t[k], align, "secondary", 0, image)
  BY <1>1, WriteFacts DEF Area
<1> HIDE DEF t
<1>3. MAGIC_SIZE \in 1..MAGIC_SIZE
  BY TrailerAssumption
<1>4. \A k \in DOMAIN t : /\ t[k].area = "secondary" /\ t[k].kind = "program"
                          /\ Spares(t[k], MAGIC_SIZE)
  BY <1>1, <1>2, Blot DEF UnitOf, Program
<1>5. ReplaceInv'
  <2> DEFINE u == EraseAll("secondary") \o t
  <2>1. u = EraseAll("secondary") \o t /\ todo' = u
    BY <1>1
  <2> HIDE DEF u
  <2> QED BY <1>1, <1>2, <1>3, <1>4, <2>1, ReplaceStarts
<1>9. WriteInv'
  BY <1>1, WriteStarts DEF t
<1>6. SuccessInv'
  BY SuccessStep DEF BootInv, Next
<1>7. OrderInv' /\ VouchInv'
  BY <1>1 DEF OrderInv, VouchInv
<1>8. OkInv' /\ ~OnTrial'
  BY <1>1, CallKeeps
<1> QED BY <1>5, <1>6, <1>7, <1>8, <1>9 DEF BootInv, TrialInv

\* set_pending marks a slot without a magic, and erases one with a bad magic.
LEMMA PendingBoot ==
  ASSUME BootInv, NEW permanent \in BOOLEAN, set_pending(permanent)
  PROVE  BootInv'
<1>1. /\ align \in Aligns /\ ~OnTrial /\ align' = align /\ flash' = flash
      /\ asked' = asked \cup {IF permanent THEN "Perm" ELSE "Test"}
      /\ todo' = IF Magic(s2) = "Good" THEN <<>>
                 ELSE IF Magic(s2) = "Unset" THEN Marks(align, permanent)
                 ELSE EraseAll("secondary")
      /\ result' = IF Magic(s2) = "Bad" THEN "BadImage" ELSE "Pending"
  BY DEF BootInv, SuccessInv, Typed, set_pending, Call
<1>2. SuccessInv'
  BY SuccessStep DEF BootInv, Next
<1>3. OkInv' /\ ~OnTrial' /\ s2' = s2
  BY <1>1, CallKeeps
<1>4. TrialInv' /\ VouchInv' /\ WriteInv'
  BY <1>1, <1>3 DEF TrialInv, VouchInv, WriteInv
<1>5. Magic(s2) \in {"Good", "Unset", "Bad"}
  BY DEF Magic
<1>6. ReplaceInv'
  <2>1. CASE Magic(s2) = "Bad"
    <3> DEFINE t == <<>>
               u == EraseAll("secondary") \o t
    <3>1. t \in Seq(Op) /\ DOMAIN t = {} /\ EraseAll("secondary") \in Seq(Op)
      BY EraseFacts
    <3>2. EraseAll("secondary") \o <<>> = EraseAll("secondary")
      <4> DEFINE e == EraseAll("secondary")
      <4>1. e \in Seq(Op)
        BY <3>1
      <4> HIDE DEF e
      <4>2. e \o <<>> = e
        BY <4>1
      <4> QED BY <4>2 DEF e
    <3>3. todo' = u /\ 1 \in 1..MAGIC_SIZE
      BY <1>1, <2>1, <3>2, TrailerAssumption
    <3>4. u = EraseAll("secondary") \o t
      OBVIOUS
    <3>5. t = <<>> /\ \A k \in DOMAIN t : FALSE
      BY <3>1
    <3> HIDE DEF t, u
    <3> QED BY <1>1, <3>1, <3>3, <3>4, <3>5, ReplaceStarts
  <2>2. CASE Magic(s2) # "Bad"
    BY <1>1, <2>2 DEF ReplaceInv
  <2> QED BY <2>1, <2>2
<1>7. OrderInv'
  <2>1. CASE Magic(s2) = "Bad"
    BY <1>1, <2>1 DEF OrderInv
  <2>2. CASE Magic(s2) = "Good"
    <3>1. todo' = <<>> /\ asked' # {}
      BY <1>1, <2>2
    <3> QED BY <3>1 DEF OrderInv
  <2>3. CASE Magic(s2) = "Unset"
    <3>1. todo' = Marks(align, permanent) /\ asked' # {} /\ (permanent => "Perm" \in asked')
      BY <1>1, <2>3
    <3>3. s2[ImageOkOff(align)] # FLAG_SET \/ FitIn(s2, align) = NoImage
      BY <2>3 DEF BootInv, OkInv
    <3>4. MarkList(todo', permanent)
      <4> DEFINE m == Marks(align, permanent)
      <4>1. MarkList(m, permanent) /\ todo' = m
        BY <1>1, <3>1, MarksFacts
      <4> HIDE DEF m
      <4> QED BY <4>1
    <3>5. /\ \A k \in DOMAIN todo' : MeetsOk(align, todo'[k]) => permanent
          /\ \A j, k \in DOMAIN todo' :
               MeetsOk(align, todo'[j]) /\ j <= k => ~MeetsMagic(todo'[k])
      BY <3>4, Zenon DEF MarkList
    <3>6. /\ \A k \in DOMAIN todo' : MeetsOk(align', todo'[k]) => permanent
          /\ \A j, k \in DOMAIN todo' :
               MeetsOk(align', todo'[j]) /\ j <= k => ~MeetsMagic(todo'[k])
          /\ s2'[ImageOkOff(align')] # FLAG_SET \/ FitIn(s2', align') = NoImage
      BY <1>1, <1>3, <3>3, <3>5
    <3> QED BY <3>1, <3>6 DEF OrderInv
  <2> QED BY <1>5, <2>1, <2>2, <2>3
<1> QED BY <1>2, <1>3, <1>4, <1>6, <1>7 DEF BootInv

\* set_confirmed writes to the running slot, when asked to.
LEMMA ConfirmBoot ==
  ASSUME BootInv, set_confirmed
  PROVE  BootInv'
<1>1. /\ align' = align /\ flash' = flash /\ vouched' = TRUE
      /\ result' \in {"BadVect", "Confirmed"}
  BY DEF set_confirmed, Call
<1>2. SuccessInv'
  BY SuccessStep DEF BootInv, Next
<1>3. ReplaceInv' /\ WriteInv' /\ OrderInv' /\ VouchInv'
  BY <1>1 DEF ReplaceInv, WriteInv, OrderInv, VouchInv
<1>4. OkInv' /\ (OnTrial' <=> OnTrial) /\ Magic(s2)' = Magic(s2)
  BY <1>1, CallKeeps
<1>5. TrialInv'
  BY <1>1, <1>4 DEF TrialInv, BootInv
<1> QED BY <1>2, <1>3, <1>4, <1>5 DEF BootInv

------------------------------------------------------------------------------
(* A boot (external: what the tests of the bootloader show of it).          *)

\* The trailer a swap gives the image it makes run.
LEMMA SwappedFacts ==
  ASSUME align \in Aligns, NEW s, NEW ok \in BOOLEAN, NEW w, w = Swapped(align, s, ok)
  PROVE  /\ Magic(w) = "Good"
         /\ w[ImageOkOff(align)] = IF ok THEN FLAG_SET ELSE ERASED
         /\ w[CopyDoneOff(align)] = FLAG_SET
         /\ \A o \in Offset : o < SwapSizeOff(align) => w[o] = s[o]
<1>1. /\ \A i \in 1..MAGIC_SIZE : MagicOff + i - 1 \in Offset
                                  /\ MagicOff + i - 1 > ImageOkOff(align)
      /\ ImageOkOff(align) \in Offset /\ CopyDoneOff(align) \in Offset
      /\ CopyDoneOff(align) < ImageOkOff(align) /\ ImageOkOff(align) < MagicOff
      /\ SwapSizeOff(align) <= CopyDoneOff(align) /\ SwapSizeOff(align) \in Nat
      /\ MagicOff \in Nat /\ MAGIC_SIZE \in Nat \ {0}
      /\ ImageOkOff(align) \in Nat /\ CopyDoneOff(align) \in Nat /\ \A o \in Offset : o \in Nat
  BY FieldOffsets DEF Offset
<1>2. \A o \in Offset :
        w[o] = IF o < SwapSizeOff(align) THEN s[o]
               ELSE IF o >= MagicOff THEN MagicBytes[o - MagicOff + 1]
               ELSE IF o = CopyDoneOff(align) \/ (ok /\ o = ImageOkOff(align)) THEN FLAG_SET
               ELSE ERASED
  BY DEF Swapped
<1>3. ASSUME NEW i \in 1..MAGIC_SIZE
      PROVE  w[MagicOff + i - 1] = MagicBytes[i]
  <2> DEFINE o == MagicOff + i - 1
  <2>1. o \in Offset /\ o \in Int /\ o > ImageOkOff(align) /\ o - MagicOff + 1 = i /\ o >= MagicOff
        /\ ~(o < SwapSizeOff(align))
    BY <1>1
  <2> HIDE DEF o
  <2>2. w[o] = MagicBytes[i]
    BY <1>2, <2>1
  <2> QED BY <2>2 DEF o
<1>4. Magic(w) = "Good"
  BY <1>3, MagicIs
<1>5. w[ImageOkOff(align)] = IF ok THEN FLAG_SET ELSE ERASED
  <2>1. ~(ImageOkOff(align) < SwapSizeOff(align)) /\ ~(ImageOkOff(align) >= MagicOff)
        /\ ImageOkOff(align) # CopyDoneOff(align) /\ ImageOkOff(align) \in Offset
    BY <1>1
  <2> QED BY <1>2, <2>1
<1>6. w[CopyDoneOff(align)] = FLAG_SET
  <2>1. ~(CopyDoneOff(align) < SwapSizeOff(align)) /\ ~(CopyDoneOff(align) >= MagicOff)
        /\ CopyDoneOff(align) \in Offset
    BY <1>1
  <2> QED BY <1>2, <2>1
<1>7. \A o \in Offset : o < SwapSizeOff(align) => w[o] = s[o]
  BY <1>2
<1> QED BY <1>4, <1>5, <1>6, <1>7

\* The image that is swapped out, or back in, has no trailer.
LEMMA BelowFacts ==
  ASSUME align \in Aligns, NEW s, NEW w, w = Below(align, s) \/ w = ErasedSlot
  PROVE  /\ Magic(w) = "Unset" /\ w[ImageOkOff(align)] = ERASED
         /\ w = Below(align, s) => \A o \in Offset : o < SwapSizeOff(align) => w[o] = s[o]
         /\ w = ErasedSlot => w[0] = ERASED
<1>1. /\ \A i \in 1..MAGIC_SIZE : MagicOff + i - 1 \in Offset
                                  /\ MagicOff + i - 1 > ImageOkOff(align)
      /\ ImageOkOff(align) \in Offset /\ 0 \in Offset
      /\ SwapSizeOff(align) <= ImageOkOff(align) /\ SwapSizeOff(align) \in Nat
      /\ ImageOkOff(align) \in Nat /\ \A o \in Offset : o \in Nat
  BY FieldOffsets, TrailerAssumption DEF Offset
<1>2. \A o \in Offset : o >= SwapSizeOff(align) => w[o] = ERASED
  BY <1>1 DEF Below, ErasedSlot
<1>3. \A i \in 1..MAGIC_SIZE : w[MagicOff + i - 1] = ERASED
  <2> TAKE i \in 1..MAGIC_SIZE
  <2> DEFINE o == MagicOff + i - 1
  <2>1. o \in Offset /\ o >= SwapSizeOff(align)
    BY <1>1
  <2> HIDE DEF o
  <2>2. w[o] = ERASED
    BY <1>2, <2>1
  <2> QED BY <2>2 DEF o
<1>4. Magic(w) = "Unset"
  BY <1>3, MagicIs
<1> QED BY <1>1, <1>2, <1>4 DEF Below, ErasedSlot

\* What a boot does to what Boot sees.
Swapping == Running' = FitIn(s2, align) /\ Alike(Spare', Running)
Restarted ==
  /\ Marked' = "None"
  /\ \/ /\ Marked # "None" /\ Spare # NoImage
        /\ Swapping /\ (OnTrial' <=> Marked = "Test")
     \/ /\ Marked # "None" /\ Spare = NoImage
        /\ Spare' = NoImage /\ Running' = Running /\ (OnTrial' <=> OnTrial)
     \/ /\ Marked = "None" /\ OnTrial
        /\ Swapping /\ ~OnTrial'
     \/ /\ Marked = "None" /\ ~OnTrial
        /\ Running' = Running /\ Spare' = Spare /\ ~OnTrial'

\* A swap carries over what lies below the trailers.
LEMMA SwapSeen ==
  ASSUME align \in Aligns, Running' = FitIn(p', align), Spare' = Seen(s2', align),
         \A o \in Offset : o < SwapSizeOff(align) => p'[o] = s2[o],
         \A o \in Offset : o < SwapSizeOff(align) => s2'[o] = p[o]
  PROVE  Swapping
<1>1. FitIn(p', align) = FitIn(s2, align)
  BY SameFit
<1>2. Alike(Seen(s2', align), FitIn(p, align))
  BY SameFit
<1> QED BY <1>1, <1>2 DEF Swapping, Running

\* It acts on the marks, and leaves slots the invariant holds of.
LEMMA BootStep ==
  ASSUME BootInv, Bootloader
  PROVE  BootInv' /\ Restarted
<1> DEFINE type == SwapType(p, s2, align)
<1>1. /\ align \in Aligns /\ align' = align /\ result' = result /\ result = "none"
      /\ OkInv
  BY DEF BootInv, SuccessInv, Typed, CallInv, Bootloader
<1>2. /\ type \in {"Test", "Perm"} <=> Marked # "None"
      /\ Marked # "None" => type = Marked /\ Magic(s2) = "Good"
      /\ Marked \in {"None", "Test", "Perm"}
  BY MarkIs DEF Marked
<1>3. OnTrial => Magic(s2) = "Unset"
  BY DEF BootInv, TrialInv
<1>4. Marked = "None" => (type = "Revert" <=> OnTrial)
  <2>1. Magic(s2) = "Unset" => Marked = "None" /\ type \notin {"Test", "Perm"}
    BY <1>2, MarkIs DEF Marked
  <2> QED BY <1>1, <1>2, <1>3, <2>1, TrialIs DEF SwapType
<1>5. SuccessInv'
  BY SuccessStep DEF BootInv, Next
<1>6. ReplaceInv' /\ WriteInv' /\ OrderInv' /\ VouchInv'
  BY <1>1 DEF ReplaceInv, WriteInv, OrderInv, VouchInv
<1>7. /\ (Magic(s2') = "Unset" => s2'[ImageOkOff(align)] # FLAG_SET) => OkInv'
      /\ (OnTrial' => Magic(s2') = "Unset") => TrialInv'
      /\ Running' = FitIn(p', align) /\ Spare' = Seen(s2', align)
      /\ Magic(s2') # "Good" => Marked' = "None"
      /\ OnTrial' <=> /\ Magic(p') = "Good" /\ p'[ImageOkOff(align)] = ERASED
                      /\ p'[CopyDoneOff(align)] = FLAG_SET
  <2>1. OnTrial' <=> (Magic(p) = "Good" /\ ImageOk(p, align) = "Unset" /\ CopyDone(p, align) = "Set")'
    <3>1. Magic(ErasedSlot) = "Unset"
      BY <1>1, BelowFacts
    <3> QED BY <3>1 DEF OnTrial, SwapType, Magic, ErasedSlot
  <2> QED BY <1>1, <2>1 DEF OkInv, TrialInv, Running, Spare, Marked, MarkOf, Magic,
                            ImageOk, CopyDone, Flag, FLAG_SET, ERASED
<1>8. ERASED # FLAG_SET
  BY DEF ERASED, FLAG_SET
<1>9. flash' = IF type \in {"Test", "Perm"} /\ ImageIn(s2) # NoImage
               THEN [primary |-> Swapped(align, s2, type = "Perm"),
                     secondary |-> Below(align, p)]
               ELSE IF type \in {"Test", "Perm"}
               THEN [flash EXCEPT !["secondary"] = ErasedSlot]
               ELSE IF type = "Revert"
               THEN [primary |-> Below(align, s2), secondary |-> Below(align, p)]
               ELSE flash
  BY DEF Bootloader
<1> HIDE DEF type
<1>10. CASE Marked # "None" /\ Spare # NoImage
  <2>1. p' = Swapped(align, s2, type = "Perm") /\ s2' = Below(align, p)
    BY <1>2, <1>9, <1>10, ImageType DEF p, s2, Spare
  <2>2. /\ Magic(p') = "Good" /\ p'[CopyDoneOff(align)] = FLAG_SET
        /\ p'[ImageOkOff(align)] = IF type = "Perm" THEN FLAG_SET ELSE ERASED
        /\ \A o \in Offset : o < SwapSizeOff(align) => p'[o] = s2[o]
    BY <1>1, <2>1, SwappedFacts
  <2>3. /\ Magic(s2') = "Unset" /\ s2'[ImageOkOff(align)] = ERASED
        /\ \A o \in Offset : o < SwapSizeOff(align) => s2'[o] = p[o]
    BY <1>1, <2>1, BelowFacts
  <2>4. Swapping
    BY <1>1, <1>7, <2>2, <2>3, SwapSeen
  <2>6. OnTrial' <=> Marked = "Test"
    BY <1>2, <1>7, <1>8, <1>10, <2>2
  <2>7. BootInv'
    BY <1>5, <1>6, <1>7, <1>8, <2>2, <2>3 DEF BootInv
  <2> QED BY <1>7, <1>10, <2>3, <2>4, <2>6, <2>7 DEF Restarted
<1>11. CASE Marked # "None" /\ Spare = NoImage
  <2>1. p' = p /\ s2' = ErasedSlot
    <3>1. flash' = [flash EXCEPT !["secondary"] = ErasedSlot]
      BY <1>2, <1>9, <1>11, ImageType DEF Spare
    <3>2. flash \in FlashType /\ "secondary" \in Area /\ "primary" \in Area
      BY DEF BootInv, SuccessInv, Typed, Area
    <3> QED BY <3>1, <3>2 DEF FlashType, p, s2
  <2>2. /\ Magic(s2') = "Unset" /\ s2'[ImageOkOff(align)] = ERASED /\ s2'[0] = ERASED
    BY <1>1, <2>1, BelowFacts
  <2>3. Spare' = NoImage /\ Running' = Running
    BY <1>7, <2>1, <2>2, FirstGone DEF Running
  <2>4. OnTrial' <=> OnTrial
    BY <1>1, <2>1 DEF OnTrial
  <2>5. BootInv'
    BY <1>1, <1>5, <1>6, <1>7, <1>8, <2>1, <2>2 DEF BootInv
  <2> QED BY <1>7, <1>11, <2>2, <2>3, <2>4, <2>5 DEF Restarted
<1>12. CASE Marked = "None" /\ OnTrial
  <2>1. p' = Below(align, s2) /\ s2' = Below(align, p)
    BY <1>2, <1>4, <1>9, <1>12 DEF p, s2
  <2>2. /\ Magic(p') = "Unset"
        /\ \A o \in Offset : o < SwapSizeOff(align) => p'[o] = s2[o]
    BY <1>1, <2>1, BelowFacts
  <2>3. /\ Magic(s2') = "Unset" /\ s2'[ImageOkOff(align)] = ERASED
        /\ \A o \in Offset : o < SwapSizeOff(align) => s2'[o] = p[o]
    BY <1>1, <2>1, BelowFacts
  <2>4. Swapping
    BY <1>1, <1>7, <2>2, <2>3, SwapSeen
  <2>6. BootInv'
    BY <1>5, <1>6, <1>7, <1>8, <2>2, <2>3 DEF BootInv
  <2> QED BY <1>7, <1>12, <2>2, <2>3, <2>4, <2>6 DEF Restarted
<1>13. CASE Marked = "None" /\ ~OnTrial
  <2>1. flash' = flash
    BY <1>2, <1>4, <1>9, <1>13
  <2>2. /\ OkInv' /\ (OnTrial' <=> OnTrial)
        /\ Running' = Running /\ Spare' = Spare /\ Marked' = Marked
    BY <1>1, <2>1, CallKeeps
  <2>3. BootInv'
    BY <1>5, <1>6, <1>13, <2>2 DEF BootInv, TrialInv
  <2> QED BY <1>13, <2>2, <2>3 DEF Restarted
<1> QED BY <1>10, <1>11, <1>12, <1>13

------------------------------------------------------------------------------
(* The marks keep what Boot promises. *)

\* The invariant holds from the start: one image runs, and nothing is marked.
LEMMA BootStart ==
  ASSUME Init
  PROVE  /\ BootInv /\ Running \in Images /\ Spare = NoImage
         /\ Marked = "None" /\ ~OnTrial
<1>1. PICK i \in Images :
        /\ i \in Fit(align)
        /\ flash = [area \in Area |-> [o \in Offset |->
                     IF area = "primary" /\ o < Len(i) THEN i[o + 1] ELSE ERASED]]
  BY DEF Init
<1>2. SuccessInv /\ align \in Aligns /\ todo = <<>> /\ result = "none"
  BY SuccessInit DEF Init
<1>3. /\ \A k \in 1..MAGIC_SIZE : MagicOff + k - 1 \in Offset
                                  /\ MagicOff + k - 1 > ImageOkOff(align)
      /\ ImageOkOff(align) \in Offset /\ \A o \in Offset : o \in Nat
      /\ SwapSizeOff(align) <= ImageOkOff(align) /\ SwapSizeOff(align) \in Nat
      /\ ImageOkOff(align) \in Nat /\ i \in Seq(Byte) /\ Len(i) \in Nat
      /\ Len(i) <= SwapSizeOff(align)
  BY <1>1, <1>2, FieldOffsets, TrailerAssumption DEF Offset, Fit
<1>4. /\ \A o \in Offset : p[o] = IF o < Len(i) THEN i[o + 1] ELSE ERASED
      /\ \A o \in Offset : s2[o] = ERASED
  BY <1>1 DEF p, s2, Area
<1>5. \A o \in Offset : o >= SwapSizeOff(align) => p[o] = ERASED
  BY <1>1, <1>3, <1>4
<1>6. \A k \in 1..MAGIC_SIZE : p[MagicOff + k - 1] = ERASED /\ s2[MagicOff + k - 1] = ERASED
  <2> TAKE k \in 1..MAGIC_SIZE
  <2> DEFINE o == MagicOff + k - 1
  <2>1. o \in Offset /\ o >= SwapSizeOff(align)
    BY <1>3
  <2> HIDE DEF o
  <2>2. p[o] = ERASED /\ s2[o] = ERASED
    BY <1>4, <1>5, <2>1
  <2> QED BY <2>2 DEF o
<1>7. Magic(p) = "Unset" /\ Magic(s2) = "Unset" /\ s2[ImageOkOff(align)] # FLAG_SET
  BY <1>3, <1>4, <1>6, MagicIs DEF ERASED, FLAG_SET
<1>8. ~OnTrial
  BY <1>2, <1>7, TrialIs
<1>9. BootInv
  BY <1>2, <1>7, <1>8 DEF BootInv, ReplaceInv, WriteInv, OrderInv, VouchInv, TrialInv, OkInv
<1>10. Marked = "None"
  BY <1>7 DEF Marked, MarkOf
<1>11. Holds(p, i)
  <2>1. ASSUME NEW j \in 1..Len(i) PROVE p[j - 1] = i[j]
    <3> DEFINE o == j - 1
    <3>1. ImageOkOff(align) \in 0..SlotSize - 1 /\ SlotSize \in Nat
      BY <1>3, TrailerAssumption DEF Offset
    <3>2. o \in Offset /\ o < Len(i) /\ o + 1 = j
      BY <1>1, <1>3, <2>1, <3>1 DEF Offset
    <3> HIDE DEF o
    <3>3. p[o] = i[j]
      BY <1>4, <3>2
    <3> QED BY <3>3 DEF o
  <2> QED BY <2>1 DEF Holds
<1>12. Running \in Images
  BY <1>1, <1>11, HeldIs DEF Running, FitIn, Fit
<1>13. Spare = NoImage
  <2>1. 0 \in Offset
    BY TrailerAssumption DEF Offset
  <2>2. s2[0] \in {ERASED, Junk}
    BY <1>4, <2>1
  <2> QED BY <2>2, FirstGone DEF Spare
<1> QED BY <1>8, <1>9, <1>10, <1>12, <1>13

\* Every step keeps it.
LEMMA BootKept ==
  ASSUME BootInv, [Next]_vars
  PROVE  BootInv'
<1>1. CASE UNCHANGED vars
  <2>1. SuccessInv'
    BY SuccessStep DEF BootInv
  <2>2. UNCHANGED <<align, flash, todo, result, up, asked, vouched>>
    BY <1>1 DEF vars
  <2>3. /\ OkInv' /\ (OnTrial' <=> OnTrial) /\ Magic(s2)' = Magic(s2)
        /\ s2' = s2
    BY <2>2, CallKeeps
  <2>4. ReplaceInv' /\ WriteInv'
    BY <2>2, <2>3 DEF BootInv, ReplaceInv, WriteInv
  <2>5. OrderInv' /\ VouchInv' /\ TrialInv'
    BY <2>2, <2>3 DEF BootInv, OrderInv, VouchInv, TrialInv
  <2> QED BY <2>1, <2>3, <2>4, <2>5 DEF BootInv
<1>2. ASSUME NEW image \in Images, Update(image) PROVE BootInv'
  BY <1>2, UpdateBoot
<1>3. ASSUME NEW permanent \in BOOLEAN, set_pending(permanent) PROVE BootInv'
  BY <1>3, PendingBoot
<1>4. CASE set_confirmed
  BY <1>4, ConfirmBoot
<1>5. CASE Carry
  BY <1>5, CarryBoot
<1>6. CASE Fail \/ Reset
  BY <1>6, CutBoot
<1>7. CASE Bootloader
  BY <1>7, BootStep
<1> QED BY <1>1, <1>2, <1>3, <1>4, <1>5, <1>6, <1>7 DEF Next

\* The mark Boot sees is Marked, before and after a step.
LEMMA MarkSeen ==
  /\ (IF SwapType(p, s2, align) \in {"Test", "Perm"} THEN SwapType(p, s2, align)
      ELSE "None") = Marked
  /\ (IF SwapType(p, s2, align)' \in {"Test", "Perm"} THEN SwapType(p, s2, align)'
      ELSE "None") = Marked'
BY DEF SwapType, Marked, MarkOf, ImageOk, Flag, FLAG_SET, ERASED

\* A write marks the slot, loses its mark or its image, ends a trial, or is not
\* seen at all.
LEMMA MoveRefines ==
  ASSUME Move, asked' = asked, vouched' = vouched
  PROVE  [Promise!BootNext]_(Promise!bootVars)
<1> DEFINE M == IF SwapType(p, s2, align) \in {"Test", "Perm"} THEN SwapType(p, s2, align)
                ELSE "None"
           R == FitIn(p, align)
           S == Seen(s2, align)
<1>1. /\ M = Marked /\ M' = Marked' /\ R = Running /\ R' = Running' /\ S = Spare /\ S' = Spare'
      /\ OnTrial \in BOOLEAN /\ OnTrial' \in BOOLEAN
      /\ Spare' \in Images \cup {NoImage, Overlong}
  BY MarkSeen, ImageType DEF Running, Spare, OnTrial
<1> HIDE DEF M, R, S
<1>2. CASE Running' = Running /\ Spare' = Spare /\ Marked' = Marked /\ (OnTrial' <=> OnTrial)
  <2>1. UNCHANGED <<R, S, M, OnTrial, asked, vouched>>
    BY <1>1, <1>2
  <2> QED BY <2>1 DEF Promise!bootVars, M, R, S
<1>3. CASE /\ Running' = Running /\ Alike(Spare, Spare') /\ (OnTrial' <=> OnTrial) /\ asked # {}
           /\ \/ Marked = "None" /\ Marked' = "Test"
              \/ Marked = "Test" /\ Marked' = "Perm" /\ "Perm" \in asked
              \/ Marked = "None" /\ Spare \in {NoImage, Overlong} /\ Marked' = "Perm"
              \/ Marked' = Marked
  <2>1. /\ asked # {}
        /\ \/ M = "None" /\ M' = "Test"
           \/ M = "Test" /\ "Perm" \in asked /\ M' = "Perm"
           \/ M = "None" /\ S \in {NoImage, Overlong} /\ M' = "Perm"
           \/ M' = M
        /\ S = S' \/ (S \in {NoImage, Overlong} /\ S' \in {NoImage, Overlong})
        /\ UNCHANGED <<R, OnTrial, asked, vouched>>
    BY <1>1, <1>3 DEF Alike
  <2> QED BY <2>1 DEF Promise!BootNext, Promise!Mark, Promise!Alike, Promise!Unfit, M, R, S
<1>4. CASE /\ Running' = Running /\ ~OnTrial /\ ~OnTrial'
           /\ Marked' = "None" \/ (Marked' = Marked /\ Spare' = NoImage)
  <2>1. /\ ~OnTrial
        /\ \/ M' = "None" /\ S' \in Images \cup {NoImage, Overlong}
           \/ M' = M /\ S' = NoImage
        /\ UNCHANGED <<R, OnTrial, asked, vouched>>
    BY <1>1, <1>4
  <2> QED BY <2>1 DEF Promise!BootNext, Promise!Replace, Promise!Unfit, M, R, S
<1>5. CASE /\ Running' = Running /\ Spare' = Spare /\ Marked' = Marked
           /\ vouched /\ OnTrial /\ ~OnTrial'
  <2>1. /\ vouched /\ OnTrial /\ OnTrial' = FALSE
        /\ UNCHANGED <<R, S, M, asked, vouched>>
    BY <1>1, <1>5
  <2> QED BY <2>1 DEF Promise!BootNext, Promise!Confirm, M, R, S
<1> QED BY <1>2, <1>3, <1>4, <1>5 DEF Move

\* A boot acts on the marks as Boot says.
LEMMA BootRefines ==
  ASSUME Restarted, Bootloader
  PROVE  Promise!Restart
<1> DEFINE M == IF SwapType(p, s2, align) \in {"Test", "Perm"} THEN SwapType(p, s2, align)
                ELSE "None"
           R == FitIn(p, align)
           S == Seen(s2, align)
<1>1. /\ M = Marked /\ M' = Marked' /\ R = Running /\ R' = Running' /\ S = Spare /\ S' = Spare'
      /\ OnTrial \in BOOLEAN /\ OnTrial' \in BOOLEAN
      /\ FitIn(s2, align) = IF S = Overlong THEN NoImage ELSE S
  BY MarkSeen, ImageType DEF Running, Spare, OnTrial
<1>2. asked' = {} /\ vouched' = FALSE
  BY DEF Bootloader
<1> HIDE DEF M, R, S
<1>3. Swapping => /\ R' = IF S = Overlong THEN NoImage ELSE S
                  /\ S' = R \/ (S' \in {NoImage, Overlong} /\ R \in {NoImage, Overlong})
  BY <1>1 DEF Swapping, Alike
<1>4. Swapping => Promise!Swap
  BY <1>3 DEF Promise!Swap, Promise!Cut, Promise!Alike, Promise!Unfit, R, S
<1>5. /\ M' = "None"
      /\ \/ M # "None" /\ S # NoImage /\ Promise!Swap /\ OnTrial' = (M = "Test")
         \/ M # "None" /\ S = NoImage /\ S' = NoImage /\ UNCHANGED <<R, OnTrial>>
         \/ M = "None" /\ OnTrial /\ Promise!Swap /\ OnTrial' = FALSE
         \/ M = "None" /\ ~OnTrial /\ UNCHANGED <<R, S, OnTrial>>
  BY <1>1, <1>4 DEF Restarted
<1> QED BY <1>2, <1>5 DEF Promise!Restart, M, R, S

\* Every step is one of Boot's or is not seen.
LEMMA StepRefines ==
  ASSUME BootInv, [Next]_vars
  PROVE  [Promise!BootNext]_(Promise!bootVars)
<1>1. ASSUME flash' = flash, align' = align
      PROVE  UNCHANGED <<FitIn(p, align), Seen(s2, align),
               IF SwapType(p, s2, align) \in {"Test", "Perm"} THEN SwapType(p, s2, align)
               ELSE "None", OnTrial>>
  BY <1>1 DEF OnTrial, p, s2
<1>2. CASE UNCHANGED vars \/ \E image \in Images : Update(image)
  <2>1. flash' = flash /\ align' = align /\ asked' = asked /\ vouched' = vouched
    BY <1>2 DEF vars, Update, Call
  <2> QED BY <1>1, <2>1 DEF Promise!bootVars
<1>3. ASSUME NEW permanent \in BOOLEAN, set_pending(permanent)
      PROVE  Promise!BootNext
  <2>1. /\ flash' = flash /\ align' = align /\ vouched' = vouched
        /\ asked' = asked \cup {IF permanent THEN "Perm" ELSE "Test"}
    BY <1>3 DEF set_pending, Call
  <2>2. Promise!Ask(IF permanent THEN "Perm" ELSE "Test")
    BY <1>1, <2>1 DEF Promise!Ask
  <2> QED BY <2>2 DEF Promise!BootNext
<1>4. CASE set_confirmed
  <2>1. flash' = flash /\ align' = align /\ asked' = asked /\ vouched' = TRUE
    BY <1>4 DEF set_confirmed, Call
  <2> QED BY <1>1, <2>1 DEF Promise!BootNext, Promise!Vouch
<1>5. CASE Carry \/ Fail \/ Reset
  <2>1. asked' = asked /\ vouched' = vouched
    BY <1>5 DEF Carry, Fail, Reset
  <2>2. Move
    BY <1>5, WriteEffect DEF Effect
  <2> QED BY <2>1, <2>2, MoveRefines
<1>6. CASE Bootloader
  BY <1>6, BootStep, BootRefines DEF Promise!BootNext
<1> QED BY <1>2, <1>3, <1>4, <1>5, <1>6 DEF Next

\* Whatever write of set_pending, set_confirmed or an update fails or is torn by a
\* reset, and whatever image shorter than the slot an update writes: an image that
\* ends below the trailer is tried, or swapped for good, only if that was asked for
\* and it lay in the slot when it was marked; the image a trial would be undone to is
\* left alone, and the trial ends only if set_confirmed was called.  An image that
\* reaches into the trailer may be swapped for good where a trial was asked for.
THEOREM KeepsMarks == Spec => KeepsPromise
<1>1. Init => Promise!BootInit
  <2> SUFFICES ASSUME Init PROVE Promise!BootInit
    OBVIOUS
  <2>1. FitIn(p, align) \in Images /\ Seen(s2, align) = NoImage /\ OnTrial = FALSE
    BY BootStart DEF Running, Spare, OnTrial
  <2>2. (IF SwapType(p, s2, align) \in {"Test", "Perm"} THEN SwapType(p, s2, align)
         ELSE "None") = "None"
    BY BootStart, MarkSeen
  <2>3. asked = {} /\ vouched = FALSE
    BY DEF Init
  <2> QED BY <2>1, <2>2, <2>3 DEF Promise!BootInit
<1>2. Init => BootInv
  BY BootStart
<1>3. BootInv /\ [Next]_vars => BootInv'
  BY BootKept
<1>4. BootInv /\ [Next]_vars => [Promise!BootNext]_(Promise!bootVars)
  BY StepRefines
<1> QED BY <1>1, <1>2, <1>3, <1>4, PTL DEF Spec, KeepsPromise, Promise!BootSpec
=============================================================================
