-------------------------------- MODULE Crc --------------------------------
(***************************************************************************)
(* The checksums of bm-wire/src/crc.rs.  A word is the set of the places   *)
(* of its ones, so that exclusive or is the symmetric difference; a byte   *)
(* of data is a word of 8 bits.                                            *)
(***************************************************************************)
EXTENDS Integers, SequencesExt

Bits(n) == {i \in 0..15 : (n \div 2^i) % 2 = 1}
\* 32 bits as their upper and their lower half.
Bits32(n) == {i + 16 : i \in Bits(n[1])} \cup Bits(n[2])
XorBits(v, w) == (v \ w) \cup (w \ v)
ShrBits(w, n) == {i \in 0..31 : i + n \in w}
ShlBits(w, n, width) == {i \in 0..width - 1 : i - n \in w}
NotBits(w) == (0..31) \ w

CcittByte(crc, byte) ==
  LET e == XorBits(crc, byte) \cap 0..7
      f == XorBits(e, ShlBits(e, 4, 8))
  IN XorBits(XorBits(ShrBits(crc, 8), ShlBits(f, 8, 16)),
             XorBits(ShlBits(f, 3, 16), ShrBits(f, 4)))
Crc16Ccitt(seed, data) == FoldLeft(CcittByte, seed, data)

TABLE ==
  <<<<\h0000, \h0000>>, <<\h1db7, \h1064>>, <<\h3b6e, \h20c8>>, <<\h26d9, \h30ac>>,
    <<\h76dc, \h4190>>, <<\h6b6b, \h51f4>>, <<\h4db2, \h6158>>, <<\h5005, \h713c>>,
    <<\hedb8, \h8320>>, <<\hf00f, \h9344>>, <<\hd6d6, \ha3e8>>, <<\hcb61, \hb38c>>,
    <<\h9b64, \hc2b0>>, <<\h86d3, \hd2d4>>, <<\ha00a, \he278>>, <<\hbdbd, \hf21c>>>>
TableAt == [nibble \in SUBSET (0..3) |-> Bits32(TABLE[1 + SumSet({2^i : i \in nibble})])]
IeeeNibble(crc, nibble) == XorBits(ShrBits(crc, 4), TableAt[XorBits(crc, nibble) \cap 0..3])
IeeeByte(crc, byte) == IeeeNibble(IeeeNibble(crc, byte), ShrBits(byte, 4))
Crc32IeeeUpdate(crc, data) == NotBits(FoldLeft(IeeeByte, NotBits(crc), data))
Crc32Ieee(data) == Crc32IeeeUpdate({}, data)
=============================================================================
