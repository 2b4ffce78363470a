------------------------------- MODULE Images -------------------------------
(***************************************************************************)
(* MCUboot images: the TLV area behind an image's body (bm-mcuboot         *)
(* tlv.rs), and how bm-image builds an image from an ELF file's sections   *)
(* and reads one back.                                                     *)
(*                                                                         *)
(* A definition marked "slip" is a plausible mistake in the one below it;  *)
(* the model uses none of them.                                            *)
(***************************************************************************)
EXTENDS Layouts

CONSTANTS
  IMAGE_MAGIC, INFO_MAGIC, PROT_INFO_MAGIC,
  SHA256, KEYHASH, ED25519,     \* the types of entry
  SHA256_LEN, ED25519_LEN,
  BM_HDR_SIZE, MAX_IMAGE_LEN,
  NoteMagic, MAX_VERSION_STR_LEN,
  NoKey,
  AddrWrap,                     \* 2^32: addresses
  BODY_BASE, BOOTLOADER_BASE, BOOTLOADER_SIZE,
  GAP                           \* 0xFF: what gaps are filled with

ASSUME ImagesAssumption ==
  /\ {SHA256_LEN, ED25519_LEN, BM_HDR_SIZE, MAX_IMAGE_LEN, MAX_VERSION_STR_LEN} \subseteq Nat
  /\ Cardinality({SHA256, KEYHASH, ED25519}) = 3 /\ INFO_MAGIC # PROT_INFO_MAGIC
  /\ Len(NoteMagic) = 8 /\ GAP \in 0..Base - 1

(* External: a hash that tells any two changes of one byte apart, the hash *)
(* of a key and a signature.                                               *)
Hash(b) ==
  Digits(FoldLeft(LAMBDA h, d : (3 * h + d + 1) % Base^SHA256_LEN, Len(b) % Base, b), SHA256_LEN)
KeyHash(key) == Digits(key, SHA256_LEN)
Sign(key, digest) == <<key>> \o SubSeq(digest \o digest, 1, ED25519_LEN - 1)

(* tlv.rs: encoding. *)
INFO_SIZE == 4
ENTRY_SIZE == 4
Entry(kind, value) == Digits(kind, 2) \o Digits(Len(value), 2) \o value
Area(entries) ==
  LET body == FlattenSeq(entries)
  IN Digits(INFO_MAGIC, 2) \o Digits(INFO_SIZE + Len(body), 2) \o body
EncodeArea(digest, key) ==
  Area(IF key = NoKey THEN <<Entry(SHA256, digest)>>
       ELSE <<Entry(SHA256, digest), Entry(KEYHASH, KeyHash(key)),
              Entry(ED25519, Sign(key, digest))>>)
AreaSize(key) ==
  INFO_SIZE + ENTRY_SIZE + SHA256_LEN
  + IF key = NoKey THEN 0 ELSE ENTRY_SIZE + SHA256_LEN + ENTRY_SIZE + ED25519_LEN

(* tlv.rs: decoding. *)
Refused == [ok |-> FALSE]
Pair(b, off) ==
  IF off + 4 > Len(b) THEN Refused
  ELSE [ok |-> TRUE, a |-> Number(SubSeq(b, off + 1, off + 2)),
        b |-> Number(SubSeq(b, off + 3, off + 4))]
\* Header::tlv_off, which does not wrap.
TlvOff(h) == h.hdr_size + h.img_size
ParseArea(file, h) ==
  LET start == TlvOff(h)
      first == Pair(file, start)
      protected == first.ok /\ first.a = PROT_INFO_MAGIC
      info == IF protected THEN Pair(file, start + h.protect_tlv_size) ELSE first
      prot_end == start + h.protect_tlv_size
  IN IF /\ start < Base^4 /\ first.ok
        /\ IF protected THEN first.b = h.protect_tlv_size ELSE h.protect_tlv_size = 0
        /\ info.ok /\ info.a = INFO_MAGIC /\ prot_end + info.b <= Len(file)
     THEN [ok |-> TRUE, start |-> start, prot_end |-> prot_end, end |-> prot_end + info.b]
     ELSE Refused

\* The entries up to the first error, and whether there was none.
RECURSIVE EntriesFrom(_, _, _)
Past(value_off, len, area) == value_off > area.end \/ value_off + len > area.end
EntriesFrom(file, area, off) ==
  LET at == IF area.prot_end # area.start /\ off = area.prot_end THEN off + INFO_SIZE ELSE off
      head == Pair(file, at)
      value_off == at + ENTRY_SIZE
  IN IF off >= area.end THEN [ok |-> TRUE, tlvs |-> <<>>]
     ELSE IF ~head.ok \/ Past(value_off, head.b, area) THEN [ok |-> FALSE, tlvs |-> <<>>]
     ELSE LET rest == EntriesFrom(file, area, value_off + head.b)
          IN [rest EXCEPT !.tlvs =
                <<[kind |-> head.a, from |-> value_off, upto |-> value_off + head.b,
                   value |-> SubSeq(file, value_off + 1, value_off + head.b),
                   protected |-> at < area.prot_end]>> \o @]
Entries(file, area) == EntriesFrom(file, area, area.start + INFO_SIZE)
Find(tlvs, kind) == SelectSeq(tlvs, LAMBDA t : t.kind = kind)

(* bm-image: the version note in a body. *)
VersionNote ==
  <<Raw("magic", 8), U("git_sha", 4), U("major", 1), U("minor", 1), U("revision", 1), U("hw_version", 1),
    U("flags", 4), U("len", 2)>>
FIXED_LEN == 22
FindVersion(b) ==
  LET at == {i \in 0..Len(b) - FIXED_LEN : SubSeq(b, i + 1, i + 8) = NoteMagic}
      i == Min(at)
      note == ReadFrom(VersionNote, b, i).m
      len == Min({note.len, MAX_VERSION_STR_LEN, Len(b) - i - FIXED_LEN})
  IN IF at = {} THEN Refused
     ELSE [ok |-> TRUE, at |-> i, note |-> note,
           version_str |-> SubSeq(b, i + FIXED_LEN + 1, i + FIXED_LEN + len)]
\* mcuboot_version: a build without a tag has the largest bytes in its note.
McubootVersion(note) ==
  LET tagged == <<note.major, note.minor, note.revision>> # <<Base - 1, Base - 1, Base - 1>>
  IN [major |-> IF tagged THEN note.major ELSE 0, minor |-> IF tagged THEN note.minor ELSE 0,
      revision |-> IF tagged THEN note.revision ELSE 0, build_num |-> note.git_sha]

(* bm-image: building. *)
NewHeader(img_size, version) ==
  [magic |-> IMAGE_MAGIC, load_addr |-> 0, hdr_size |-> BM_HDR_SIZE, protect_tlv_size |-> 0,
   img_size |-> img_size, flags |-> 0, pad1 |-> 0] @@ version
Padded(b, n) == b \o [i \in 1..(n - Len(b)) |-> GAP]
Build(body, version, key) ==
  LET covered == Padded(Written(ImageHeader, NewHeader(Len(body), version)), BM_HDR_SIZE) \o body
  IN IF BM_HDR_SIZE + Len(body) + AreaSize(key) > MAX_IMAGE_LEN THEN Refused
     ELSE [ok |-> TRUE, file |-> covered \o EncodeArea(Hash(covered), key)]
FromBody(body, key) ==
  LET found == FindVersion(body)
  IN IF found.ok THEN Build(body, McubootVersion(found.note), key) ELSE Refused

\* elf.rs: each section that is allocated, not empty and in the file, at the
\* address of the first segment that holds its bytes, by address.
Loads(elf) ==
  SelectSeq(elf.sections, LAMBDA s : s.alloc /\ ~s.nobits /\ s.size > 0)
Outside(elf, s) == s.offset + s.size > Len(elf.bytes)
LoadAddress(elf, s) ==
  LET holding == {i \in DOMAIN elf.segments :
                    LET g == elf.segments[i]
                    IN g.offset <= s.offset /\ s.offset + s.size <= g.offset + g.filesz}
  IN IF holding = {} THEN s.addr
     ELSE LET g == elf.segments[Min(holding)] IN (g.paddr + s.offset - g.offset) % AddrWrap
Sections(elf) ==
  LET loads == Loads(elf)
  IN IF \E i \in DOMAIN loads : \/ Outside(elf, loads[i])
                                \/ LoadAddress(elf, loads[i]) + loads[i].size > AddrWrap
     THEN Refused
     ELSE [ok |-> TRUE,
           list |-> SortSeq([i \in DOMAIN loads |->
                               [addr |-> LoadAddress(elf, loads[i]),
                                data |-> SubSeq(elf.bytes, loads[i].offset + 1,
                                                loads[i].offset + loads[i].size)]],
                            LAMBDA s, t : s.addr < t.addr)]

SectionEnd(s) == s.addr + Len(s.data)
Overlap(list) == {i \in DOMAIN list : i > 1 /\ list[i].addr < SectionEnd(list[i - 1])}
Laid(out, base, s) ==
  [i \in DOMAIN out |->
     IF i + base - 1 \in s.addr..SectionEnd(s) - 1 THEN s.data[i + base - s.addr] ELSE out[i]]
Flat(elf, base, max_len) ==
  LET found == Sections(elf)
      list == found.list
      len == Max({SectionEnd(list[i]) - base : i \in DOMAIN list})
  IN IF ~found.ok THEN Refused
     ELSE IF \/ \E i \in DOMAIN list : list[i].addr < base
             \/ ~\E i \in DOMAIN list : list[i].addr = base
     THEN Refused
     ELSE IF len > max_len \/ Overlap(list) # {} THEN Refused
     ELSE [ok |-> TRUE,
           out |-> FoldLeft(LAMBDA out, s : Laid(out, base, s), [i \in 1..len |-> GAP], list)]

DfuFile(elf, key) ==
  LET body == Flat(elf, BODY_BASE, MAX_IMAGE_LEN - BM_HDR_SIZE - AreaSize(key))
  IN IF body.ok THEN FromBody(body.out, key) ELSE Refused
\* unified: the bootloader, an ELF here, padded to its area, then the image.
Unified(bootloader, dfu) ==
  LET boot == Flat(bootloader, BOOTLOADER_BASE, BOOTLOADER_SIZE)
      header == Decode(ImageHeader, dfu)
  IN IF boot.ok /\ header.ok /\ header.m.magic = IMAGE_MAGIC /\ Len(dfu) <= MAX_IMAGE_LEN
     THEN [ok |-> TRUE, file |-> Padded(boot.out, BOOTLOADER_SIZE) \o dfu] ELSE Refused

(* bm-image: Info::read and signed_by. *)
InfoOf(file, header, area, entries) ==
  LET sha == Find(entries.tlvs, SHA256)
  IN IF entries.ok
     THEN [ok |-> TRUE, header |-> header, tlvs |-> entries.tlvs, area |-> area,
           sha256_ok |-> sha # <<>> /\ sha[1].value = Hash(SubSeq(file, 1, area.start)),
           trailing |-> Len(file) - area.end, version |-> FindVersion(file)]
     ELSE Refused
InfoRead(file) ==
  LET areaRead(header, area) ==
        IF area.ok THEN InfoOf(file, header, area, Entries(file, area)) ELSE Refused
      headerRead(r) ==
        IF r.ok /\ r.m.magic = IMAGE_MAGIC THEN areaRead(r.m, ParseArea(file, r.m)) ELSE Refused
  IN headerRead(Decode(ImageHeader, file))
SignedBy(info) ==
  LET hash == Find(info.tlvs, KEYHASH)
  IN IF Find(info.tlvs, ED25519) = <<>> \/ hash = <<>> THEN <<>> ELSE hash[1].value
=============================================================================
