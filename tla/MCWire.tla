------------------------------- MODULE MCWire -------------------------------
(* Samples for Wire.  A byte has 16 values; the digits of a sample's        *)
(* numbers stay below 8, which keeps the widest field within TLC's integers. *)
EXTENDS Wire

RECURSIVE Sample(_, _, _)
Sample(layout, k, n) ==
  LET value(i) ==
        LET p == layout[i]
        IN CASE p.kind = "num" -> Number([j \in 1..p.width |-> (i + j * k) % 8])
             [] p.kind = "flag" -> k % 2 = 0
             [] p.kind = "raw" -> [j \in 1..p.width |-> (j + k) % Base]
             [] p.kind \in {"bytes", "rest"} -> [j \in 1..n |-> (j + k) % Base]
             [] p.kind = "items" -> [j \in 1..n |-> Sample(p.layout, k + j, j % 3)]
      parts == {i \in DOMAIN layout : layout[i].kind # "count"}
      at(name) == CHOOSE i \in parts : layout[i].name = name
  IN [name \in {layout[i].name : i \in parts} |-> value(at(name))]

Listless == {name \in DOMAIN Catalogue :
               \A i \in DOMAIN Catalogue[name] : Catalogue[name][i].kind # "count"}
DfuType == [dfu_start |-> 0, dfu_chunk_request |-> 1, dfu_chunk |-> 2, dfu_end |-> 4,
            dfu_heartbeat |-> 6]
MessageOf(name, k, n) ==
  LET m == Sample(Catalogue[name], k, n)
  IN IF name \in DOMAIN DfuType THEN [m EXCEPT !.frame_type = DfuType[name]]
     ELSE IF name = "log" THEN [m EXCEPT !.nul = 0] ELSE m
MCSamples ==
  {<<name, MessageOf(name, k, n)>> : name \in Listless \ {"tx"}, k \in {1, 6}, n \in {0}}
  \cup {<<name, MessageOf(name, 3, n)>> : name \in DOMAIN Catalogue \ Listless, n \in {0, 1, 15, 16}}
  \cup {<<"tx", [network |-> net, data |-> [i \in 1..n |-> i]]>> : net \in {1, 2}, n \in 0..6}
  \cup {<<"log", [MessageOf("log", k, n) EXCEPT !.file_name = name]>> :
          k \in {1}, n \in 1..4, name \in {<<>>, <<1, 2, 0, 3>>, <<1, 2, 3>>, <<1, 2, 3, 4>>}}

NoteBytes(v) == <<7, 6, 5, 4, 3, 2, 1, 0>> \o <<1, 2, 3, 4>> \o <<v, v, v, 1>> \o <<0, 0, 0, 0>>
                \o <<2, 0>> \o <<10, 11>>
Section(offset, size, addr) ==
  [alloc |-> TRUE, nobits |-> FALSE, offset |-> offset, size |-> size, addr |-> addr]
Segment(offset, filesz, paddr) == [offset |-> offset, filesz |-> filesz, paddr |-> paddr]
Elf(sections, segments, v) ==
  [sections |-> sections, segments |-> segments, bytes |-> NoteBytes(v) \o <<9, 8, 7, 6>>]
MCElfs ==
  {Elf(<<Section(0, 24, 100)>>, <<>>, 1),
   Elf(<<Section(24, 4, 130), Section(0, 24, 100)>>, <<>>, 15),
   Elf(<<Section(0, 24, 50), Section(24, 3, 10)>>, <<Segment(0, 24, 100), Segment(20, 8, 122)>>, 2),
   Elf(<<Section(0, 24, 100), Section(24, 4, 123)>>, <<>>, 1),      \* overlap
   Elf(<<Section(24, 4, 110), Section(0, 24, 106)>>, <<>>, 1),      \* overlap, nothing at the base
   Elf(<<Section(0, 24, 100), Section(24, 4, 90)>>, <<>>, 1),       \* below the base
   Elf(<<Section(0, 24, 100), Section(24, 5, 124)>>, <<>>, 1),      \* past the file
   Elf(<<Section(0, 24, 100), [Section(24, 5, 124) EXCEPT !.nobits = TRUE]>>, <<>>, 3),
   Elf(<<Section(0, 24, 100), Section(24, 4, 160)>>, <<>>, 1),      \* too large
   Elf(<<Section(0, 24, 100), Section(24, 4, 254)>>, <<>>, 1),      \* past the last address
   Elf(<<Section(1, 24, 100)>>, <<>>, 1)}                           \* no version
MCBootloader == [sections |-> <<Section(0, 3, 10)>>, segments |-> <<>>, bytes |-> <<1, 2, 3>>]

MCForeign ==
  LET entries == Entry(5, <<1>>) \o Entry(6, <<>>)
      size == INFO_SIZE + Len(entries)
      header == [NewHeader(2, [major |-> 1, minor |-> 0, revision |-> 0, build_num |-> 0])
                   EXCEPT !.protect_tlv_size = size, !.hdr_size = 32]
      covered == Written(ImageHeader, header) \o <<3, 4>>
  IN {covered \o Digits(PROT_INFO_MAGIC, 2) \o Digits(size, 2) \o entries
      \o EncodeArea(Hash(covered), 1)}

MCPayloads == {<<>>, <<3>>} \cup ((0..15) \X (0..15))
MCDisturbed == {<<3>>, <<5, 9>>}

MCDays == 0..400 \cup 10950..11330 \cup 24820..24880 \cup 47400..47560 \cup 49680..49712
MCTimes ==
  {<<d, s, ms>> : d \in {11016, 11380}, s \in {86398, 86399}, ms \in {0, 1, 500, 999}}
  \cup {<<20512, 3599, 250>>, <<47481, 86399, 3>>, <<10956, 86399, 0>>, <<47482, 0, 0>>}

Short == [Text(<<"a">>) EXCEPT !.short = TRUE]
MCHeads == {Uint(1), Text(<<"a">>), Short, Open("text"), Item("array", 1), Open("array"),
            Item("map", 1), Open("map"), Item("tag", 2), Item("break", 0), Item("cut", 0)}
MCOtherHeads == (MCHeads \ {Item("map", 1)})
                \cup {Item("neg", 3), Uint(70000), Item("bad", 0), Str("bytes", <<"a">>)}
Field(key, type, value) == [key |-> key, type |-> type, value |-> value]
Component(key, fields) == [key |-> key, fields |-> fields]
NoComps == <<>>
Sys(name) == [node_id |-> 1048581, git_sha |-> 1048575, sys_config_crc |-> 23,
              app_name_strlen |-> Len(name), app_name |-> name]
Reply(success, data) == [node_id |-> 70000, partition_id |-> 2, success |-> success,
                         cbor_data |-> data]
Metrics == [version |-> 255, node_id |-> 1048576, uptime_ms |-> 65536]
MCBodies ==
  {[kind |-> "sys", m |-> Sys(<<>>), comps |-> NoComps],
   [kind |-> "sys", m |-> Sys(<<"a", "b", "c">>), comps |-> NoComps],
   [kind |-> "sys", m |-> Sys([i \in 1..250 |-> "a"]), comps |-> NoComps],
   [kind |-> "power", m |-> [total_on_s |-> 24, remaining_on_s |-> 0, upcoming_off_s |-> 1048575],
    comps |-> NoComps],
   [kind |-> "request", m |-> [partition_id |-> 2], comps |-> NoComps],
   [kind |-> "reply", m |-> Reply(1, <<"a", "b", "c">>), comps |-> NoComps],
   [kind |-> "reply", m |-> Reply(0, <<>>), comps |-> NoComps]}
  \cup {[kind |-> "asked", m |-> [node_id |-> 3, partition_id |-> id], comps |-> NoComps] :
          id \in 0..3}
  \cup {[kind |-> "metrics", m |-> Metrics, comps |-> comps] :
          comps \in {<<>>,
                     <<Component(<<"p">>, <<Field(<<"v">>, "u8", 200), Field(<<"w">>, "float", 9)>>),
                       Component(<<"q">>, <<Field(<<"v">>, "double", 7)>>)>>,
                     <<Component(<<"p">>, <<Field(<<"v">>, "u64", 1048579),
                                           Field(<<"z">>, "u16", 65535)>>)>>,
                     <<Component(<<"p">>, <<Field(<<"s">>, "string", 0)>>)>>,
                     <<Component(<<"p">>, <<Field(<<"s">>, "string", 0),
                                           Field(<<"v">>, "u32", 0)>>)>>}}

Slot(t) == <<t>> \o [i \in 1..(SLOT - 1) |-> Uint(0)]
StoredKeys ==
  {[key |-> <<"k">>, type |-> UINT32, slot |-> Slot(Uint(70000))],
   [key |-> <<"l">>, type |-> INT32, slot |-> Slot(Item("neg", 4))],
   [key |-> <<"m">>, type |-> FLOAT, slot |-> Slot(Item("float", 5))],
   [key |-> <<"n">>, type |-> STR, slot |-> Slot(Text(<<"a", "b">>))],
   [key |-> <<"k">>, type |-> BYTES, slot |-> Slot(Str("bytes", <<"b">>))],
   [key |-> <<"o">>, type |-> ARRAY, slot |-> Slot(Item("array", 1))],
   [key |-> <<"q">>, type |-> UINT32, slot |-> Slot(Item("cut", 0))],
   [key |-> <<"p">>, type |-> STR, slot |-> Slot(Short)]}
MCPartitions ==
  {p \in UNION {[1..n -> StoredKeys] : n \in 0..3} :
     \A i, j \in DOMAIN p : p[i].key = p[j].key => i = j}
MCStored ==
  LET k == CHOOSE k \in StoredKeys : k.key = <<"n">>
      l == CHOOSE l \in StoredKeys : l.key = <<"l">>
      o == CHOOSE o \in StoredKeys : o.key = <<"o">>
  IN (0 :> <<k, l>>) @@ (1 :> <<k, o>>) @@ (2 :> <<l>>)

Words(letters, n) == UNION {[1..k -> letters] : k \in 0..n}
MCTexts == Words({"a", "b", "NUL"}, 3) \cup Words({"a", "b"}, 5)
MCPatterns == Words({"a", "b", "*", "?"}, 4)
MCSeeds == {{}, Bits(\habcd)}
Ascii(text) == [i \in DOMAIN text |-> Bits(text[i])]
MCData ==
  {Ascii(<<49, 50, 51, 52, 53, 54, 55, 56, 57>>)}       \* "123456789"
  \cup UNION {[1..n -> {Bits(b) : b \in {0, 1, 128, 165, 255}}] : n \in 0..3}
MCLinkLocal == <<14, 8, 0, 0>>
MCUniqueLocal == <<13, 0, 0, 0>>
MCEther == <<8, 13>>
MCNoteMagic == <<7, 6, 5, 4, 3, 2, 1, 0>>
MCBehind == <<9, 6, 10, 0>>
MCTopic == <<"a", "b">>
=============================================================================
