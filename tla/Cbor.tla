-------------------------------- MODULE Cbor --------------------------------
(***************************************************************************)
(* CBOR as bm-wire reads and writes it: the iterator over items that       *)
(* cbor/parser.rs ports from tinycbor, the bodies of the services built on *)
(* it (service.rs and its submodules), and the map of a config partition   *)
(* (configuration.rs).                                                     *)
(*                                                                         *)
(* A buffer is a sequence of heads, a string's with its body: the bytes of *)
(* a head are left out, the argument it carries is not.  "cut" is a head   *)
(* whose argument runs past the end, "bad" one with a reserved argument    *)
(* size, "break" the end of an open item; a `short` string's body runs     *)
(* past the end.  Text is a sequence of characters.                        *)
(*                                                                         *)
(* A definition marked "slip" is a plausible mistake in the one below it;  *)
(* the model uses none of them.                                            *)
(***************************************************************************)
EXTENDS Integers, SequencesExt

CONSTANTS
  MAX_RECURSIONS,               \* containers in containers
  MAX_ITEMS,                    \* u32::MAX: the most items a container may declare
  U8, U16, U32,                 \* how many values a narrowed integer has
  SLOT,                         \* config: the bytes of a value's slot
  KEY_BUF_LEN,                  \* config: the bytes of a stored key
  MAX_KEY_LEN                   \* metrics: one more than the longest key

ASSUME CborAssumption ==
  /\ {MAX_RECURSIONS, MAX_ITEMS, U8, U16, U32, SLOT, KEY_BUF_LEN, MAX_KEY_LEN} \subseteq Nat \ {0}

---------------------------------------------------------------------------
(* Heads, and what tinycbor's encoder writes. *)
Item(kind, arg) ==
  [kind |-> kind, arg |-> arg, body |-> <<>>, open |-> FALSE, short |-> FALSE]
Str(kind, body) == [Item(kind, Len(body)) EXCEPT !.body = body]
Open(kind) == [Item(kind, 31) EXCEPT !.open = TRUE]
Text(s) == Str("text", s)
Key(name) == Text(<<name>>)
Uint(n) == Item("uint", n)

HeadSize(arg) == IF arg < 24 THEN 1 ELSE IF arg < 256 THEN 2 ELSE IF arg < 65536 THEN 3 ELSE 5
Size(t) ==
  CASE t.kind = "float" -> 5 [] t.kind = "double" -> 9 [] OTHER -> HeadSize(t.arg) + Len(t.body)
SizeOf(toks) == FoldLeft(LAMBDA n, t : n + Size(t), 0, toks)
\* encode_map.
EncodeMap(fields, toks, room) ==
  LET all == <<Item("map", fields)>> \o toks
  IN IF SizeOf(all) > room THEN [err |-> "OutOfMemory", toks |-> <<>>]
     ELSE [err |-> "", toks |-> all]
KeyUint(name, n) == <<Key(name), Uint(n)>>

---------------------------------------------------------------------------
(* parser.rs.  Value is an iterator on an item, err what its last step     *)
(* returned; remaining is Many in an open container.                       *)
Many == -1
Fixed == {"uint", "neg", "tag", "simple", "half", "float", "double"}
Containers == {"array", "map"}
Strings == {"bytes", "text"}
IsWide(t) == t.kind \in {"float", "double"} \/ t.arg >= 65536
Fail(v, err) == [v EXCEPT !.err = err]
Invalid(v) == [v EXCEPT !.ty = "invalid"]
AtBreak(v) == v.pos <= Len(v.buf) /\ v.buf[v.pos].kind = "break"

PreparseValue(v) ==
  IF v.pos > Len(v.buf) THEN Fail(Invalid(v), "UnexpectedEof")
  ELSE LET t == v.buf[v.pos]
       IN CASE t.kind = "cut" -> Fail(v, "UnexpectedEof")
            [] t.kind = "bad" -> Fail(v, "IllegalNumber")
            [] t.kind = "break" -> Fail(v, "UnexpectedBreak")
            [] OTHER -> [v EXCEPT !.ty = t.kind, !.open = t.open,
                                  !.extra = IF IsWide(t) THEN 0 ELSE t.arg, !.large = IsWide(t)]
Parse(buf) ==
  PreparseValue([buf |-> buf, pos |-> 1, remaining |-> 1, ty |-> "invalid", extra |-> 0,
                 large |-> FALSE, open |-> FALSE, in_map |-> FALSE, next_is_value |-> FALSE,
                 err |-> ""])

PreparseNextNodecrement(v) ==
  IF v.remaining = Many /\ AtBreak(v)
  THEN IF (v.in_map /\ v.next_is_value) \/ v.ty = "tag" THEN Fail(v, "UnexpectedBreak")
       ELSE [Invalid(v) EXCEPT !.remaining = 0, !.open = TRUE]
  ELSE PreparseValue(v)
\* A tag counts neither as an item nor as a key.
LastStaysOpen(v) == [Invalid(v) EXCEPT !.remaining = 0]  \* slip
LastOfContainer(v) == [Invalid(v) EXCEPT !.remaining = 0, !.open = FALSE]
PreparseNext(v) ==
  IF v.ty = "tag" THEN PreparseNextNodecrement(v)
  ELSE IF v.remaining = 1 THEN LastOfContainer(v)
  ELSE PreparseNextNodecrement(
         [v EXCEPT !.remaining = IF @ = Many THEN Many ELSE @ - 1, !.next_is_value = ~@])

\* extract: the head's argument, whatever the item is.
Extract(v) == IF v.large THEN v.buf[v.pos].arg ELSE v.extra
AdvanceInternal(v) == PreparseNext([v EXCEPT !.pos = @ + 1])

\* string_chunk, from the head at pos: the bodies up to the break.
RECURSIVE ChunksFrom(_, _, _)
ChunksFrom(buf, pos, ty) ==
  IF pos > Len(buf) THEN [err |-> "UnexpectedEof", body |-> <<>>, pos |-> pos]
  ELSE LET t == buf[pos]
           stop(err) == [err |-> err, body |-> <<>>, pos |-> pos]
           rest == ChunksFrom(buf, pos + 1, ty)
       IN CASE t.kind = "break" -> stop("")
            [] t.kind = "cut" -> stop("UnexpectedEof")
            [] t.kind = "bad" -> stop("IllegalNumber")
            [] t.kind \notin {"break", "cut", "bad", ty} -> stop("IllegalType")
            [] t.kind = ty /\ t.open -> stop("IllegalNumber")
            [] t.kind = ty /\ t.short -> stop("UnexpectedEof")
            [] OTHER -> [rest EXCEPT !.body = t.body \o @]
\* iterate_string: what is copied into a buffer of buflen bytes and where
\* the iterator is then.
Chunks(v) ==
  IF v.open THEN ChunksFrom(v.buf, v.pos + 1, v.ty)
  ELSE [ChunksFrom(<<v.buf[v.pos], Item("break", 0)>>, 1, v.ty) EXCEPT !.pos = v.pos]
Copied(body, next, buflen) ==
  IF next.err # "" THEN [err |-> next.err]
  ELSE [err |-> "", total |-> Len(body), all |-> Len(body) <= buflen, body |-> body, next |-> next]
PastChunks(v, chunks, buflen) ==
  IF chunks.err # "" THEN [err |-> chunks.err]
  ELSE Copied(chunks.body, PreparseNext([v EXCEPT !.pos = chunks.pos + 1]), buflen)
IterateString(v, buflen) ==
  IF v.ty \notin Strings THEN [err |-> "Unreachable"] ELSE PastChunks(v, Chunks(v), buflen)
\* copy_string and string.
CopyString(v, buflen) == IterateString(v, buflen)

EnterItems(v, items) ==
  LET inside == [v EXCEPT !.pos = @ + 1, !.remaining = IF v.open THEN Many ELSE items]
  IN IF ~v.open /\ (Extract(v) >= MAX_ITEMS \/ items > MAX_ITEMS) THEN Fail(v, "DataTooLarge")
     ELSE IF ~v.open /\ items = 0 THEN Invalid(inside)
     ELSE PreparseNextNodecrement([inside EXCEPT !.in_map = (v.ty = "map"),
                                                 !.next_is_value = FALSE, !.open = FALSE])
EnterContainer(v) ==
  IF v.ty \notin Containers THEN Fail(v, "Unreachable")
  ELSE EnterItems(v, IF v.ty = "map" THEN 2 * Extract(v) ELSE Extract(v))
LeaveContainer(v, inside) ==
  IF v.ty \notin Containers \/ inside.ty # "invalid" THEN Fail(v, "Unreachable")
  ELSE PreparseNext([v EXCEPT !.pos = inside.pos + IF inside.open THEN 1 ELSE 0])

AfterString(v, done) == IF done.err # "" THEN Fail(v, done.err) ELSE done.next
AfterContainer(v, end) == IF end.err # "" THEN Fail(v, end.err) ELSE LeaveContainer(v, end)
RECURSIVE AdvanceRecursive(_, _), AdvanceToEnd(_, _)
AdvanceToEnd(v, nesting) ==
  IF v.err # "" \/ v.remaining = 0 THEN v ELSE AdvanceToEnd(AdvanceRecursive(v, nesting), nesting)
AdvanceRecursive(v, nesting) ==
  IF v.ty \in Fixed THEN AdvanceInternal(v)
  ELSE IF v.ty \in Strings THEN AfterString(v, IterateString(v, 0))
  ELSE IF nesting = 0 THEN Fail(v, "NestingTooDeep")
  ELSE AfterContainer(v, AdvanceToEnd(EnterContainer(v), nesting - 1))
Advance(v) ==
  IF v.ty = "invalid" THEN Fail(v, "Unreachable")
  ELSE IF v.remaining = 0 THEN Fail(v, "AdvancePastEof")
  ELSE AdvanceRecursive(v, MAX_RECURSIONS)
ValidateBasic(v) == Advance(v).err

RECURSIVE SkipTag(_)
SkipTag(v) ==
  IF v.err # "" \/ v.ty # "tag" THEN v
  ELSE IF v.remaining = 0 THEN Fail(v, "AdvancePastEof") ELSE SkipTag(AdvanceInternal(v))

\* map_find_value: on the value of the first text key that is `key`.
Unless(v, Do(_)) == IF v.err # "" THEN v ELSE Do(v)     \* an error ends a walk
RECURSIVE FindFrom(_, _)
FindFrom(v0, key) ==
  LET other(past) == FindFrom(Unless(SkipTag(past), Advance), key)
      atText(v, read) ==
        Unless(AfterString(v, read),
               LAMBDA past : IF read.body = key THEN PreparseValue(past) ELSE other(past))
      at(v) == IF v.ty = "text" THEN atText(v, IterateString(v, Len(key)))
               ELSE Unless(Advance(v), other)
  IN IF v0.err # "" THEN v0
     ELSE IF v0.remaining = 0 THEN Invalid(v0) ELSE Unless(SkipTag(v0), at)
MapFindValue(v, key) ==
  IF v.ty # "map" THEN Fail(v, "Unreachable") ELSE FindFrom(EnterContainer(v), key)

---------------------------------------------------------------------------
(* service.rs: the opening and the closing of every decoder.  A decoder's  *)
(* state is its map, the iterator in it and the fields written so far.     *)
EnterMap(buf, fields, m) ==
  LET fail(err) == [err |-> err, m |-> m]
      opened(map, v) == [err |-> v.err, map |-> map, v |-> v, m |-> m]
      enter(map, invalid) ==
        IF map.err # "" THEN fail(map.err)
        ELSE IF invalid # "" THEN fail(invalid)
        ELSE IF map.ty # "map" THEN fail("IllegalType")
        ELSE IF map.open \/ Extract(map) # fields THEN fail("UnknownLength")
        ELSE opened(map, EnterContainer(map))
  IN enter(Parse(buf), ValidateBasic(Parse(buf)))
Goto(st, v) == IF v.err # "" THEN [st EXCEPT !.err = v.err] ELSE [st EXCEPT !.v = v]
Step(st0) == Unless(st0, LAMBDA st : Goto(st, Advance(st.v)))
SkipKey(st0) ==
  Unless(st0, LAMBDA st : IF st.v.ty # "text" THEN Fail(st, "IllegalType") ELSE Step(st))
LeaveMap(st0) ==
  LET after(map) == IF map.err # "" THEN map.err
                    ELSE IF map.remaining # 0 THEN "GarbageAtEnd" ELSE ""
  IN Unless(st0, LAMBDA st : Fail(st, after(LeaveContainer(st.map, st.v))))
\* A field is <<name, bound>>: the value is kept modulo the bound.
Kept(v, bound) == IF bound = 0 THEN Extract(v) ELSE Extract(v) % bound
\* Written as read, whatever the item (divergence #82).
Write(st, field, v) == [st EXCEPT !.m[field[1]] = Kept(v, field[2])]
ReadAny(st0, field) == Unless(SkipKey(st0), LAMBDA st : Step(Write(st, field, st.v)))
\* decode_key_value_uint32: an unsigned integer, written last.
ReadUint(st0, field) ==
  LET read(st) == IF st.v.ty # "uint" THEN Fail(st, "IllegalType")
                  ELSE Unless(Step(st), LAMBDA next : Write(next, field, st.v))
  IN Unless(SkipKey(st0), read)
ReadAll(Read(_, _), st, fields) == FoldLeft(Read, st, fields)

(* sys_info.rs. *)
SysInfoFields == <<<<"node_id", 0>>, <<"git_sha", U32>>, <<"sys_config_crc", U32>>,
                   <<"app_name_strlen", U32>>>>
SysInfoBlank == [node_id |-> 0, git_sha |-> 0, sys_config_crc |-> 0, app_name_strlen |-> 0,
                 app_name |-> <<>>, named |-> FALSE]
SysInfoEncode(m, room) ==
  EncodeMap(5, KeyUint("node_id", m.node_id) \o KeyUint("git_sha", m.git_sha)
               \o KeyUint("sys_config_crc", m.sys_config_crc)
               \o KeyUint("app_name_strlen", m.app_name_strlen)
               \o <<Key("app_name"), Text(m.app_name)>>, room)
SysInfoDecode(buf) ==
  LET named(st, copied) ==
        IF st.v.ty # "text" THEN Fail(st, "IllegalType")
        ELSE IF copied.err # "" THEN Fail(st, copied.err)
        ELSE IF ~copied.all THEN Fail(st, "OutOfMemory")
        ELSE LeaveMap(Step([st EXCEPT !.m.app_name = copied.body, !.m.named = TRUE]))
  IN Unless(SkipKey(ReadAll(ReadAny, EnterMap(buf, 5, SysInfoBlank), SysInfoFields)),
            LAMBDA st : named(st, CopyString(st.v, (st.m.app_name_strlen + 1) % U32)))
\* handle: a request with data has no reply.
SysInfoHandle(request, m, room) ==
  IF request # <<>> THEN [err |-> "none"] ELSE SysInfoEncode(m, room)

(* power_info.rs. *)
PowerFields == <<<<"total_on_s", U32>>, <<"remaining_on_s", U32>>, <<"upcoming_off_s", U32>>>>
PowerBlank == [total_on_s |-> 0, remaining_on_s |-> 0, upcoming_off_s |-> 0]
PowerEncode(m, room) ==
  EncodeMap(3, FlattenSeq([i \in 1..3 |-> KeyUint(PowerFields[i][1], m[PowerFields[i][1]])]), room)
PowerDecode(buf) == LeaveMap(ReadAll(ReadUint, EnterMap(buf, 3, PowerBlank), PowerFields))

(* config_map.rs. *)
ConfigMapRequestEncode(id, room) == EncodeMap(1, KeyUint("partition_id", id), room)
ConfigMapRequestDecode(buf) ==
  LeaveMap(ReadAny(EnterMap(buf, 1, [partition_id |-> 0]), <<"partition_id", U32>>))
ConfigMapReplyFields == <<<<"node_id", 0>>, <<"partition_id", U32>>, <<"success", 0>>,
                          <<"cbor_encoded_map_len", U32>>>>
ConfigMapReplyBlank == [node_id |-> 0, partition_id |-> 0, success |-> 0,
                        cbor_encoded_map_len |-> 0, cbor_data |-> <<>>, has_data |-> FALSE]
ConfigMapReplyEncode(m, room) ==
  EncodeMap(5, KeyUint("node_id", m.node_id) \o KeyUint("partition_id", m.partition_id)
               \o KeyUint("success", m.success)
               \o KeyUint("cbor_encoded_map_len", Len(m.cbor_data))
               \o <<Key("cbor_data"), Str("bytes", m.cbor_data)>>, room)
\* Without success or a length the value of cbor_data is not read.
WrongLength(copied, len) == ~copied.all \/ copied.total # len
ConfigMapReplyDecode(buf) ==
  LET filled(st, len, copied) ==
        IF len = 0 \/ st.m.success = 0 THEN st
        ELSE IF st.v.ty # "bytes" THEN Fail(st, "Unreachable")
        ELSE IF copied.err # "" THEN Fail(st, copied.err)
        ELSE IF WrongLength(copied, len)
        THEN Fail(st, IF copied.all THEN "IllegalType" ELSE "OutOfMemory")
        ELSE Unless(LeaveMap(Step(st)), LAMBDA left :
               [left EXCEPT !.m.cbor_data = copied.body, !.m.has_data = TRUE])
  IN Unless(SkipKey(ReadAll(ReadAny, EnterMap(buf, 5, ConfigMapReplyBlank), ConfigMapReplyFields)),
            LAMBDA st : filled(st, st.m.cbor_encoded_map_len,
                               CopyString(st.v, st.m.cbor_encoded_map_len)))

(* metrics.rs.  A component is a key and a table of fields, each a key, a  *)
(* type and a value.                                                       *)
Bounds == [u8 |-> U8, u16 |-> U16, u32 |-> U32, u64 |-> 0, float |-> U32, double |-> 0]
Uints == {"u8", "u16", "u32", "u64"}
MetricsFields == <<<<"version", U8>>, <<"node_id", 0>>, <<"uptime_ms", U32>>>>
MetricsBlank == [version |-> 0, node_id |-> 0, uptime_ms |-> 0]
\* c_str: a key ends at its first NUL.
CStr(key) ==
  LET nuls == {i \in DOMAIN key : key[i] = "NUL"}
  IN IF nuls = {} THEN key ELSE SubSeq(key, 1, Min(nuls) - 1)
StringEntries(fields) ==
  IF fields # <<>> /\ Last(fields).type = "string" THEN "UnsupportedType"
  ELSE IF \E i \in DOMAIN fields : fields[i].type = "string" THEN "TooFewItems" ELSE ""
EncodedField(f) ==
  <<Text(CStr(f.key)), IF f.type \in Uints THEN Uint(f.value) ELSE Item(f.type, f.value)>>
EncodedComponent(c) ==
  <<Text(CStr(c.key)), Item("map", Len(c.fields))>>
  \o FlattenSeq([i \in DOMAIN c.fields |-> EncodedField(c.fields[i])])
MetricsEncode(m, comps, room) ==
  LET refused == {i \in DOMAIN comps : StringEntries(comps[i].fields) # ""}
  IN IF refused # {} THEN [err |-> StringEntries(comps[Min(refused)].fields), toks |-> <<>>]
     ELSE EncodeMap(4, FlattenSeq([i \in 1..3 |-> KeyUint(MetricsFields[i][1],
                                                         m[MetricsFields[i][1]])])
                       \o <<Key("data"), Item("map", Len(comps))>>
                       \o FlattenSeq([i \in DOMAIN comps |-> EncodedComponent(comps[i])]), room)

\* decode_fields: every pair in wire order; mismatch wins over unknown.
Fits(type, ty) == IF type \in Uints THEN ty = "uint" ELSE type = ty
\* r is the walk: the iterator, the table, what was unknown or mismatched.
Keep(r, found, value) ==
  LET i == Min(found)
      type == r.fields[i].type
  IN IF found = {} THEN [r EXCEPT !.unknown = TRUE]
     ELSE IF Fits(type, value.ty) THEN [r EXCEPT !.fields[i].value = Kept(value, Bounds[type])]
     ELSE [r EXCEPT !.mismatch = @ \/ type # "string"]
Named(fields, key) == {i \in DOMAIN fields : CStr(fields[i].key) = key}
KeepPair(r, value) ==
  IF Extract(r.v) > MAX_KEY_LEN - 1 THEN r
  ELSE Keep(r, Named(r.fields, CStr(r.v.buf[r.v.pos].body)), value)
RECURSIVE DecodeFields(_)
DecodeFields(r) ==
  IF r.err # "" THEN r
  ELSE IF r.v.remaining = 0
  THEN Fail(r, IF r.mismatch THEN "ImproperValue" ELSE IF r.unknown THEN "UnsupportedType" ELSE "")
  ELSE IF r.v.ty # "text" THEN Fail(r, "IllegalType")
  ELSE IF r.v.open THEN Fail(r, "UnknownLength")
  ELSE LET pair(value) == IF value.err # "" THEN Fail(r, value.err)
                          ELSE DecodeFields(Goto(KeepPair(r, value), Advance(value)))
       IN pair(Advance(r.v))
\* decode: the components in their order, each by its key.
WithFields(st, i, read) ==
  [st EXCEPT !.comps[i].fields = read.fields,
             !.err = IF read.err = "UnsupportedType" THEN "" ELSE read.err]
Walk(v, fields) == [v |-> v, err |-> v.err, fields |-> fields, unknown |-> FALSE, mismatch |-> FALSE]
DecodeFound(st, i, found) ==
  IF found.err # "" THEN Fail(st, found.err)
  ELSE IF found.ty = "invalid" THEN st
  ELSE IF found.ty # "map" THEN Fail(st, "IllegalType")
  ELSE WithFields(st, i, DecodeFields(Walk(EnterContainer(found), st.comps[i].fields)))
DecodeComponent(st, i, data) ==
  IF st.err # "" THEN st ELSE DecodeFound(st, i, MapFindValue(data, CStr(st.comps[i].key)))
DecodeComponents(st, comps) ==
  LET opened == [err |-> st.err, m |-> st.m, comps |-> comps]
  IN IF st.err # "" THEN opened
     ELSE IF st.v.ty # "map" THEN Fail(opened, "IllegalType")
     ELSE FoldLeft(LAMBDA r, i : DecodeComponent(r, i, st.v), opened, [i \in DOMAIN comps |-> i])
MetricsDecode(buf, comps) ==
  DecodeComponents(SkipKey(ReadAll(ReadUint, EnterMap(buf, 4, MetricsBlank), MetricsFields)), comps)

---------------------------------------------------------------------------
(* configuration.rs.  A stored key is its text, a value type and the slot  *)
(* of its value.                                                           *)
UINT32 == 0
INT32 == 1
FLOAT == 2
STR == 3
BYTES == 4
ARRAY == 5
Signed(n) == LET low == n % U32 IN IF low >= U32 \div 2 THEN low - U32 ELSE low
GetInt64(v) == IF v.ty = "neg" THEN -Extract(v) - 1 ELSE Extract(v)
\* Head::parse and Head::config_type, a reader of a slot's first head.
HeadParses(slot) == slot # <<>> /\ slot[1].kind \notin {"cut", "bad", "break"}
TypeOfKind == [uint |-> UINT32, neg |-> INT32, float |-> FLOAT, text |-> STR, bytes |-> BYTES,
               array |-> ARRAY]
ConfigType(slot) ==
  IF HeadParses(slot) /\ slot[1].kind \in DOMAIN TypeOfKind THEN TypeOfKind[slot[1].kind] ELSE -1
\* copy_string: what of a slot's string is copied into room bytes, chunk by
\* chunk; ok unless it is malformed, fits if all of it was copied.
RECURSIVE SlotChunks(_, _, _)
SlotChunks(slot, r, room) ==
  LET t == slot[r.pos]
      total == r.total + Len(t.body)
      fits == r.fits /\ total <= room
  IN IF r.last THEN r
     ELSE IF r.pos > Len(slot) THEN [r EXCEPT !.ok = FALSE]
     ELSE IF t.kind = "break" THEN r
     ELSE IF t.kind # slot[1].kind \/ t.open \/ t.short THEN [r EXCEPT !.ok = FALSE]
     ELSE SlotChunks(slot, [r EXCEPT !.pos = @ + 1, !.total = total, !.fits = fits,
                                     !.out = IF fits THEN @ \o t.body ELSE @,
                                     !.last = ~slot[1].open], room)
SlotString(slot, room) ==
  SlotChunks(slot, [pos |-> IF slot[1].open THEN 2 ELSE 1, total |-> 0, fits |-> TRUE,
                    out |-> <<>>, ok |-> TRUE, last |-> FALSE], room)
\* get_uint, get_int, get_float, get_string and get_buffer of a slot.
Readable(value) == [ok |-> TRUE, value |-> value]
Unreadable == [ok |-> FALSE, value |-> 0]
HeadInt(t) == IF t.kind = "neg" THEN -t.arg - 1 ELSE t.arg
Takes(type, kind) ==
  \/ type = INT32 /\ kind = "uint"
  \/ kind \in DOMAIN TypeOfKind /\ TypeOfKind[kind] = type
GotNumber(slot, type) ==
  Readable(IF type = INT32 THEN Signed(HeadInt(slot[1])) ELSE slot[1].arg % U32)
GotString(copied) == IF copied.ok /\ copied.fits THEN Readable(copied.out) ELSE Unreadable
Got(slot, type, room) ==
  IF ~HeadParses(slot) \/ ~Takes(type, slot[1].kind) \/ type = ARRAY THEN Unreadable
  ELSE IF type \in {STR, BYTES} THEN GotString(SlotString(slot, room))
  ELSE GotNumber(slot, type)
\* entry.rs entry_value: an entry of the list of keys, an array up to its end.
EntryString(copied) == IF copied.err = "" THEN Readable(copied.body) ELSE Unreadable
EntryArray(slot, end) == IF end.err = "" THEN Readable(SubSeq(slot, 1, end.pos - 1)) ELSE Unreadable
EntryValue(slot, type) ==
  IF ~HeadParses(slot) \/ Parse(slot).err # "" \/ ~Takes(type, slot[1].kind) THEN Unreadable
  ELSE IF type = ARRAY THEN EntryArray(slot, Advance(Parse(slot)))
  ELSE IF type \in {STR, BYTES} THEN EntryString(CopyString(Parse(slot), Len(slot)))
  ELSE GotNumber(slot, type)

\* encode_map: `it` outlives the key it was read for, and reads zeros then.
ZEROED == [i \in 1..SLOT |-> Uint(0)]
IntItem(n) == IF n < 0 THEN Item("neg", -n - 1) ELSE Uint(n)
MapValue(v, copied, type) ==
  LET no(err) == [err |-> err, toks |-> <<>>]
      one(t) == [err |-> "", toks |-> <<t>>]
  IN CASE type = UINT32 -> one(Uint(Extract(v) % U32))
       [] type = INT32 -> one(IntItem(Signed(GetInt64(v))))
       [] type = FLOAT -> IF v.large THEN one(Item("float", Extract(v) % U32)) ELSE no("Unreachable")
       [] type \in {STR, BYTES} ->
            IF copied.err = "Unreachable" THEN no("Unreachable")
            ELSE IF copied.err = "" /\ copied.total < SLOT
            THEN one(Str(IF type = STR THEN "text" ELSE "bytes", copied.body))
            ELSE no("NoMap")
       [] OTHER -> no("NoMap")
Entered(st, stored, value) ==
  [st EXCEPT !.toks = @ \o <<Text(stored.key)>> \o value.toks, !.read = TRUE,
             !.err = IF value.err # "" THEN value.err ELSE @]
EnterKey(st, stored, fresh) ==
  IF Len(stored.key) > KEY_BUF_LEN \/ (fresh.err # "" /\ ~st.read) THEN Fail(st, "Unreachable")
  ELSE LET enter(v) == Entered([st EXCEPT !.it = IF fresh.err = "" THEN fresh ELSE @], stored,
                               MapValue(v, CopyString(v, SLOT), stored.type))
       IN enter(IF fresh.err = "" THEN fresh ELSE [st.it EXCEPT !.buf = ZEROED])
MapEntry(keys, st, stored) ==
  LET same == {i \in DOMAIN keys : keys[i].key = stored.key}
  IN IF st.err = "Unreachable" THEN st ELSE EnterKey(st, stored, Parse(keys[Min(same)].slot))
CborMap(keys) ==
  FoldLeft(LAMBDA st, stored : MapEntry(keys, st, stored),
           [toks |-> <<Item("map", Len(keys))>>, read |-> FALSE, it |-> Parse(<<>>), err |-> ""],
           keys)

\* config_map::handle, of a node whose partitions are maps from ids to keys.
ConfigMapHandle(request, node, partitions, room) ==
  LET req == ConfigMapRequestDecode(request)
      id == req.m.partition_id
      known == id \in DOMAIN partitions
      map == CborMap(partitions[id])
      reply(success, data) ==
        ConfigMapReplyEncode([node_id |-> node, partition_id |-> id, success |-> success,
                              cbor_data |-> data], room)
  IN IF req.err # "" THEN [err |-> "none"]
     ELSE IF ~known THEN reply(0, <<>>)
     ELSE IF map.err = "Unreachable" THEN [err |-> "none"]
     ELSE IF map.err = "NoMap" THEN reply(0, <<>>)
     ELSE reply(1, map.toks)
=============================================================================
