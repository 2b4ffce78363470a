------------------------------ MODULE Layouts ------------------------------
(***************************************************************************)
(* The message bodies of bm-wire, as layouts: a body is a sequence of      *)
(* bytes, a layout the sequence of its parts, and every codec of bm-wire   *)
(* writes and reads its parts in order.  A byte is a digit of Base, which  *)
(* is 256 in the code: field widths are the code's own, and a length field *)
(* overflows at Base^width.                                                *)
(*                                                                         *)
(* A definition marked "slip" is a plausible mistake in the one below it;  *)
(* the model uses none of them.                                            *)
(***************************************************************************)
EXTENDS Integers, SequencesExt

CONSTANTS
  Base,                 \* how many values a byte has
  MAX_FILE_NAME_LEN,    \* spotter: one more than the longest file name
  LOG_BUDGET,           \* spotter: the longest log body without its NUL
  MAX_IRIDIUM_LEN, MAX_CELLULAR_LEN

ASSUME LayoutsAssumption ==
  /\ Base \in Nat /\ Base >= 2
  /\ {MAX_FILE_NAME_LEN, LOG_BUDGET, MAX_IRIDIUM_LEN, MAX_CELLULAR_LEN} \subseteq Nat

(* Parts.  Count is the length of the Bytes or Items of its name, which    *)
(* come later; Rest is whatever the body has left.                         *)
U(name, width) == [kind |-> "num", name |-> name, width |-> width]
Flag(name) == [kind |-> "flag", name |-> name, width |-> 1]
Count(name, width) == [kind |-> "count", name |-> name, width |-> width]
Raw(name, width) == [kind |-> "raw", name |-> name, width |-> width]
Bytes(name) == [kind |-> "bytes", name |-> name]
Rest(name) == [kind |-> "rest", name |-> name]
Items(name, layout) == [kind |-> "items", name |-> name, layout |-> layout]

\* to_le_bytes, and le::u16_at and its like.
Digits(n, width) == [i \in 1..width |-> (n \div Base^(i - 1)) % Base]
Number(b) == FoldRight(LAMBDA d, n : d + Base * n, b, 0)

(* encode. *)
RECURSIVE Written(_, _)
Written(layout, m) ==
  FlattenSeq([i \in DOMAIN layout |->
    LET p == layout[i]
    IN CASE p.kind = "num" -> Digits(m[p.name], p.width)
         [] p.kind = "flag" -> <<IF m[p.name] THEN 1 ELSE 0>>
         [] p.kind = "count" -> Digits(Len(m[p.name]), p.width)
         [] p.kind \in {"raw", "bytes", "rest"} -> m[p.name]
         [] p.kind = "items" ->
              FlattenSeq([j \in DOMAIN m[p.name] |-> Written(p.layout, m[p.name][j])])])

\* No list is longer than its length field can say.
RECURSIVE Countable(_, _)
CountableUpTo(layout, m) ==  \* slip
  \A i \in DOMAIN layout :
    layout[i].kind = "count" => Len(m[layout[i].name]) <= Base^layout[i].width
Countable(layout, m) ==
  \A i \in DOMAIN layout :
    LET p == layout[i]
    IN /\ p.kind = "count" => Len(m[p.name]) < Base^p.width
       /\ p.kind = "items" => \A j \in DOMAIN m[p.name] : Countable(p.layout, m[p.name][j])

\* Invalid, Truncated, or the bytes written into a buffer of `room` bytes.
Encode(layout, m, room) ==
  IF Countable(layout, m) /\ Len(Written(layout, m)) <= room
  THEN [ok |-> TRUE, body |-> Written(layout, m)]
  ELSE [ok |-> FALSE, body |-> <<>>]

(* decode: at is how many bytes were read, n the lengths declared. *)
Nothing == [ok |-> TRUE, at |-> 0, m |-> <<>>, n |-> <<>>]
\* The next `size` bytes, or Truncated.
Take(b, at, size) ==
  IF at + size <= Len(b) THEN [ok |-> TRUE, bytes |-> SubSeq(b, at + 1, at + size)]
  ELSE [ok |-> FALSE, bytes |-> <<>>]

RECURSIVE ReadFrom(_, _, _)
\* A list of items, each read where the one before it ended.
ReadItems(layout, b, at, n) ==
  FoldLeft(LAMBDA st, i :
             IF ~st.ok THEN st
             ELSE LET r == ReadFrom(layout, b, st.at)
                  IN [ok |-> r.ok, at |-> r.at, items |-> Append(st.items, r.m)],
           [ok |-> TRUE, at |-> at, items |-> <<>>], [i \in 1..n |-> i])

ReadPart(p, b, st) ==
  IF ~st.ok THEN st
  ELSE IF p.kind = "items"
  THEN LET r == ReadItems(p.layout, b, st.at, st.n[p.name])
       IN [st EXCEPT !.ok = r.ok, !.at = r.at, !.m = @ @@ (p.name :> r.items)]
  ELSE LET size == CASE p.kind \in {"num", "flag", "count", "raw"} -> p.width
                     [] p.kind = "bytes" -> st.n[p.name]
                     [] p.kind = "rest" -> Len(b) - st.at
           r == Take(b, st.at, size)
           value == CASE p.kind = "num" -> Number(r.bytes)
                      [] p.kind = "flag" -> Number(r.bytes) # 0
                      [] OTHER -> r.bytes
       IN IF ~r.ok THEN [st EXCEPT !.ok = FALSE]
          ELSE IF p.kind = "count"
          THEN [st EXCEPT !.at = @ + size, !.n = @ @@ (p.name :> Number(r.bytes))]
          ELSE [st EXCEPT !.at = @ + size, !.m = @ @@ (p.name :> value)]

ReadFrom(layout, b, at) ==
  FoldLeft(LAMBDA st, p : ReadPart(p, b, st), [Nothing EXCEPT !.at = at], layout)
Decode(layout, b) == ReadFrom(layout, b, 0)

---------------------------------------------------------------------------
(* The messages, by the file that encodes and decodes them. *)
Heartbeat == <<U("time_since_boot_us", 8), U("liveliness_lease_dur_s", 4)>>

DeviceInfoRequest == <<U("target_node_id", 8)>>
DeviceInfo ==
  <<U("node_id", 8), U("vendor_id", 2), U("product_id", 2), Raw("serial_num", 16),
    U("git_sha", 4), U("ver_major", 1), U("ver_minor", 1), U("ver_rev", 1), U("ver_hw", 1)>>
DeviceInfoReply ==
  DeviceInfo \o <<Count("version_string", 1), Count("device_name", 1),
                  Bytes("version_string"), Bytes("device_name")>>

NeighborTableRequest == <<U("target_node_id", 8)>>
PortInfo == <<U("state", 1), U("port_type", 1)>>
NeighborInfo == <<U("node_id", 8), U("port", 1), U("online", 1)>>
NeighborTableReply ==
  <<U("node_id", 8), Count("ports", 1), Count("neighbors", 2),
    Items("ports", PortInfo), Items("neighbors", NeighborInfo)>>

ResourceTableRequest == <<U("target_node_id", 8)>>
Resource == <<Count("name", 2), Bytes("name")>>
ResourceTableReply ==
  <<U("node_id", 8), Count("publishers", 2), Count("subscribers", 2),
    Items("publishers", Resource), Items("subscribers", Resource)>>

EchoRequest ==
  <<U("target_node_id", 8), U("id", 2), U("seq_num", 2), Count("payload", 2), Bytes("payload")>>
EchoReply ==
  <<U("node_id", 8), U("id", 2), U("seq_num", 2), Count("payload", 2), Bytes("payload")>>
\* EchoRequest::into_reply.
IntoReply(m, node) ==
  [node_id |-> node, id |-> m.id, seq_num |-> m.seq_num, payload |-> m.payload]

SystemTimeHeader == <<U("target_node_id", 8), U("source_node_id", 8)>>
SystemTimeRequest == SystemTimeHeader
SystemTimeResponse == SystemTimeHeader \o <<U("utc_time_us", 8)>>

ConfigHeader == <<U("target_node_id", 8), U("source_node_id", 8)>>
ConfigKeyRequest == ConfigHeader \o <<U("partition", 1), Count("key", 1), Bytes("key")>>
ConfigValue == ConfigHeader \o <<U("partition", 1), Count("data", 4), Bytes("data")>>
ConfigSet ==
  ConfigHeader \o <<U("partition", 1), Count("key", 1), Count("data", 4),
                    Bytes("key"), Bytes("data")>>
ConfigPartitionRequest == ConfigHeader \o <<U("partition", 1)>>
ConfigStatusResponse ==
  ConfigHeader \o <<U("partition", 1), Flag("committed"), U("num_keys", 1), Rest("key_data")>>
ConfigDeleteResponse ==
  ConfigHeader \o <<Flag("success"), U("partition", 1), Count("key", 1), Bytes("key")>>
ConfigClearResponse == ConfigHeader \o <<Flag("success"), U("partition", 1)>>

\* encode_status_response lists the keys of the store; StatusKeys walks them,
\* and stops with an error at the first that is cut short.
StatusKey == <<Count("key", 1), Bytes("key")>>
WrittenStatus == ConfigHeader \o
  <<U("partition", 1), Flag("committed"), Count("keys", 1), Items("keys", StatusKey)>>
StatusKeys(m) == ReadItems(StatusKey, m.key_data, 0, m.num_keys)

DfuAddress == <<U("src_node_id", 8), U("dst_node_id", 8)>>
ImgInfo ==
  <<U("image_size", 4), U("chunk_size", 2), U("crc16", 2), U("major_ver", 1),
    U("minor_ver", 1), U("filter_key", 4), U("git_sha", 4)>>
\* The type byte less 0xD0, DFU_START, decides what follows the address.
DfuTypes == 0..9
DfuBody(type) ==
  <<U("frame_type", 1)>> \o DfuAddress \o
  CASE type = 0 -> ImgInfo
    [] type = 1 -> <<U("seq_num", 2)>>
    [] type = 2 -> <<Count("payload", 2), Bytes("payload")>>
    [] type \in {3, 4, 5} -> <<U("success", 1), U("err_code", 1)>>
    [] OTHER -> <<>>
DfuDecode(b) ==
  IF b # <<>> /\ b[1] \in DfuTypes THEN Decode(DfuBody(b[1]), b)
  ELSE [Nothing EXCEPT !.ok = FALSE]

BcmpHeader ==
  <<U("message_type", 2), U("checksum", 2), U("flags", 1), U("reserved", 1), U("seq_num", 4),
    U("frag_total", 1), U("frag_id", 1), U("next_header", 1)>>

Publication ==
  <<U("header_type", 1), U("flags", 1), Count("topic", 1), U("kind", 1), U("version", 1),
    Bytes("topic"), Rest("data")>>
\* pubsub::encode: no empty topic, and none of TOPIC_MAX_LEN, the largest byte.
EncodePublication(m, room) ==
  IF Len(m.topic) \in 1..(Base - 2) THEN Encode(Publication, m, room)
  ELSE [ok |-> FALSE, body |-> <<>>]

RequestHeader == <<U("id", 4), U("data_size", 4)>>
ReplyHeader == <<U("target_node_id", 8), U("id", 4), U("data_size", 4)>>

\* spotter::encode_log.  A file name ends at its first NUL.
FileName(name) ==
  LET nuls == {i \in 1..Len(name) : name[i] = 0}
      len == IF nuls = {} THEN Len(name) ELSE (CHOOSE i \in nuls : \A j \in nuls : i <= j) - 1
  IN SubSeq(name, 1, IF len < MAX_FILE_NAME_LEN THEN len ELSE MAX_FILE_NAME_LEN)
SpotterLog ==
  <<U("target_node_id", 8), Count("file_name", 2), Count("text", 2), U("print_time", 1),
    Bytes("file_name"), Bytes("text"), U("nul", 1)>>
LogHeaderLen == 13
EncodeLog(m, room) ==
  LET name == FileName(m.file_name)
  IN IF /\ m.text # <<>> /\ Len(name) < MAX_FILE_NAME_LEN
        /\ Len(m.text) <= LOG_BUDGET - LogHeaderLen - Len(name)
     THEN Encode(SpotterLog, [m EXCEPT !.file_name = name], room)
     ELSE [ok |-> FALSE, body |-> <<>>]
\* spotter::encode_tx_data.
SpotterTx == <<U("network", 1), Rest("data")>>
CELLULAR_ONLY == 2
EncodeTx(m, room) ==
  IF Len(m.data) <= IF m.network = CELLULAR_ONLY THEN MAX_CELLULAR_LEN ELSE MAX_IRIDIUM_LEN
  THEN Encode(SpotterTx, m, room) ELSE [ok |-> FALSE, body |-> <<>>]

\* bm-mcuboot: the header of an image, and an entry of its TLV area.
Version == <<U("major", 1), U("minor", 1), U("revision", 2), U("build_num", 4)>>
ImageHeader ==
  <<U("magic", 4), U("load_addr", 4), U("hdr_size", 2), U("protect_tlv_size", 2),
    U("img_size", 4), U("flags", 4)>> \o Version \o <<U("pad1", 4)>>
=============================================================================
