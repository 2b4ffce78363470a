-------------------------------- MODULE Wire --------------------------------
(***************************************************************************)
(* What leaves a node and what another makes of it, one sample at a time:  *)
(* a message body, an update image, a frame on its way over two hops, a    *)
(* clock that was set and runs, a CBOR buffer.  A sample is composed by    *)
(* the code's encoders, may then be cut, lengthened or altered, and the    *)
(* properties compare what the code's decoders make of it with what was    *)
(* put in.                                                                 *)
(***************************************************************************)
EXTENDS Images, Frames, Calendar, Cbor, Topics, Crc

CONSTANTS
  Samples,        \* message bodies to compose: <<name, message>>
  Room,           \* the bytes of the buffer they are encoded into
  OtherBytes,     \* what an altered byte becomes
  Keys,           \* signing keys
  Elfs, Bootloader,          \* ELF files to build images from, and one for it
  Behind,         \* bytes found behind an image
  Foreign,        \* images of another tool, which may have protected TLVs
  Nodes, NumPorts, FrameRoom, MsgType, SeqNum,
  Payloads, Disturbed,       \* payloads; those whose frames are altered
  Days, Times, RunFor, MaxLate,   \* days to name; times to set; ticks to run,
                             \* and within one read of the clock
  Bodies, Partitions, Stored,   \* CBOR bodies and config partitions to encode;
                             \* the partitions of a node that is asked for them
  Heads, MaxHeads, OtherHeads,  \* CBOR buffers; what a head is altered to
  Texts, Patterns,           \* topics and subscriptions
  Seeds, Data                \* what to sum, and from where

VARIABLE x

NoSample == [part |-> "none"]
Init == x = NoSample
Idle == x.part = "none"
Done == ~Idle /\ x' = NoSample

---------------------------------------------------------------------------
(* Message bodies. *)
Catalogue ==
  [heartbeat |-> Heartbeat, info_request |-> DeviceInfoRequest, info_reply |-> DeviceInfoReply,
   neighbors_request |-> NeighborTableRequest, neighbors_reply |-> NeighborTableReply,
   resource_request |-> ResourceTableRequest, resource_reply |-> ResourceTableReply,
   echo_request |-> EchoRequest, echo_reply |-> EchoReply, time_request |-> SystemTimeRequest,
   time_response |-> SystemTimeResponse, config_get |-> ConfigKeyRequest,
   config_value |-> ConfigValue, config_set |-> ConfigSet,
   config_commit |-> ConfigPartitionRequest, config_status |-> WrittenStatus,
   config_deleted |-> ConfigDeleteResponse, config_cleared |-> ConfigClearResponse,
   dfu_start |-> DfuBody(0), dfu_chunk_request |-> DfuBody(1), dfu_chunk |-> DfuBody(2),
   dfu_end |-> DfuBody(3), dfu_heartbeat |-> DfuBody(6), header |-> BcmpHeader,
   publication |-> Publication, request |-> RequestHeader, reply |-> ReplyHeader,
   log |-> SpotterLog, tx |-> SpotterTx, image_header |-> ImageHeader]
HasRest(name) == \E i \in DOMAIN Catalogue[name] : Catalogue[name][i].kind = "rest"

EncodeBody(name, m) ==
  CASE name = "publication" -> EncodePublication(m, Room)
    [] name = "log" -> EncodeLog(m, Room)
    [] name = "tx" -> EncodeTx(m, Room)
    [] OTHER -> Encode(Catalogue[name], m, Room)
\* DFU bodies are told apart by their type byte.
DecodeBody(name, b) ==
  IF Catalogue[name][1] = U("frame_type", 1) THEN DfuDecode(b) ELSE Decode(Catalogue[name], b)

Compose ==
  /\ Idle
  /\ \E s \in Samples :
       LET sent == EncodeBody(s[1], s[2])
       IN x' = [part |-> "body", name |-> s[1], m |-> s[2], ok |-> sent.ok, b |-> sent.body,
                len |-> Len(sent.body), how |-> "whole"]
Whole(part) == x.part = part /\ x.how = "whole"
CutBody ==
  /\ Whole("body") /\ x.ok
  /\ \E n \in 0..Len(x.b) - 1 : x' = [x EXCEPT !.b = SubSeq(@, 1, n), !.how = "cut"]
LengthenBody ==
  /\ Whole("body") /\ x.ok
  /\ \E d \in OtherBytes : x' = [x EXCEPT !.b = Append(@, d), !.how = "longer"]
AlterBody ==
  /\ Whole("body") /\ x.ok
  /\ \E i \in DOMAIN x.b, d \in OtherBytes :
       x.b[i] # d /\ x' = [x EXCEPT !.b[i] = d, !.how = "altered"]

\* The message a body carries: an echo of it, or its lists within their
\* limits; a log's name ends at its NUL.
Carried(name, m) ==
  IF name = "log" THEN [m EXCEPT !.file_name = FileName(@)] ELSE m
TooLong(name, m) ==
  \/ \E i \in DOMAIN Catalogue[name] :
       LET p == Catalogue[name][i] IN p.kind = "count" /\ Len(m[p.name]) >= Base^p.width
  \/ name = "publication" /\ Len(m.topic) \notin 1..(Base - 2)
  \/ name = "config_status" /\ \E i \in DOMAIN m.keys : Len(m.keys[i].key) >= Base
  \/ name = "log" /\ \/ m.text = <<>> \/ Len(FileName(m.file_name)) >= MAX_FILE_NAME_LEN
                     \/ LogHeaderLen + Len(FileName(m.file_name)) + Len(m.text) > LOG_BUDGET
  \/ name = "tx" /\ Len(m.data) > IF m.network = CELLULAR_ONLY THEN MAX_CELLULAR_LEN
                                   ELSE MAX_IRIDIUM_LEN
BodyReadsBack ==
  LET r == DecodeBody(x.name, x.b)
      extra == Len(x.b) - x.len
  IN x.how = "whole" \/ x.how = "longer" =>
       /\ x.ok <=> ~TooLong(x.name, x.m)
       /\ x.ok =>
            /\ r.ok
            /\ IF HasRest(x.name)
               THEN \A n \in DOMAIN r.m : n # "data" => r.m[n] = x.m[n]
               ELSE r.at = x.len /\ r.m = Carried(x.name, x.m)
            \* The keys of a status response are walked as they were listed.
            /\ x.name = "config_status" =>
                 LET status == Decode(ConfigStatusResponse, x.b).m
                     walked == StatusKeys(status)
                 IN /\ status.num_keys = Len(x.m.keys) /\ walked.ok /\ walked.items = x.m.keys
                    /\ walked.at + extra = Len(status.key_data)
            /\ x.name = "echo_request" =>
                 LET echoed == Encode(EchoReply, IntoReply(r.m, 1), Room)
                 IN Decode(EchoReply, echoed.body).m
                    = [node_id |-> 1, id |-> x.m.id, seq_num |-> x.m.seq_num,
                       payload |-> x.m.payload]
BodyIsContained ==
  LET r == DecodeBody(x.name, x.b)
      again == Encode(IF x.name = "config_status" THEN WrittenStatus
                      ELSE IF Catalogue[x.name][1] = U("frame_type", 1) THEN DfuBody(x.b[1])
                      ELSE Catalogue[x.name], r.m, Len(x.b))
  IN /\ x.ok /\ x.how = "cut" /\ ~HasRest(x.name) => ~r.ok
     /\ x.ok /\ r.ok => /\ r.at <= Len(x.b)
                        /\ again.ok /\ Len(again.body) = r.at
                        /\ DecodeBody(x.name, again.body).m = r.m

---------------------------------------------------------------------------
(* Update images. *)
BuildImage ==
  /\ Idle
  /\ \E elf \in Elfs, key \in Keys \cup {NoKey} :
       LET dfu == DfuFile(elf, key)
       IN x' = [part |-> "image", elf |-> elf, key |-> key, ok |-> dfu.ok,
                file |-> IF dfu.ok THEN dfu.file ELSE <<>>, at |-> 0, how |-> "whole"]
AdoptImage ==
  /\ Idle /\ \E f \in Foreign :
       x' = [part |-> "image", ok |-> TRUE, file |-> f, at |-> 0, how |-> "foreign"]
Unharmed == x.part = "image" /\ x.ok /\ x.how \in {"whole", "foreign"}
AlterImage ==
  /\ Unharmed
  /\ \E i \in DOMAIN x.file, d \in OtherBytes :
       x.file[i] # d /\ x' = [x EXCEPT !.file[i] = d, !.at = i, !.how = "altered"]
CutImage ==
  /\ Unharmed
  /\ \E n \in 0..Len(x.file) - 1 : x' = [x EXCEPT !.file = SubSeq(@, 1, n), !.how = "cut"]
LengthenImage ==
  /\ Whole("image") /\ x.ok /\ x' = [x EXCEPT !.file = @ \o Behind, !.how = "longer"]

\* The body an ELF file describes: the byte of the one section at each
\* address, and the gap byte where there is none.
Allocated(elf) == {i \in DOMAIN elf.sections :
                     LET s == elf.sections[i] IN s.alloc /\ ~s.nobits /\ s.size > 0}
Covers(elf, i, a) ==
  LET s == elf.sections[i] IN a \in LoadAddress(elf, s)..LoadAddress(elf, s) + s.size - 1
Addresses(elf) ==
  {a \in 0..AddrWrap : \E i \in Allocated(elf) : Covers(elf, i, a)}
ByteAt(elf, a) ==
  IF a \notin Addresses(elf) THEN GAP
  ELSE LET i == CHOOSE i \in Allocated(elf) : Covers(elf, i, a)
           s == elf.sections[i]
       IN elf.bytes[s.offset + 1 + a - LoadAddress(elf, s)]
WellFormed(elf) ==
  /\ \A i \in Allocated(elf) :
       LET s == elf.sections[i] IN ~Outside(elf, s) /\ LoadAddress(elf, s) + s.size <= AddrWrap
  /\ \A i, j \in Allocated(elf), a \in Addresses(elf) :
       Covers(elf, i, a) /\ Covers(elf, j, a) => i = j
  /\ Addresses(elf) # {} /\ Min(Addresses(elf)) = BODY_BASE
ImageReadsBack(info) ==
  LET top == Max(Addresses(x.elf))
      area == AreaSize(x.key)
      body == [i \in 1..(top + 1 - BODY_BASE) |-> ByteAt(x.elf, BODY_BASE + i - 1)]
  IN x.how \in {"whole", "longer"} =>
       /\ x.ok <=> /\ WellFormed(x.elf) /\ FindVersion(body).ok
                   /\ BM_HDR_SIZE + Len(body) + area <= MAX_IMAGE_LEN
       /\ x.ok =>
            /\ info.ok /\ info.sha256_ok
            /\ SubSeq(x.file, BM_HDR_SIZE + 1, BM_HDR_SIZE + Len(body)) = body
            /\ info.area.start = BM_HDR_SIZE + Len(body) /\ info.area.end = info.area.start + area
            /\ info.trailing = Len(x.file) - info.area.end
            /\ Len(info.tlvs) = IF x.key = NoKey THEN 1 ELSE 3
            /\ SignedBy(info) = IF x.key = NoKey THEN <<>> ELSE KeyHash(x.key)
            /\ info.version.ok
            /\ LET v == McubootVersion(info.version.note)
               IN \A f \in DOMAIN v : info.header[f] = v[f]
            /\ Len(x.file) <= MAX_IMAGE_LEN =>
                 LET both == Unified(Bootloader, x.file)
                 IN both.ok /\ SubSeq(both.file, BOOTLOADER_SIZE + 1, Len(both.file)) = x.file
ImageIsContained(info) ==
  x.ok =>
    /\ x.how = "foreign" => info.ok /\ info.sha256_ok
    /\ x.how = "cut" => ~info.ok
    /\ info.ok =>
         /\ info.area.end <= Len(x.file)
         /\ \A i \in DOMAIN info.tlvs :
              /\ info.area.start < info.tlvs[i].from /\ info.tlvs[i].upto <= info.area.end
              /\ i > 1 => info.tlvs[i - 1].upto < info.tlvs[i].from
         /\ x.how = "altered" /\ x.at <= info.area.start => ~info.sha256_ok

---------------------------------------------------------------------------
(* Frames.  at is where one is: built by a node, on the wire from a port   *)
(* of it, or received; plain is the frame as this node built it, origin as *)
(* its first sender did.                                                   *)
FrameSample(f, from, sent, hop) ==
  [part |-> "frame", at |-> "built", frame |-> f, plain |-> f, origin |-> f, from |-> from,
   port |-> 0, ingress |-> 0, sent |-> sent, hop |-> hop, altered |-> 0]
BuildBcmp ==
  /\ Idle
  /\ \E body \in Payloads, dst \in {LinkLocalMulticast, GlobalMulticast}, n \in Nodes :
       LET built == TxBuild(n, dst, MsgType, SeqNum, body, FrameRoom)
       IN built.ok /\ x' = FrameSample(built.frame, n, [proto |-> IP_PROTO_BCMP, body |-> body], 0)
BuildUdp ==
  /\ Idle
  /\ \E body \in Payloads, dst \in {LinkLocalMulticast, GlobalMulticast}, n \in Nodes :
       LET built == UdpBuild(n, dst, 1, 2, body, FrameRoom)
       IN built.ok /\ x' = FrameSample(built.frame, n, [proto |-> IP_PROTO_UDP, body |-> body], 0)
Transmit ==
  /\ x.part = "frame" /\ x.at = "built"
  /\ \E p \in 1..NumPorts :
       x' = [x EXCEPT !.at = "wire", !.frame = OnWire(@, p), !.port = p]
AlterFrame ==
  /\ x.part = "frame" /\ x.at = "wire" /\ x.altered = 0 /\ x.port = 1 /\ x.hop = 0
  /\ x.sent.body \in Disturbed /\ x.sent.proto = IP_PROTO_BCMP
  /\ \E i \in DOMAIN x.frame, d \in {0, Top} :
       x.frame[i] # d /\ x' = [x EXCEPT !.frame[i] = d, !.altered = i]
Receive ==
  /\ x.part = "frame" /\ x.at = "wire"
  /\ LET q == 1 + (x.port % NumPorts)
     IN x' = [x EXCEPT !.at = "received", !.frame = RxApply(@, q, NumPorts).frame, !.ingress = q]
\* The next node: a global frame relayed, a link-local message re-flooded.
Relay ==
  /\ x.part = "frame" /\ x.at = "received" /\ x.hop = 0
  /\ RxApply(x.frame, x.ingress, NumPorts).egress # {}
  /\ LET f == Relayed(x.frame, Accept(x.frame).frame)
     IN x' = [x EXCEPT !.at = "built", !.frame = f, !.plain = f, !.hop = 1]
Reflood ==
  /\ x.part = "frame" /\ x.at = "received" /\ x.altered = 0 /\ x.hop = 0
  /\ IsLinkLocalMulticast(Dst(x.frame)) /\ Accept(x.frame).why = "accepted"
  /\ \E p \in ForwardPorts(NumPorts, x.ingress), n \in Nodes \ {x.from} :
       LET sent == ForwardLinkLocal(n, p, Accept(x.frame).bcmp, NumPorts, FrameRoom)
       IN /\ sent.ok /\ sent.ports = {p}
          /\ x' = [FrameSample(sent.frame, n, x.sent, 1) EXCEPT !.at = "wire", !.port = p,
                                                           !.frame = OnWire(@, p)]

\* The sum a receiver would find right: all words, with the checksum.
SumIsRight(f) ==
  LET clear == Put(f, IPV6_INGRESS_EGRESS_PORTS_OFFSET,
                   <<f[IPV6_INGRESS_EGRESS_PORTS_OFFSET + 1] % Nibble>>)
  IN PseudoSum(Src(clear), Dst(clear), Proto(f), After(f, PayloadLen(f))) = Word - 1
\* The carry that stamping loses: out of 16 bits for BCMP, of 8 for UDP.
LostCarry ==
  /\ TxKind(x.plain) = "linklocal"
  /\ IF x.sent.proto = IP_PROTO_BCMP
     THEN Word - 1 - Number(Slice(x.plain, BCMP_CHECKSUM_OFFSET, 2)) + x.port >= Word
     ELSE Top - x.plain[UDP_CHECKSUM_OFFSET + 1] + x.port >= Base
Summed(i) ==
  \/ i > IPV6_DESTINATION_ADDRESS_OFFSET
  \/ i > IPV6_SOURCE_ADDRESS_OFFSET
     /\ i \notin {IPV6_INGRESS_EGRESS_PORTS_OFFSET + 1, LEGACY_PORT_CLEAR_OFFSET + 1,
                  LEGACY_PORT_CLEAR_OFFSET + 2}

\* A BCMP message arrives whole over one and over two hops: the receiver
\* reads the sender's type, number and body, the node it came from and the
\* port it came in by, unless stamping the egress port lost a carry (the
\* known divergence), and then it refuses the frame; a frame with one byte
\* of its addresses or message altered is refused, and relayed all the same
\* with no other byte changed.  A datagram arrives with its payload, and its
\* checksum is right unless stamping lost a carry.  A stamp is taken back
\* exactly, so the copy for the next port starts from the frame as built
\* (l2.rs patch and Stamped, rx.rs, forward.rs, held.rs).
FrameArrivesWhole ==
  x.part = "frame" =>
    /\ x.at = "built" /\ TxKind(x.frame) = "linklocal" =>
         \A p \in 1..NumPorts : Restored(OnWire(x.frame, p), p) = x.frame
    /\ x.at = "built" /\ x.hop = 1 =>
         \A i \in DOMAIN x.frame \ {x.altered} : x.frame[i] = x.origin[i]
    /\ x.at = "received" /\ x.sent.proto = IP_PROTO_BCMP /\ x.altered = 0 =>
         LET r == Accept(x.frame)
         IN IF LostCarry THEN r.why = "BadChecksum"
            ELSE /\ r.why = "accepted" /\ r.payload = x.sent.body
                 /\ r.header.message_type = MsgType /\ r.header.seq_num = SeqNum
                 /\ ToNodeId(r.src) = x.from /\ r.ingress_port = x.ingress
                 /\ IsLinkLocalMulticast(r.dst) => r.dst = LinkLocalMulticast
    /\ x.at = "received" /\ x.sent.proto = IP_PROTO_BCMP /\ Summed(x.altered) /\ ~LostCarry =>
         Accept(x.frame).why # "accepted"
    /\ x.at = "received" /\ x.sent.proto = IP_PROTO_UDP /\ x.altered = 0 =>
         LET r == UdpAccept(x.frame)
         IN /\ r.ok /\ r.payload = x.sent.body /\ r.source = x.from
            /\ r.src_port = 1 /\ r.dst_port = 2
            /\ SumIsRight(x.frame) <=> ~LostCarry

---------------------------------------------------------------------------
(* Dates, and the dev kit's clock. *)
NoReading == [year |-> 0]
NameDay == Idle /\ \E d \in Days : x' = [part |-> "day", day |-> d]
SetClock ==
  /\ Idle
  /\ \E t \in Times :
       LET reading == FromUtc(t[1], t[2], t[3])
       IN /\ ~SetRefused(reading)
          /\ x' = [part |-> "clock", set |-> t, clock |-> RtcSet(reading), age |-> 0,
                   read |-> NoReading, late |-> 0]
\* DevkitRtc::get reads the calendar, and goes on to the counter before more
\* than MaxLate ticks have passed.
BeginGet ==
  /\ x.part = "clock" /\ x.read = NoReading
  /\ x' = [x EXCEPT !.read = ReadCalendar(x.clock)]
Tick ==
  /\ x.part = "clock" /\ x.age < RunFor /\ x.late < MaxLate
  /\ x' = [x EXCEPT !.clock = Ticked(@), !.age = @ + 1,
                    !.late = IF x.read = NoReading THEN 0 ELSE @ + 1]

\* The day after a date, by the calendar.
NextDay(t) ==
  LET leap == t.year % 400 = 0 \/ (t.year % 4 = 0 /\ t.year % 100 # 0)
      last == CASE t.month \in {4, 6, 9, 11} -> 30
                [] t.month = 2 -> IF leap THEN 29 ELSE 28
                [] OTHER -> 31
  IN IF t.day < last THEN [t EXCEPT !.day = @ + 1]
     ELSE IF t.month < 12 THEN [t EXCEPT !.day = 1, !.month = @ + 1]
     ELSE [t EXCEPT !.day = 1, !.month = 1, !.year = @ + 1]
\* Milliseconds from one time to another.
Between(from, to) ==
  (to[1] - from[1]) * SECS_PER_DAY * 1000 + (to[2] - from[2]) * 1000 + to[3] - from[3]
TickMs == 1000 \div (PREDIV_S + 1) + 1
\* The years 2000 to 2099 have so many days.
CenturyDays == CENTURY * 365 + 25
\* Days are named as the calendar names them and read back until the u32 of
\* seconds runs out in 2106; a clock that was set reads the time it was set
\* to plus the time since, to two ticks of its counter, over a second's, a
\* day's and a year's end, but for three faults, which it shows exactly so:
\* a read whose second ends after the calendar was read and before the
\* counter is, is a second early; a clock whose calendar has run past 2099,
\* as it does a second before 2100 if it was set within that second, is a
\* century early; and the read before the first tick of a clock set to a
\* whole second has milliseconds that wrapped (get, set, read_calendar,
\* calculate_rtc_ms and decrement_one_second in bm-devkit/src/rtc.rs).
ClockIsRight ==
  /\ x.part = "day" =>
       LET t == FromUtc(x.day, 0, 0)
       IN /\ FromUtc(x.day + 1, 0, 0) = NextDay(t)
          /\ x.day <= WrapDays => ToUtc(t) = <<x.day, 0, 0>>
          /\ DecrementOneSecond(NextDay(t)) = FromUtc(x.day, SECS_PER_DAY - 1, 0)
  /\ x.part = "clock" /\ x.read # NoReading =>
       LET elapsed == (x.age * 1000) \div (PREDIV_S + 1)
           got == RtcGet(x.read, x.clock.ss)
           pastTheEnd == x.read.year < FromUtc(x.set[1], 0, 0).year
           secondEnded == x.read # ReadCalendar(x.clock)
           shown == ToUtc(got)
           right == IF pastTheEnd THEN [shown EXCEPT ![1] = @ + CenturyDays] ELSE shown
           drift == Between(x.set, right) - elapsed
       IN IF x.clock.ss > 2 * PREDIV_S THEN got.ms = WrappedMs
          ELSE drift + (IF secondEnded THEN 1000 ELSE 0) \in -2 * TickMs..2 * TickMs

---------------------------------------------------------------------------
(* CBOR. *)
EncodeCbor ==
  /\ Idle
  /\ \E b \in Bodies :
       LET sent == CASE b.kind = "sys" -> SysInfoHandle(<<>>, b.m, Room)
                     [] b.kind = "power" -> PowerEncode(b.m, Room)
                     [] b.kind = "request" -> ConfigMapRequestEncode(b.m.partition_id, Room)
                     [] b.kind = "reply" -> ConfigMapReplyEncode(b.m, Room)
                     [] b.kind = "asked" ->
                          ConfigMapHandle(ConfigMapRequestEncode(b.m.partition_id, Room).toks,
                                          b.m.node_id, Stored, Room)
                     [] b.kind = "metrics" -> MetricsEncode(b.m, b.comps, Room)
       IN x' = [part |-> "cbor", sent |-> b, err |-> sent.err, buf |-> sent.toks, how |-> "whole"]
CutCbor ==
  /\ Whole("cbor") /\ x.err = ""
  /\ \E n \in 0..Len(x.buf) - 1 : x' = [x EXCEPT !.buf = SubSeq(@, 1, n), !.how = "cut"]
AlterCbor ==
  /\ Whole("cbor") /\ x.err = ""
  /\ \E i \in DOMAIN x.buf, t \in OtherHeads :
       x.buf[i] # t /\ x' = [x EXCEPT !.buf[i] = t, !.how = "altered"]
LengthenCbor ==
  /\ Whole("cbor") /\ x.err = ""
  /\ \E t \in OtherHeads : x' = [x EXCEPT !.buf = Append(@, t), !.how = "longer"]
MapPartition ==
  /\ Idle /\ \E keys \in Partitions : x' = [part |-> "map", keys |-> keys]
AnyHeads ==
  \/ Idle /\ x' = [part |-> "heads", buf |-> <<>>]
  \/ /\ x.part = "heads" /\ Len(x.buf) < MaxHeads
     /\ \E t \in Heads : x' = [x EXCEPT !.buf = Append(@, t)]

Unset(fields) == [i \in DOMAIN fields |-> [fields[i] EXCEPT !.value = 0]]
Blank(comps) == [i \in DOMAIN comps |-> [comps[i] EXCEPT !.fields = Unset(@)]]
DecodeCbor ==
  LET b == x.sent
  IN CASE b.kind = "sys" -> SysInfoDecode(x.buf)
       [] b.kind = "power" -> PowerDecode(x.buf)
       [] b.kind = "request" -> ConfigMapRequestDecode(x.buf)
       [] b.kind \in {"reply", "asked"} -> ConfigMapReplyDecode(x.buf)
       [] b.kind = "metrics" -> MetricsDecode(x.buf, Blank(b.comps))
CborReadsBack(r) ==
  LET b == x.sent
  IN x.how \in {"whole", "longer"} =>
       /\ x.err # "" => \/ x.err = "OutOfMemory"
                         \/ /\ b.kind = "metrics"
                            /\ \E i \in DOMAIN b.comps :
                                 StringEntries(b.comps[i].fields) = x.err
       /\ x.err = "" => /\ r.err = ""
                        /\ \A f \in DOMAIN b.m : r.m[f] = b.m[f]
                        /\ b.kind = "metrics" => r.comps = b.comps
                        /\ b.kind = "asked" =>
                             LET map == CborMap(Stored[b.m.partition_id])
                             IN IF b.m.partition_id \notin DOMAIN Stored THEN r.m.success = 0
                                ELSE IF map.err # "" THEN r.m.success = 0
                                ELSE r.m.success = 1 /\ r.m.cbor_data = map.toks
\* A config partition's map is one item with all its keys, and holds under
\* each what the partition's getter of its type returns.
MapReadsBack ==
  LET map == CborMap(x.keys)
      v == Parse(map.toks)
      typed(k) == k.type = ConfigType(k.slot) /\ k.type # ARRAY /\ Len(k.key) <= KEY_BUF_LEN
                  /\ (k.type \in {STR, BYTES} => Got(k.slot, k.type, SLOT - 1).ok)
  IN (\A i \in DOMAIN x.keys : typed(x.keys[i])) =>
       /\ map.err = "" /\ ValidateBasic(v) = "" /\ Advance(v).pos = Len(map.toks) + 1
       /\ \A i \in DOMAIN x.keys :
            LET found == MapFindValue(v, x.keys[i].key)
                held == SubSeq(map.toks, found.pos, Len(map.toks))
            IN /\ found.err = ""
               /\ Got(held, x.keys[i].type, SLOT) = Got(x.keys[i].slot, x.keys[i].type, SLOT)

\* The grammar of one item, with tinycbor's two licences: tags count for
\* nothing, and at the top level a tag is read alone, with the head after it.
\* ItemEnd is the place after the item that starts at i, or 0.
ItemStarts(buf, i) == i <= Len(buf) /\ buf[i].kind \notin {"cut", "bad", "break"}
RECURSIVE ItemEnd(_, _, _), ItemsEnd(_, _, _, _), ChunksEnd(_, _, _), Untagged(_, _)
ChunksEnd(buf, i, ty) ==
  IF i > Len(buf) THEN 0
  ELSE IF buf[i].kind = "break" THEN i + 1
  ELSE IF buf[i].kind = ty /\ ~buf[i].open /\ ~buf[i].short THEN ChunksEnd(buf, i + 1, ty) ELSE 0
Untagged(buf, i) ==
  IF i <= Len(buf) /\ buf[i].kind = "tag" THEN Untagged(buf, i + 1) ELSE i
\* n items from i; an open container's run to its break, in pairs in a map.
ItemsEnd(buf, i, n, depth) ==
  LET next == ItemEnd(buf, Untagged(buf, i), depth)
  IN IF n = 0 \/ i = 0 THEN i ELSE IF next = 0 THEN 0 ELSE ItemsEnd(buf, next, n - 1, depth)
RECURSIVE OpenEnd(_, _, _, _)
OpenEnd(buf, i, step, depth) ==
  IF i = 0 \/ i > Len(buf) THEN 0
  ELSE IF buf[i].kind = "break" THEN i + 1
  ELSE OpenEnd(buf, ItemsEnd(buf, i, step, depth), step, depth)
ItemEnd(buf, i, depth) ==
  IF ~ItemStarts(buf, i) THEN 0
  ELSE LET t == buf[i]
           per == IF t.kind = "map" THEN 2 ELSE 1
       IN IF t.kind \in Strings
          THEN IF t.open THEN ChunksEnd(buf, i + 1, t.kind) ELSE IF t.short THEN 0 ELSE i + 1
          ELSE IF t.kind \in Containers
          THEN IF depth = 0 THEN 0
               ELSE IF t.open THEN OpenEnd(buf, i + 1, per, depth - 1)
               ELSE ItemsEnd(buf, i + 1, per * t.arg, depth - 1)
          ELSE i + 1
ParserFollowsGrammar ==
  LET v == Parse(x.buf)
      end == IF v.err # "" THEN v ELSE Advance(v)
      grammar == ItemEnd(x.buf, 1, MAX_RECURSIONS)
      tagged == x.buf # <<>> /\ x.buf[1].kind = "tag"
  IN IF tagged THEN end.err = "" <=> ItemStarts(x.buf, 2)
     ELSE /\ end.err = "" <=> grammar # 0
          /\ end.err = "" => end.pos = grammar
\* A slot is read alike by the getters, which have a reader of their own,
\* and by the list of entries, which has the parser: the same values of the
\* same types, a string that is longer than its room left out by the
\* getters, an array up to where the grammar ends it.
SlotReadsAlike ==
  \A type \in UINT32..ARRAY :
    LET got == Got(x.buf, type, SLOT \div 2)
        entry == EntryValue(x.buf, type)
    IN IF type = ARRAY
       THEN /\ entry.ok <=> ConfigType(x.buf) = ARRAY /\ ItemEnd(x.buf, 1, MAX_RECURSIONS) # 0
            /\ entry.ok =>
                 entry.value = SubSeq(x.buf, 1, ItemEnd(x.buf, 1, MAX_RECURSIONS) - 1)
       ELSE /\ got.ok => entry = got
            /\ entry.ok => got.ok \/ (type \in {STR, BYTES} /\ Len(entry.value) > SLOT \div 2)
HasTag(buf) == \E i \in DOMAIN buf : buf[i].kind = "tag"
CborIsContained(r) ==
  LET b == x.sent
  IN x.err = "" =>
       /\ x.how = "cut" => r.err # ""
       \* The unchecked reads are only undefined on a tag (divergences #82,
       \* #87), and a config map's data on another type than bytes.
       /\ r.err = "Unreachable" => HasTag(x.buf) \/ b.kind \in {"reply", "asked"}
       /\ r.err = "" /\ b.kind = "sys" => Len(r.m.app_name) <= (r.m.app_name_strlen + 1) % U32
       /\ r.err = "" /\ b.kind \in {"reply", "asked"} /\ r.m.has_data =>
            Len(r.m.cbor_data) = r.m.cbor_encoded_map_len
       /\ b.kind \in {"reply", "asked"} /\ r.err # "" => ~r.m.has_data

---------------------------------------------------------------------------
(* Topics. *)
MatchTopic ==
  Idle /\ \E s \in Texts, p \in Patterns : x' = [part |-> "topic", topic |-> s, pattern |-> p]

RECURSIVE Glob(_, _)
Glob(s, p) ==
  IF p = <<>> THEN s = <<>>
  ELSE IF p[1] = "*" THEN \E n \in 0..Len(s) : Glob(SubSeq(s, n + 1, Len(s)), Tail(p))
  ELSE s # <<>> /\ (p[1] = "?" \/ p[1] = s[1]) /\ Glob(Tail(s), Tail(p))

\* A subscription with a '*' gets the topics that its pattern describes, '*'
\* for any run and '?' for one character; one without also gets every topic
\* it is the beginning of (bm_wildcard_match, divergence #74).  Of what the
\* subscription to TOPIC gets, the clock is set from TOPIC itself and from
\* TOPIC with a NUL behind it (utc_time.rs decode).
MatchesAsGlob ==
  x.part = "topic" =>
    /\ WildcardMatch(x.topic, x.pattern) <=>
         IF \E i \in DOMAIN x.pattern : x.pattern[i] = "*" THEN Glob(x.topic, x.pattern)
         ELSE \E n \in 0..Len(x.topic) : Glob(SubSeq(x.topic, 1, n), x.pattern)
    /\ WildcardMatch(x.topic, TOPIC) =>
         (TakesTime(x.topic) <=> x.topic = TOPIC \/ x.topic[Len(TOPIC) + 1] = "NUL")

---------------------------------------------------------------------------
(* Checksums. *)
Sum ==
  Idle /\ \E seed \in Seeds, data \in Data : x' = [part |-> "sum", seed |-> seed, data |-> data]

\* The remainder by a reflected polynomial, a bit at a time.
Remainder(poly, seed, data) ==
  LET bit(crc, one) == XorBits(ShrBits(crc, 1), IF (0 \in crc) # one THEN poly ELSE {})
      byte(crc, b) == FoldLeft(LAMBDA c, i : bit(c, i \in b), crc, <<0, 1, 2, 3, 4, 5, 6, 7>>)
  IN FoldLeft(byte, seed, data)
SumsUp ==
  /\ Crc16Ccitt(x.seed \cap 0..15, x.data) = Remainder(Bits(\h8408), x.seed \cap 0..15, x.data)
  /\ NotBits(Crc32Ieee(x.data)) = Remainder(Bits32(<<\hedb8, \h8320>>), 0..31, x.data)
  /\ \A n \in 0..Len(x.data) :
       LET head == SubSeq(x.data, 1, n)
           tail == SubSeq(x.data, n + 1, Len(x.data))
       IN /\ Crc16Ccitt(Crc16Ccitt({}, head), tail) = Crc16Ccitt({}, x.data)
          /\ Crc32IeeeUpdate(Crc32Ieee(head), tail) = Crc32Ieee(x.data)

---------------------------------------------------------------------------
Next ==
  \/ Compose \/ CutBody \/ LengthenBody \/ AlterBody
  \/ BuildImage \/ AdoptImage \/ AlterImage \/ CutImage \/ LengthenImage
  \/ BuildBcmp \/ BuildUdp \/ Transmit \/ AlterFrame \/ Receive \/ Relay \/ Reflood
  \/ NameDay \/ SetClock \/ BeginGet \/ Tick
  \/ EncodeCbor \/ CutCbor \/ AlterCbor \/ LengthenCbor \/ MapPartition \/ AnyHeads
  \/ MatchTopic \/ Sum \/ Done
Spec == Init /\ [][Next]_x

\* What one node encodes is what another decodes, whatever lies behind it in
\* the buffer, and an encoder refuses exactly what its length fields cannot
\* say: message bodies with their lists, names and keys (bm-wire's codecs);
\* an image built from an ELF file, with its sections, hash, signature and
\* version (bm-image); the CBOR bodies of the services; and the map made of
\* a config partition, in which each key leads to its value.  A checksum is
\* the remainder its name promises, and the one summed chunk by chunk, as a
\* DFU client does, is the one of the whole (crc.rs).
ReadBack ==
  /\ x.part = "body" => BodyReadsBack
  /\ x.part = "image" => ImageReadsBack(InfoRead(x.file))
  /\ x.part = "cbor" => CborReadsBack(DecodeCbor)
  /\ x.part = "map" => MapReadsBack
  /\ x.part = "sum" => SumsUp

\* A body, image or CBOR buffer that was cut short is refused, and an altered
\* one is either refused or read within its own bytes: nothing is taken from
\* beyond the end, no TLV entry leaves its area or overlaps another, a
\* changed image has another hash, a length and the data it is about agree,
\* and CBOR that nests, is open or is tagged is walked item by item as its
\* grammar says (the decoders of bm-wire, bm-mcuboot tlv.rs, cbor/parser.rs)
\* by all of the readers of a config slot.
DamageIsContained ==
  /\ x.part = "body" => BodyIsContained
  /\ x.part = "image" => ImageIsContained(InfoRead(x.file))
  /\ x.part = "cbor" => CborIsContained(DecodeCbor)
  /\ x.part = "heads" => ParserFollowsGrammar /\ SlotReadsAlike
=============================================================================
