------------------------------- MODULE Frames -------------------------------
(***************************************************************************)
(* Frames: Ethernet and IPv6 headers around a BCMP message or a UDP        *)
(* datagram, the checksum over them (checksum.rs), the egress port that L2 *)
(* stamps into the source address and patches the checksum for (l2.rs),    *)
(* the receive policy and the relayed copy (l2_policy.rs, node.rs), a      *)
(* re-flooded message (forward.rs), and what a receiver accepts (rx.rs,    *)
(* udp.rs).  A frame is its bytes; offsets are the code's and the byte at  *)
(* an offset is frame[offset + 1].                                         *)
(*                                                                         *)
(* A definition marked "slip" is a plausible mistake in the one below it;  *)
(* the model uses none of them.                                            *)
(***************************************************************************)
EXTENDS Layouts, Bitwise

CONSTANTS
  Nibble,                        \* half a byte: Base is its square
  EtherIPv6,                     \* the two bytes of the EtherType
  IP_PROTO_BCMP, IP_PROTO_UDP,
  LINK_LOCAL_PREFIX, UNIQUE_LOCAL_PREFIX   \* four bytes each

ASSUME FramesAssumption ==
  /\ Nibble * Nibble = Base /\ Len(EtherIPv6) = 2 /\ IP_PROTO_BCMP # IP_PROTO_UDP
  /\ Len(LINK_LOCAL_PREFIX) = 4 /\ Len(UNIQUE_LOCAL_PREFIX) = 4

Top == Base - 1           \* 0xFF
Word == Base * Base       \* 2^16
BE(n, width) == Reverse(Digits(n, width))
FromBE(b) == Number(Reverse(b))
Slice(f, off, n) == SubSeq(f, off + 1, off + n)
Put(f, off, b) == [i \in DOMAIN f |-> IF i \in off + 1..off + Len(b) THEN b[i - off] ELSE f[i]]

ETHERNET_TYPE_OFFSET == 12
IPV6_PAYLOAD_LENGTH_OFFSET == 18
IPV6_NEXT_HEADER_OFFSET == 20
IPV6_SOURCE_ADDRESS_OFFSET == 22
IPV6_INGRESS_EGRESS_PORTS_OFFSET == 24
LEGACY_PORT_CLEAR_OFFSET == 26
IPV6_DESTINATION_ADDRESS_OFFSET == 38
REQUESTED_EGRESS_PORT_OFFSET == 51
MIN_FRAME_WITH_ADDRESSES == 54
BCMP_CHECKSUM_OFFSET == 56
UDP_CHECKSUM_OFFSET == 60
UDP_HEADER_LEN == 8
BCMP_HEADER_LEN == 13
HOP_LIMIT == Top

(* util.rs and addr.rs: addresses. *)
Zeros(n) == [i \in 1..n |-> 0]
LinkLocalMulticast == <<Top, 2>> \o Zeros(13) \o <<1>>
GlobalMulticast == <<Top, 3>> \o Zeros(13) \o <<1>>
IsGlobalMulticast(a) == a[1] = Top /\ a[2] = 3 /\ a[16] = 1
IsLinkLocalMulticast(a) == a[1] = Top /\ a[2] = 2
ToNodeId(a) == FromBE(Slice(a, 8, 8))
NodeIdToIp(prefix, id) == prefix \o Zeros(4) \o BE(id, 8)
MacAddress(id) == <<0, 0>> \o BE(id, 4)
IsMulticast(a) == a[1] = Top
MulticastMac(a) == <<3, 3>> \o Slice(a, 12, 4)

Src(f) == Slice(f, IPV6_SOURCE_ADDRESS_OFFSET, 16)
Dst(f) == Slice(f, IPV6_DESTINATION_ADDRESS_OFFSET, 16)
After(f, len) == Slice(f, MIN_FRAME_WITH_ADDRESSES, len)
IsIPv6(f) == Slice(f, ETHERNET_TYPE_OFFSET, 2) = EtherIPv6
Proto(f) == f[IPV6_NEXT_HEADER_OFFSET + 1]
PayloadLen(f) == FromBE(Slice(f, IPV6_PAYLOAD_LENGTH_OFFSET, 2))

(* checksum.rs.  The last byte of an odd number is padded on the low side. *)
WordSum(b) == MapThenSumSet(LAMBDA i : IF i % 2 = 1 THEN Base * b[i] ELSE b[i], DOMAIN b)
RECURSIVE Folded(_)
Folded(n) == IF n < Word THEN n ELSE Folded((n % Word) + n \div Word)
Swapped(n) == Base * (n % Base) + n \div Base
PseudoSum(src, dst, proto, data) ==
  Folded(WordSum(src) + WordSum(dst) + Len(data) \div Word + (Len(data) % Word) + proto
         + WordSum(data))
Checksum(src, dst, proto, data) == Swapped(Word - 1 - PseudoSum(src, dst, proto, data))

(* frame::write_headers. *)
Headers(src, dst, proto, len) ==
  (IF IsMulticast(dst) THEN MulticastMac(dst) ELSE [i \in 1..6 |-> Top])
  \o MacAddress(ToNodeId(src)) \o EtherIPv6 \o <<6, 0, 0, 0>> \o BE(len, 2)
  \o <<proto, HOP_LIMIT>> \o src \o dst
NotBuilt == [ok |-> FALSE, frame |-> <<>>]
Built(f, room) == IF Len(f) <= room THEN [ok |-> TRUE, frame |-> f] ELSE NotBuilt

\* tx::serialize_in_place and forward::serialize_forwarded end alike: the sum
\* over the message with a cleared field, stored little-endian.
WithChecksum(f) ==
  LET clear == Put(f, BCMP_CHECKSUM_OFFSET, <<0, 0>>)
  IN Put(f, BCMP_CHECKSUM_OFFSET,
         Digits(Checksum(Src(f), Dst(f), IP_PROTO_BCMP,
                         After(clear, Len(f) - MIN_FRAME_WITH_ADDRESSES)), 2))
\* tx::build.
NewBcmpHeader(type, seq) ==
  [message_type |-> type, checksum |-> 0, flags |-> 0, reserved |-> 0, seq_num |-> seq,
   frag_total |-> 0, frag_id |-> 0, next_header |-> 0]
TxBuild(node, dst, type, seq, body, room) ==
  LET bcmp == Written(BcmpHeader, NewBcmpHeader(type, seq)) \o body
  IN IF Len(bcmp) >= Word THEN NotBuilt
     ELSE Built(WithChecksum(Headers(NodeIdToIp(LINK_LOCAL_PREFIX, node), dst, IP_PROTO_BCMP,
                                     Len(bcmp)) \o bcmp), room)

(* udp.rs: build, and accept, which reads no length field and no checksum. *)
HasLinkLocalScope(dst) ==
  \/ <<dst[1], dst[2]>> = <<LINK_LOCAL_PREFIX[1], LINK_LOCAL_PREFIX[2]>>
  \/ dst = Zeros(15) \o <<1>>
  \/ dst[1] = Top /\ dst[2] % Nibble <= 2
SourceAddress(node, dst) ==
  NodeIdToIp(IF HasLinkLocalScope(dst) THEN LINK_LOCAL_PREFIX ELSE UNIQUE_LOCAL_PREFIX, node)
UdpBuild(node, dst, src_port, dst_port, payload, room) ==
  LET src == SourceAddress(node, dst)
      len == UDP_HEADER_LEN + Len(payload)
      clear == BE(src_port, 2) \o BE(dst_port, 2) \o BE(len, 2) \o <<0, 0>> \o payload
      sum == Swapped(Checksum(src, dst, IP_PROTO_UDP, clear))
  IN IF len >= Word THEN NotBuilt
     ELSE Built(Headers(src, dst, IP_PROTO_UDP, len)
                \o Put(clear, 6, BE(IF sum = 0 THEN Word - 1 ELSE sum, 2)), room)
UdpAccept(f) ==
  IF Len(f) < MIN_FRAME_WITH_ADDRESSES THEN [ok |-> FALSE]
  ELSE IF \/ ~IsIPv6(f) \/ MIN_FRAME_WITH_ADDRESSES + PayloadLen(f) > Len(f)
          \/ Proto(f) # IP_PROTO_UDP \/ PayloadLen(f) < UDP_HEADER_LEN
  THEN [ok |-> FALSE]
  ELSE LET udp == After(f, PayloadLen(f))
       IN [ok |-> TRUE, src_port |-> FromBE(Slice(udp, 0, 2)),
           dst_port |-> FromBE(Slice(udp, 2, 2)), source |-> ToNodeId(Src(f)),
           payload |-> Slice(udp, UDP_HEADER_LEN, Len(udp) - UDP_HEADER_LEN)]

(* l2.rs: transmission. *)
TxKind(f) ==
  IF Len(f) < MIN_FRAME_WITH_ADDRESSES THEN "dropped"
  ELSE IF IsGlobalMulticast(Dst(f)) THEN "global"
  ELSE IF IsLinkLocalMulticast(Dst(f)) THEN "linklocal" ELSE "dropped"
\* take_requested_egress_port: the ports to send on, and the frame without
\* the request.
TakeRequestedEgressPort(f, num_ports) ==
  LET requested == f[REQUESTED_EGRESS_PORT_OFFSET + 1]
  IN [ports |-> IF requested \in 1..num_ports THEN {requested} ELSE 1..num_ports,
      frame |-> Put(f, REQUESTED_EGRESS_PORT_OFFSET, <<0>>)]

\* patch: what adding `delta` to the sum does to the stored checksum.  The
\* carry out of the field is lost (divergence #12).
PatchedUdp(f, delta) ==
  LET sum == Top - f[UDP_CHECKSUM_OFFSET + 1]
  IN Put(f, UDP_CHECKSUM_OFFSET, <<Top - ((sum + delta) % Base)>>)
PatchedBcmp(f, delta) ==
  LET sum == Word - 1 - Number(Slice(f, BCMP_CHECKSUM_OFFSET, 2))
  IN Put(f, BCMP_CHECKSUM_OFFSET, Digits(Word - 1 - ((sum + delta) % Word), 2))
Patched(f, delta) ==
  IF ~IsIPv6(f) THEN f
  ELSE CASE Proto(f) = IP_PROTO_UDP -> PatchedUdp(f, delta)
         [] Proto(f) = IP_PROTO_BCMP -> PatchedBcmp(f, delta)
         [] OTHER -> f
AddEgressPort(f, port) ==
  Patched(Put(f, IPV6_INGRESS_EGRESS_PORTS_OFFSET,
              <<f[IPV6_INGRESS_EGRESS_PORTS_OFFSET + 1] | port>>), port)
ClearPorts(f) == Put(f, IPV6_INGRESS_EGRESS_PORTS_OFFSET, <<0>>)
RevertChecksum(f, port) == Patched(f, -port)
\* Stamped::drop.
Restored(f, port) == RevertChecksum(ClearPorts(f), port)
\* What leaves on a port: bm_l2_process_tx_evt's copy for it.
OnWire(f, port) == IF TxKind(f) = "linklocal" THEN AddEgressPort(f, port) ELSE f

(* l2_policy::rx_apply, without a routing callback. *)
RxApply(f, ingress_port, num_ports) ==
  IF Len(f) < MIN_FRAME_WITH_ADDRESSES \/ ~IsIPv6(f) THEN [frame |-> f, egress |-> {}]
  ELSE [frame |-> Put(f, IPV6_INGRESS_EGRESS_PORTS_OFFSET,
                      <<(f[IPV6_INGRESS_EGRESS_PORTS_OFFSET + 1] % Nibble)
                        + Nibble * (ingress_port % Nibble)>>),
        egress |-> IF IsGlobalMulticast(Dst(f)) THEN 1..num_ports \ {ingress_port} ELSE {}]

(* rx::accept.  It rewrites the frame: what it leaves is part of the result. *)
Rejected(why, f) == [why |-> why, frame |-> f]
Accept(f) ==
  IF Len(f) < MIN_FRAME_WITH_ADDRESSES THEN Rejected("Truncated", f)
  ELSE IF ~IsIPv6(f) THEN Rejected("NotIpv6", f)
  ELSE IF MIN_FRAME_WITH_ADDRESSES + PayloadLen(f) > Len(f) THEN Rejected("Truncated", f)
  ELSE IF Proto(f) # IP_PROTO_BCMP THEN Rejected("NotBcmp", f)
  ELSE IF PayloadLen(f) < BCMP_HEADER_LEN THEN Rejected("Truncated", f)
  ELSE
  LET ports == f[IPV6_INGRESS_EGRESS_PORTS_OFFSET + 1]
      cleared == Put(Put(f, LEGACY_PORT_CLEAR_OFFSET, <<0, 0>>),
                     IPV6_INGRESS_EGRESS_PORTS_OFFSET, <<ports % Nibble>>)
      zeroed == Put(cleared, BCMP_CHECKSUM_OFFSET, <<0, 0>>)
      calc == Checksum(Src(zeroed), Dst(zeroed), IP_PROTO_BCMP, After(zeroed, PayloadLen(f)))
      bcmp == After(cleared, PayloadLen(f))
  IN IF calc # Number(Slice(f, BCMP_CHECKSUM_OFFSET, 2)) THEN Rejected("BadChecksum", zeroed)
     ELSE [why |-> "accepted", frame |-> cleared, header |-> Decode(BcmpHeader, bcmp).m,
           bcmp |-> bcmp, payload |-> Slice(bcmp, BCMP_HEADER_LEN, Len(bcmp) - BCMP_HEADER_LEN),
           src |-> Src(cleared), dst |-> Dst(cleared), ingress_port |-> ports \div Nibble]

(* node.rs on_frame_with: the copy it relays is the frame it received, with *)
(* what accept rewrote put back (held.rs) and no ports.                     *)
SnapshotFields == <<<<IPV6_INGRESS_EGRESS_PORTS_OFFSET, 1>>, <<LEGACY_PORT_CLEAR_OFFSET, 2>>,
                    <<BCMP_CHECKSUM_OFFSET, 2>>>>
RelayedUnrestored(before, after) == ClearPorts(after)  \* slip
Relayed(before, after) ==
  LET fits == Len(before) >= BCMP_CHECKSUM_OFFSET + 2
      back(f, part) == Put(f, part[1], Slice(before, part[1], part[2]))
  IN ClearPorts(IF fits THEN FoldLeft(back, after, SnapshotFields) ELSE after)

(* forward.rs and node.rs forward_link_local: the message in a fresh frame  *)
(* of this node, summed for the plain destination and then sent to a port.  *)
ForwardPorts(num_ports, ingress_port) == 1..num_ports \ {ingress_port}
PortSpecificDestination(port) ==
  Put(LinkLocalMulticast, 12, <<0, port, 0, 1>>)
ApplyPortSpecificDestination(f, port) ==
  LET dst == PortSpecificDestination(port)
  IN Put(Put(f, IPV6_DESTINATION_ADDRESS_OFFSET, dst), 0, MulticastMac(dst))
ForwardLinkLocal(node, port, bcmp, num_ports, room) ==
  LET plain == Headers(NodeIdToIp(LINK_LOCAL_PREFIX, node), LinkLocalMulticast, IP_PROTO_BCMP,
                       Len(bcmp)) \o bcmp
  IN IF Len(plain) > room \/ Len(bcmp) >= Word \/ Len(bcmp) < BCMP_HEADER_LEN
     THEN [ok |-> FALSE]
     ELSE [ok |-> TRUE] @@ TakeRequestedEgressPort(
            ApplyPortSpecificDestination(WithChecksum(plain), port), num_ports)
=============================================================================
