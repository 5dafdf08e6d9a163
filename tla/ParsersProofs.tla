---------------------------- MODULE ParsersProofs ----------------------------
(***************************************************************************)
(* The arithmetic of the checksum for every sum a uint32_t can hold, and   *)
(* what the parsers and print_packet() return for every buffer.            *)
(***************************************************************************)
EXTENDS PacketDecode, TLAPS

-----------------------------------------------------------------------------
(* The checksum *)

LEMMA CarryBound ==
    ASSUME NEW sum \in Nat, sum < 4294967296
    PROVE  Carry(sum) \in Nat /\ Carry(sum) <= 131070
<1>1. sum % 65536 \in Nat /\ sum % 65536 <= 65535
  BY SMT
<1>2. sum \div 65536 \in Nat /\ sum \div 65536 <= 65535
  BY SMT
<1> QED  BY SMT, <1>1, <1>2 DEF Carry, W

LEMMA SmallCarry ==
    ASSUME NEW c \in Nat, c <= 131070
    PROVE  Carry(c) = IF c < 65536 THEN c ELSE c - 65535
<1>1. CASE c < 65536
  <2>1. c % 65536 = c /\ c \div 65536 = 0
    BY SMT, <1>1
  <2> QED  BY SMT, <1>1, <2>1 DEF Carry, W
<1>2. CASE c >= 65536
  <2>1. c % 65536 = c - 65536 /\ c \div 65536 = 1
    BY SMT, <1>2
  <2> QED  BY SMT, <1>2, <2>1 DEF Carry, W
<1> QED  BY SMT, <1>1, <1>2

(* The folding loop of checksum.c:24-26 ends after at most two iterations, *)
(* as the comment above it says, for every 32-bit sum.                     *)
THEOREM TwoFoldsSuffice ==
    ASSUME NEW sum \in Nat, sum < 4294967296
    PROVE  Carry(Carry(sum)) \in Nat /\ Carry(Carry(sum)) < W
<1> DEFINE c == Carry(sum)
<1>1. c \in Nat /\ c <= 131070
  BY CarryBound, SMT
<1> HIDE DEF c
<1>2. Carry(c) = IF c < 65536 THEN c ELSE c - 65535
  BY <1>1, SmallCarry, SMT
<1>3. Carry(c) \in Nat /\ Carry(c) < 65536
  BY <1>1, <1>2, SMT
<1> QED  BY <1>3, SMT DEF c, W

(* Folding keeps the residue modulo 65535, and a sum from becoming zero. *)
LEMMA CarryModular ==
    ASSUME NEW sum \in Nat, sum < 4294967296
    PROVE  /\ Carry(sum) % 65535 = sum % 65535
           /\ Carry(sum) = 0 <=> sum = 0
<1>1. sum % 65535 = ((sum % 65536) + (sum \div 65536)) % 65535
  BY SMT
<1>2. ((sum % 65536) + (sum \div 65536) = 0) <=> (sum = 0)
  BY SMT
<1> QED  BY SMT, <1>1, <1>2 DEF Carry, W

LEMMA FoldedModular ==
    ASSUME NEW sum \in Nat, sum < 4294967296
    PROVE  /\ Folded(sum) \in Nat /\ Folded(sum) <= 65535
           /\ Folded(sum) % 65535 = sum % 65535
           /\ Folded(sum) = 0 <=> sum = 0
<1> DEFINE c == Carry(sum)
           d == Carry(c)
<1>1. c \in Nat /\ c < 4294967296
  BY SMT, CarryBound
<1>2. d \in Nat /\ d < 65536
  BY SMT, TwoFoldsSuffice DEF W
<1>3. /\ c % 65535 = sum % 65535
      /\ c = 0 <=> sum = 0
  BY SMT, CarryModular
<1>4. Folded(sum) = IF sum < 65536 THEN sum ELSE IF c < 65536 THEN c ELSE d
  BY SMT DEF Folded, W
<1> HIDE DEF c
<1>5. /\ d % 65535 = c % 65535
      /\ d = 0 <=> c = 0
  BY SMT, <1>1, CarryModular
<1> HIDE DEF d
<1> QED  BY SMT, <1>1, <1>2, <1>3, <1>4, <1>5

LEMMA Multiples ==
    ASSUME NEW x \in Nat, x <= 65535
    PROVE  x = 65535 <=> x # 0 /\ x % 65535 = 0
BY SMT

(* The verdict of checksum_verify() and its pseudo-header variants          *)
(* (checksum.c:24-28) is divisibility: the sum is a positive multiple of    *)
(* 65535.                                                                   *)
THEOREM VerdictIsModular ==
    ASSUME NEW sum \in Nat, sum < 4294967296
    PROVE  Verdict(sum) <=> sum # 0 /\ sum % 65535 = 0
<1> DEFINE f == Folded(sum)
<1>1. /\ f \in Nat /\ f <= 65535
      /\ f % 65535 = sum % 65535
      /\ f = 0 <=> sum = 0
  BY SMT, FoldedModular
<1>2. Verdict(sum) <=> f = 65535
  BY SMT DEF Verdict, W
<1> HIDE DEF f
<1>3. f = 65535 <=> f # 0 /\ f % 65535 = 0
  BY SMT, <1>1, Multiples
<1> QED  BY SMT, <1>1, <1>2, <1>3

LEMMA NextMultiple ==
    ASSUME NEW s \in Nat, NEW k \in Nat, 0 < k, k < 65535, s % 65535 = 0
    PROVE  (s + k) % 65535 # 0
BY SMT

(* A changed byte changes the verdict: a byte adds its value, or 256 times  *)
(* its value, to the sum (checksum.c:7, 10), and no two sums that differ by *)
(* so much are both accepted.                                               *)
THEOREM OneByteIsFlagged ==
    ASSUME NEW sum \in Nat, NEW d \in Nat, NEW k \in Nat,
           0 < d, d < 256, k = d \/ k = 256 * d, sum + k < 4294967296
    PROVE  ~(Verdict(sum) /\ Verdict(sum + k))
<1>1. 0 < k /\ k < 65535
  BY SMT
<1>2. sum % 65535 = 0 => (sum + k) % 65535 # 0
  BY SMT, <1>1, NextMultiple
<1>3. Verdict(sum) => sum % 65535 = 0
  BY SMT, VerdictIsModular
<1>4. Verdict(sum + k) => (sum + k) % 65535 = 0
  <2>1. sum + k \in Nat
    BY SMT
  <2> QED  BY SMT, <2>1, VerdictIsModular
<1> QED  BY SMT, <1>2, <1>3, <1>4

-----------------------------------------------------------------------------
(* The parsers *)

LEMMA OctetType ==
    ASSUME NEW b \in Octet
    PROVE  b \in Nat /\ b < 256
BY SMT DEF Octet

LEMMA ByteType ==
    ASSUME NEW data \in Seq(Octet), NEW i \in Nat, i < Len(data)
    PROVE  Byte8(data, i) \in Nat /\ Byte8(data, i) < 256
<1>1. data[i + 1] \in Octet
  BY SMT
<1> QED  BY SMT, <1>1, OctetType DEF Byte8

LEMMA WordType16 ==
    ASSUME NEW data \in Seq(Octet), NEW i \in Nat, i + 1 < Len(data)
    PROVE  Byte16(data, i) \in Nat /\ Byte16(data, i) < 65536
<1>1. data[i + 1] \in Octet /\ data[i + 2] \in Octet
  BY SMT
<1> QED  BY SMT, <1>1, OctetType DEF Byte16

LEMMA BytesType ==
    ASSUME NEW data \in Seq(Octet), NEW i \in Nat, NEW n \in Nat, i + n <= Len(data)
    PROVE  Bytes(data, i, n) \in Seq(Octet) /\ Len(Bytes(data, i, n)) = n
BY SMT DEF Bytes

(* The window of the payload lies in the buffer. *)
Inside(header, data) ==
    /\ header.off \in Nat
    /\ header.len \in Nat
    /\ header.off + header.len <= Len(data)

LEMMA EthInside ==
    ASSUME NEW data \in Seq(Octet), eth_parse(data).ok
    PROVE  Inside(eth_parse(data), data)
<1>1. CASE Byte16(data, 12) = ETH_TYPE_VLAN
  BY SMT, <1>1 DEF eth_parse, Failure, Inside
<1>2. CASE Byte16(data, 12) # ETH_TYPE_VLAN
  BY SMT, <1>2 DEF eth_parse, Failure, Inside
<1> QED  BY SMT, <1>1, <1>2

LEMMA IpInside ==
    ASSUME NEW data \in Seq(Octet), ip_parse(data).ok
    PROVE  Inside(ip_parse(data), data)
<1> DEFINE hl == 4 * (Byte8(data, 0) % 16)
           h == IpHeader(data, hl)
<1>1. /\ ~(Len(data) < 20 \/ Byte8(data, 0) \div 16 # 4 \/ Byte8(data, 0) % 16 < 5 \/ hl > Len(data))
      /\ ip_parse(data) = h
  BY SMT DEF ip_parse, Failure
<1>2. hl \in Nat /\ hl <= Len(data)
  BY SMT, <1>1, ByteType
<1>3. Byte16(data, 2) \in Nat
  BY SMT, <1>1, WordType16
<1> HIDE DEF hl
<1>4. /\ h.off = hl
      /\ h.len = IF Byte16(data, 2) - hl >= 0 /\ Byte16(data, 2) - hl < Len(data) - hl
                 THEN Byte16(data, 2) - hl ELSE Len(data) - hl
  BY SMT DEF IpHeader
<1> HIDE DEF h
<1> QED  BY SMT, <1>1, <1>2, <1>3, <1>4 DEF Inside

LEMMA Ipv6Inside ==
    ASSUME NEW data \in Seq(Octet), ipv6_parse(data).ok
    PROVE  Inside(ipv6_parse(data), data)
BY SMT DEF ipv6_parse, Failure, Inside

LEMMA TcpInside ==
    ASSUME NEW data \in Seq(Octet), tcp_parse(data).ok
    PROVE  Inside(tcp_parse(data), data)
<1>1. /\ ~(Len(data) < 20 \/ TcpHeaderLen(data) < 20 \/ TcpHeaderLen(data) > Len(data))
      /\ tcp_parse(data) = TcpHeader20(data)
  BY SMT DEF tcp_parse, Failure
<1>2. TcpHeaderLen(data) \in Nat
  BY SMT, <1>1, ByteType DEF TcpHeaderLen
<1> QED  BY SMT, <1>1, <1>2 DEF TcpHeader20, Inside

LEMMA UdpInside ==
    ASSUME NEW data \in Seq(Octet), udp_parse(data).ok
    PROVE  Inside(udp_parse(data), data)
BY SMT DEF udp_parse, Failure, Inside

(* Whatever the bytes, a parser that accepts a buffer returns a payload     *)
(* that lies in it: what the fuzz targets assert for the inputs they are    *)
(* run with (fuzz/fuzz_eth.c:15-25 and its siblings).                       *)
THEOREM PayloadsInside ==
    ASSUME NEW data \in Seq(Octet)
    PROVE  \A header \in {eth_parse(data), ip_parse(data), ipv6_parse(data),
                          tcp_parse(data), udp_parse(data)} :
               header.ok => Inside(header, data)
BY SMT, EthInside, IpInside, Ipv6Inside, TcpInside, UdpInside

(* The segment that print_packet() hands to the transport parsers and the   *)
(* checksums lies in the captured frame, behind the Ethernet and IP headers *)
(* (packet_printer.cpp:91, 115, 191).                                       *)
THEOREM SegmentInFrame ==
    ASSUME NEW frame \in Seq(Octet), eth_parse(frame).ok,
           NEW net \in {ip_parse(Payload(frame, eth_parse(frame))),
                        ipv6_parse(Payload(frame, eth_parse(frame)))},
           net.ok
    PROVE  eth_parse(frame).off + net.off + net.len <= Len(frame)
<1> DEFINE eth == eth_parse(frame)
           data == Payload(frame, eth)
<1>1. Inside(eth, frame)
  BY SMT, EthInside
<1>2. data \in Seq(Octet) /\ Len(data) = eth.len
  BY SMT, <1>1, BytesType DEF Inside, Payload
<1>3. Inside(net, data)
  BY SMT, <1>2, IpInside, Ipv6Inside
<1> QED  BY SMT, <1>1, <1>2, <1>3 DEF Inside

-----------------------------------------------------------------------------
(* print_packet() *)

(* The display filter is applied to the fields, a reader sees the line: the *)
(* line names TCP or UDP, shows network addresses and reports a checksum    *)
(* only of a layer that is in the fields, and the other way round.          *)
Coherent(d) ==
    /\ d.fields.tcp # <<>> <=> d.line.name = "TCP"
    /\ d.fields.udp # <<>> <=> d.line.name = "UDP"
    /\ d.fields.ip = <<>> \/ d.fields.ipv6 = <<>>
    /\ d.line.net # <<>> <=> d.fields.ip # <<>> \/ d.fields.ipv6 # <<>>
    /\ "ip" \in d.line.bad => d.fields.ip # <<>>
    /\ "tcp" \in d.line.bad => d.fields.tcp # <<>>
    /\ "udp" \in d.line.bad => d.fields.udp # <<>>
    /\ "icmp" \in d.line.bad => d.line.name \in {"ICMP", "ICMPv6"}

(* A network layer, and no transport layer yet. *)
NetworkFields(eth, ip, ipv6) == [eth |-> eth, ip |-> ip, ipv6 |-> ipv6, tcp |-> <<>>, udp |-> <<>>]

NetworkLine(name, macs, vlan, net, detail, bad) ==
    [name |-> name, macs |-> macs, vlan |-> vlan, net |-> net, detail |-> detail, bad |-> bad, note |-> ""]

Network(name, ip, ipv6, net, bad) ==
    /\ name \in {"IP", "IPv6"}
    /\ net # <<>>
    /\ ip = <<>> \/ ipv6 = <<>>
    /\ ip # <<>> \/ ipv6 # <<>>
    /\ bad = {} \/ (bad = {"ip"} /\ ip # <<>>)

LEMMA PairNotEmpty ==
    ASSUME NEW x, NEW y
    PROVE  <<x, y>> # <<>>
OBVIOUS

(* What a transport layer, or none, adds to a network layer. *)
Shape(d, name, ip, ipv6, net, bad) ==
    /\ d.fields.ip = ip /\ d.fields.ipv6 = ipv6 /\ d.line.net = net
    /\ \/ /\ d.fields.tcp # <<>> /\ d.fields.udp = <<>> /\ d.line.name = "TCP"
          /\ d.line.bad \subseteq bad \cup {"tcp"}
       \/ /\ d.fields.tcp = <<>> /\ d.fields.udp # <<>> /\ d.line.name = "UDP"
          /\ d.line.bad \subseteq bad \cup {"udp"}
       \/ /\ d.fields.tcp = <<>> /\ d.fields.udp = <<>> /\ d.line.name \in {"ICMP", "ICMPv6"}
          /\ d.line.bad \subseteq bad \cup {"icmp"}
       \/ /\ d.fields.tcp = <<>> /\ d.fields.udp = <<>> /\ d.line.name = name
          /\ d.line.bad \subseteq bad

LEMMA ShapeCoherent ==
    ASSUME NEW d, NEW name, NEW ip, NEW ipv6, NEW net, NEW bad,
           Network(name, ip, ipv6, net, bad), Shape(d, name, ip, ipv6, net, bad)
    PROVE  Coherent(d)
BY DEF Coherent, Network, Shape

LEMMA TcpShape ==
    ASSUME NEW eth, NEW ip, NEW ipv6, NEW name, NEW macs, NEW vlan, NEW net, NEW detail, NEW bad,
           NEW segment, NEW valid \in BOOLEAN
    PROVE  Shape(TcpSegment(NetworkFields(eth, ip, ipv6), NetworkLine(name, macs, vlan, net, detail, bad),
                            segment, valid), name, ip, ipv6, net, bad)
<1> DEFINE tcp == tcp_parse(segment)
           fields == NetworkFields(eth, ip, ipv6)
           line == NetworkLine(name, macs, vlan, net, detail, bad)
           ports == <<<<tcp.src_port>>, <<tcp.dst_port>>>>
           d == TcpSegment(fields, line, segment, valid)
<1>0. fields.ip = ip /\ fields.ipv6 = ipv6 /\ fields.tcp = <<>> /\ fields.udp = <<>>
  BY DEF NetworkFields
<1>1. CASE tcp.ok
  <2>1. d.fields = [fields EXCEPT !.tcp = ports] /\ d.line = print_tcp_summary(line, tcp, valid)
    BY <1>1 DEF TcpSegment, Decoded
  <2>2. ports # <<>>
    BY PairNotEmpty
  <2> HIDE DEF d, ports, tcp
  <2>3. d.line.name = "TCP" /\ d.line.net = net /\ d.line.bad \subseteq bad \cup {"tcp"}
    <3>1. CASE valid
      BY Zenon, <2>1, <3>1 DEF print_tcp_summary, Flagged, NetworkLine
    <3>2. CASE ~valid
      BY Zenon, <2>1, <3>2 DEF print_tcp_summary, Flagged, NetworkLine
    <3> QED  BY <3>1, <3>2
  <2>4. d.fields.ip = ip /\ d.fields.ipv6 = ipv6 /\ d.fields.tcp = ports /\ d.fields.udp = <<>>
    BY Zenon, <2>1 DEF NetworkFields
  <2> QED  BY <2>2, <2>3, <2>4 DEF Shape, d
<1>2. CASE ~tcp.ok
  <2>1. d.fields = fields /\ d.line = Remark(line, "TCP (truncated)")
    BY <1>2 DEF TcpSegment, Decoded
  <2> HIDE DEF d
  <2>2. d.fields.ip = ip /\ d.fields.ipv6 = ipv6 /\ d.fields.tcp = <<>> /\ d.fields.udp = <<>>
    BY <2>1, <1>0
  <2>3. d.line.name = name /\ d.line.net = net /\ d.line.bad = bad
    BY Zenon, <2>1 DEF Remark, NetworkLine
  <2> QED  BY <2>2, <2>3 DEF Shape, d
<1> QED  BY <1>1, <1>2

LEMMA UdpShape ==
    ASSUME NEW eth, NEW ip, NEW ipv6, NEW name, NEW macs, NEW vlan, NEW net, NEW detail, NEW bad,
           NEW segment, NEW valid \in BOOLEAN, NEW mandatory \in BOOLEAN
    PROVE  Shape(UdpDatagram(NetworkFields(eth, ip, ipv6), NetworkLine(name, macs, vlan, net, detail, bad),
                             segment, valid, mandatory), name, ip, ipv6, net, bad)
<1> DEFINE udp == udp_parse(segment)
           fields == NetworkFields(eth, ip, ipv6)
           line == NetworkLine(name, macs, vlan, net, detail, bad)
           ports == <<<<udp.src_port>>, <<udp.dst_port>>>>
           good == valid \/ (~mandatory /\ ~udp.checksum_present)
           d == UdpDatagram(fields, line, segment, valid, mandatory)
<1>0. fields.ip = ip /\ fields.ipv6 = ipv6 /\ fields.tcp = <<>> /\ fields.udp = <<>>
  BY DEF NetworkFields
<1>1. CASE udp.ok
  <2>1. d.fields = [fields EXCEPT !.udp = ports] /\ d.line = print_udp_summary(line, udp, valid, mandatory)
    BY <1>1 DEF UdpDatagram, Decoded
  <2>2. ports # <<>>
    BY PairNotEmpty
  <2> HIDE DEF d, ports, udp
  <2>3. d.line.name = "UDP" /\ d.line.net = net /\ d.line.bad \subseteq bad \cup {"udp"}
    <3>1. PICK summary : d.line = Flagged([line EXCEPT !.name = "UDP", !.detail = summary], "udp", good)
      BY Zenon, <2>1 DEF print_udp_summary
    <3> HIDE DEF good
    <3>2. CASE good
      BY Zenon, <3>1, <3>2 DEF Flagged, NetworkLine
    <3>3. CASE ~good
      BY Zenon, <3>1, <3>3 DEF Flagged, NetworkLine
    <3> QED  BY <3>2, <3>3
  <2>4. d.fields.ip = ip /\ d.fields.ipv6 = ipv6 /\ d.fields.tcp = <<>> /\ d.fields.udp = ports
    BY Zenon, <2>1 DEF NetworkFields
  <2> QED  BY <2>2, <2>3, <2>4 DEF Shape, d
<1>2. CASE ~udp.ok
  <2>1. d.fields = fields /\ d.line = Remark(line, "UDP (truncated)")
    BY <1>2 DEF UdpDatagram, Decoded
  <2> HIDE DEF d
  <2>2. d.fields.ip = ip /\ d.fields.ipv6 = ipv6 /\ d.fields.tcp = <<>> /\ d.fields.udp = <<>>
    BY <2>1, <1>0
  <2>3. d.line.name = name /\ d.line.net = net /\ d.line.bad = bad
    BY Zenon, <2>1 DEF Remark, NetworkLine
  <2> QED  BY <2>2, <2>3 DEF Shape, d
<1> QED  BY <1>1, <1>2

LEMMA IcmpShape ==
    ASSUME NEW eth, NEW ip, NEW ipv6, NEW name, NEW macs, NEW vlan, NEW net, NEW detail, NEW bad,
           NEW segment, NEW valid \in BOOLEAN, NEW v6 \in BOOLEAN
    PROVE  Shape(IcmpMessage(NetworkFields(eth, ip, ipv6), NetworkLine(name, macs, vlan, net, detail, bad),
                             segment, valid, v6), name, ip, ipv6, net, bad)
<1> DEFINE icmp == icmp_parse(segment, v6)
           fields == NetworkFields(eth, ip, ipv6)
           line == NetworkLine(name, macs, vlan, net, detail, bad)
           d == IcmpMessage(fields, line, segment, valid, v6)
<1>0. d.fields.ip = ip /\ d.fields.ipv6 = ipv6 /\ d.fields.tcp = <<>> /\ d.fields.udp = <<>>
  BY DEF IcmpMessage, Decoded, NetworkFields
<1>1. CASE icmp.ok
  <2>1. d.line = print_icmp_summary(line, icmp, valid, v6)
    BY <1>1 DEF IcmpMessage, Decoded
  <2> HIDE DEF d, icmp
  <2>2. d.line.name = (IF v6 THEN "ICMPv6" ELSE "ICMP") /\ d.line.net = net
        /\ d.line.bad \subseteq bad \cup {"icmp"}
    <3>1. CASE valid
      BY Zenon, <2>1, <3>1 DEF print_icmp_summary, Flagged, NetworkLine
    <3>2. CASE ~valid
      BY Zenon, <2>1, <3>2 DEF print_icmp_summary, Flagged, NetworkLine
    <3> QED  BY <3>1, <3>2
  <2> QED  BY <1>0, <2>2 DEF Shape, d
<1>2. CASE ~icmp.ok
  <2>1. PICK note : d.line = Remark(line, note)
    BY <1>2 DEF IcmpMessage, Decoded
  <2> HIDE DEF d
  <2>2. d.line.name = name /\ d.line.net = net /\ d.line.bad = bad
    BY Zenon, <2>1 DEF Remark, NetworkLine
  <2> QED  BY <1>0, <2>2 DEF Shape, d
<1> QED  BY <1>1, <1>2

LEMMA FieldsWithNetwork ==
    ASSUME NEW macs, NEW addrs
    PROVE  /\ [NoFields EXCEPT !.eth = macs] = NetworkFields(macs, <<>>, <<>>)
           /\ [NetworkFields(macs, <<>>, <<>>) EXCEPT !.ip = addrs] = NetworkFields(macs, addrs, <<>>)
           /\ [NetworkFields(macs, <<>>, <<>>) EXCEPT !.ipv6 = addrs] = NetworkFields(macs, <<>>, addrs)
BY SMT DEF NoFields, NetworkFields

LEMMA LineParts ==
    ASSUME NEW eth, NEW name, NEW net, NEW detail, NEW bad
    PROVE  Line(eth, name, net, detail, bad)
             = NetworkLine(name, <<eth.src_mac, eth.dst_mac>>,
                           IF eth.has_vlan THEN <<eth.vlan_tci % 4096>> ELSE <<>>, net, detail, bad)
BY DEF Line, NetworkLine

LEMMA VerdictsAreBoolean ==
    ASSUME NEW segment, NEW src, NEW dst
    PROVE  /\ tcp_verify_checksum(segment, src, dst) \in BOOLEAN
           /\ tcp_verify_checksum_ipv6(segment, src, dst) \in BOOLEAN
           /\ udp_verify_checksum(segment, src, dst) \in BOOLEAN
           /\ udp_verify_checksum_ipv6(segment, src, dst) \in BOOLEAN
           /\ icmpv4_verify_checksum(segment) \in BOOLEAN
           /\ icmpv6_verify_checksum(segment, src, dst) \in BOOLEAN
BY DEF tcp_verify_checksum, tcp_verify_checksum_ipv6, udp_verify_checksum, udp_verify_checksum_ipv6,
       icmpv4_verify_checksum, icmpv6_verify_checksum,
       checksum_verify, checksum_verify_ipv4_pseudo, checksum_verify_ipv6_pseudo, Verdict

LEMMA TripleNotEmpty ==
    ASSUME NEW x, NEW y, NEW z
    PROVE  <<x, y, z>> # <<>>
OBVIOUS

(* Without a network layer there is no transport layer either. *)
LEMMA LinkCoherent ==
    ASSUME NEW eth, NEW name, NEW macs, NEW vlan, NEW detail, NEW note, name \notin {"TCP", "UDP"}
    PROVE  /\ Coherent(Decoded(NetworkFields(eth, <<>>, <<>>),
                               NetworkLine(name, macs, vlan, <<>>, detail, {})))
           /\ Coherent(Decoded(NetworkFields(eth, <<>>, <<>>),
                               Remark(NetworkLine(name, macs, vlan, <<>>, detail, {}), note)))
<1> DEFINE fields == NetworkFields(eth, <<>>, <<>>)
           line == NetworkLine(name, macs, vlan, <<>>, detail, {})
           noted == Remark(line, note)
<1>1. fields.ip = <<>> /\ fields.ipv6 = <<>> /\ fields.tcp = <<>> /\ fields.udp = <<>>
  BY DEF NetworkFields
<1>2. line.name = name /\ line.net = <<>> /\ line.bad = {}
  BY DEF NetworkLine
<1>3. noted.name = name /\ noted.net = <<>> /\ noted.bad = {}
  BY Zenon DEF Remark, NetworkLine
<1> HIDE DEF fields, line, noted
<1>4. Coherent(Decoded(fields, line))
  BY <1>1, <1>2 DEF Coherent, Decoded
<1>5. Coherent(Decoded(fields, noted))
  BY <1>1, <1>3 DEF Coherent, Decoded
<1> QED  BY <1>4, <1>5 DEF fields, line, noted

LEMMA MessageCoherent ==
    ASSUME NEW eth, NEW note
    PROVE  Coherent(Decoded(NetworkFields(eth, <<>>, <<>>), Message(note)))
BY DEF Coherent, Decoded, NetworkFields, Message

(* A network layer whose protocol the printer does not look into. *)
LEMMA PlainShape ==
    ASSUME NEW eth, NEW ip, NEW ipv6, NEW name, NEW macs, NEW vlan, NEW net, NEW detail, NEW bad
    PROVE  Shape(Decoded(NetworkFields(eth, ip, ipv6), NetworkLine(name, macs, vlan, net, detail, bad)),
                 name, ip, ipv6, net, bad)
BY DEF Shape, Decoded, NetworkFields, NetworkLine

LEMMA ProtoShape ==
    ASSUME NEW eth, NEW ip, NEW ipv6, NEW name, NEW macs, NEW vlan, NEW net, NEW detail, NEW bad,
           NEW proto, NEW note
    PROVE  Shape(Decoded(NetworkFields(eth, ip, ipv6),
                         Remark([NetworkLine(name, macs, vlan, net, detail, bad) EXCEPT !.detail = proto], note)),
                 name, ip, ipv6, net, bad)
<1> DEFINE fields == NetworkFields(eth, ip, ipv6)
           line == Remark([NetworkLine(name, macs, vlan, net, detail, bad) EXCEPT !.detail = proto], note)
<1>1. fields.ip = ip /\ fields.ipv6 = ipv6 /\ fields.tcp = <<>> /\ fields.udp = <<>>
  BY DEF NetworkFields
<1>2. line.name = name /\ line.net = net /\ line.bad = bad
  BY Zenon DEF Remark, NetworkLine
<1> HIDE DEF fields, line
<1>3. Shape(Decoded(fields, line), name, ip, ipv6, net, bad)
  BY <1>1, <1>2 DEF Shape, Decoded
<1> QED  BY <1>3 DEF fields, line

LEMMA IPv4Coherent ==
    ASSUME NEW macs, NEW eth, NEW data
    PROVE  Coherent(IPv4Datagram(NetworkFields(macs, <<>>, <<>>), eth, data))
<1> DEFINE ip == ip_parse(data)
           segment == Payload(data, ip)
           src == ip.src_addr
           dst == ip.dst_addr
           vlan == IF eth.has_vlan THEN <<eth.vlan_tci % 4096>> ELSE <<>>
           net == <<src, dst, ip.ttl>>
           bad == IF ip.checksum_valid THEN {} ELSE {"ip"}
           fields == NetworkFields(macs, <<>>, <<>>)
           known == NetworkFields(macs, <<src, dst>>, <<>>)
           line == NetworkLine("IP", <<eth.src_mac, eth.dst_mac>>, vlan, net, NoDetail, bad)
           d == IPv4Datagram(fields, eth, data)
<1>1. IPv4Line(eth, ip) = line
  BY LineParts DEF IPv4Line
<1>2. [fields EXCEPT !.ip = <<src, dst>>] = known
  BY FieldsWithNetwork
<1>3. Network("IP", <<src, dst>>, <<>>, net, bad)
  BY PairNotEmpty, TripleNotEmpty DEF Network
<1>4. ~ip.ok => d = Decoded(fields, Message("(truncated IPv4 header)"))
  BY DEF IPv4Datagram
<1>5. ip.ok => d \in {TcpSegment(known, line, segment, tcp_verify_checksum(segment, src, dst)),
                      UdpDatagram(known, line, segment, udp_verify_checksum(segment, src, dst), FALSE),
                      IcmpMessage(known, line, segment, icmpv4_verify_checksum(segment), FALSE),
                      Decoded(known, Remark([line EXCEPT !.detail = [proto |-> ip.protocol]], "proto"))}
  BY <1>1, <1>2 DEF IPv4Datagram
<1> HIDE DEF d, line, known, fields, segment, src, dst, net, bad, vlan, ip
<1>6. CASE ~ip.ok
  BY <1>4, <1>6, MessageCoherent DEF fields, d
<1>7. CASE ip.ok
  <2>0. /\ tcp_verify_checksum(segment, src, dst) \in BOOLEAN
        /\ udp_verify_checksum(segment, src, dst) \in BOOLEAN
        /\ icmpv4_verify_checksum(segment) \in BOOLEAN
    BY VerdictsAreBoolean
  <2>1. Shape(TcpSegment(known, line, segment, tcp_verify_checksum(segment, src, dst)),
              "IP", <<src, dst>>, <<>>, net, bad)
    BY Zenon, TcpShape, <2>0 DEF known, line
  <2>2. Shape(UdpDatagram(known, line, segment, udp_verify_checksum(segment, src, dst), FALSE),
              "IP", <<src, dst>>, <<>>, net, bad)
    BY Zenon, UdpShape, <2>0 DEF known, line
  <2>3. Shape(IcmpMessage(known, line, segment, icmpv4_verify_checksum(segment), FALSE),
              "IP", <<src, dst>>, <<>>, net, bad)
    BY Zenon, IcmpShape, <2>0 DEF known, line
  <2>4. Shape(Decoded(known, Remark([line EXCEPT !.detail = [proto |-> ip.protocol]], "proto")),
              "IP", <<src, dst>>, <<>>, net, bad)
    BY Zenon, ProtoShape DEF known, line
  <2>5. Shape(d, "IP", <<src, dst>>, <<>>, net, bad)
    BY Zenon, <1>5, <1>7, <2>1, <2>2, <2>3, <2>4
  <2> QED  BY <1>3, <2>5, ShapeCoherent DEF d, fields
<1> QED  BY <1>6, <1>7

LEMMA IPv6Coherent ==
    ASSUME NEW macs, NEW eth, NEW data
    PROVE  Coherent(IPv6Datagram(NetworkFields(macs, <<>>, <<>>), eth, data))
<1> DEFINE ipv6 == ipv6_parse(data)
           segment == Payload(data, ipv6)
           src == ipv6.src_addr
           dst == ipv6.dst_addr
           vlan == IF eth.has_vlan THEN <<eth.vlan_tci % 4096>> ELSE <<>>
           net == <<src, dst, ipv6.hop_limit>>
           addrs == <<AddressHextets(src), AddressHextets(dst)>>
           fields == NetworkFields(macs, <<>>, <<>>)
           known == NetworkFields(macs, <<>>, addrs)
           link == NetworkLine("ETH", <<eth.src_mac, eth.dst_mac>>, vlan, <<>>, NoDetail, {})
           line == NetworkLine("IPv6", <<eth.src_mac, eth.dst_mac>>, vlan, net,
                               [next |-> ipv6.next_header], {})
           d == IPv6Datagram(fields, eth, data)
<1>1. IPv6Line(eth, ipv6) = line /\ EthernetLine(eth) = link
  BY LineParts DEF IPv6Line, EthernetLine
<1>2. [fields EXCEPT !.ipv6 = addrs] = known
  BY FieldsWithNetwork
<1>3. Network("IPv6", <<>>, addrs, net, {})
  BY PairNotEmpty, TripleNotEmpty DEF Network
<1>4. ~ipv6.ok => d = Decoded(fields, Remark(link, "IPv6 (truncated)"))
  BY <1>1 DEF IPv6Datagram
<1>5. ipv6.ok => d \in {TcpSegment(known, line, segment, tcp_verify_checksum_ipv6(segment, src, dst)),
                        UdpDatagram(known, line, segment, udp_verify_checksum_ipv6(segment, src, dst), TRUE),
                        IcmpMessage(known, line, segment, icmpv6_verify_checksum(segment, src, dst), TRUE),
                        Decoded(known, line)}
  BY <1>1, <1>2 DEF IPv6Datagram
<1> HIDE DEF d, link, line, known, fields, segment, src, dst, addrs, net, vlan, ipv6
<1>6. CASE ~ipv6.ok
  <2>1. Coherent(Decoded(fields, Remark(link, "IPv6 (truncated)")))
    BY Zenon, LinkCoherent DEF fields, link
  <2> QED  BY <1>4, <1>6, <2>1 DEF fields, d
<1>7. CASE ipv6.ok
  <2>0. /\ tcp_verify_checksum_ipv6(segment, src, dst) \in BOOLEAN
        /\ udp_verify_checksum_ipv6(segment, src, dst) \in BOOLEAN
        /\ icmpv6_verify_checksum(segment, src, dst) \in BOOLEAN
    BY VerdictsAreBoolean
  <2>1. Shape(TcpSegment(known, line, segment, tcp_verify_checksum_ipv6(segment, src, dst)),
              "IPv6", <<>>, addrs, net, {})
    BY Zenon, TcpShape, <2>0 DEF known, line
  <2>2. Shape(UdpDatagram(known, line, segment, udp_verify_checksum_ipv6(segment, src, dst), TRUE),
              "IPv6", <<>>, addrs, net, {})
    BY Zenon, UdpShape, <2>0 DEF known, line
  <2>3. Shape(IcmpMessage(known, line, segment, icmpv6_verify_checksum(segment, src, dst), TRUE),
              "IPv6", <<>>, addrs, net, {})
    BY Zenon, IcmpShape, <2>0 DEF known, line
  <2>4. Shape(Decoded(known, line), "IPv6", <<>>, addrs, net, {})
    BY Zenon, PlainShape DEF known, line
  <2>5. Shape(d, "IPv6", <<>>, addrs, net, {})
    BY Zenon, <1>5, <1>7, <2>1, <2>2, <2>3, <2>4
  <2> QED  BY <1>3, <2>5, ShapeCoherent DEF d, fields
<1> QED  BY <1>6, <1>7

(* For every frame, whole or truncated, the fields print_packet() hands to *)
(* the display filter and the line it prints agree on the layers: no line  *)
(* names TCP or UDP, shows addresses or reports a bad checksum of a layer  *)
(* the filter does not see.                                                *)
THEOREM FieldsMatchLine ==
    ASSUME NEW captured
    PROVE  Coherent(print_packet(captured))
<1> DEFINE eth == eth_parse(captured)
           data == Payload(captured, eth)
           arp == arp_parse(data)
           macs == <<eth.src_mac, eth.dst_mac>>
           vlan == IF eth.has_vlan THEN <<eth.vlan_tci % 4096>> ELSE <<>>
           fields == NetworkFields(macs, <<>>, <<>>)
           link == NetworkLine("ETH", macs, vlan, <<>>, NoDetail, {})
           d == print_packet(captured)
<1>1. EthernetLine(eth) = link
  BY LineParts DEF EthernetLine
<1>2. PICK detail : ArpLine(eth, arp) = NetworkLine("ARP", macs, vlan, <<>>, detail, {})
  BY LineParts DEF ArpLine
<1>3. [NoFields EXCEPT !.eth = macs] = fields /\ NoFields = NetworkFields(<<>>, <<>>, <<>>)
  BY FieldsWithNetwork DEF NoFields, NetworkFields
<1>4. ~eth.ok => d = Decoded(NetworkFields(<<>>, <<>>, <<>>), Message("(truncated Ethernet frame)"))
  BY <1>3 DEF print_packet
<1>5. eth.ok => d \in {Decoded(fields, NetworkLine("ARP", macs, vlan, <<>>, detail, {})),
                       Decoded(fields, Remark(link, "ARP (truncated)")),
                       Decoded(fields, link),
                       IPv6Datagram(fields, eth, data),
                       IPv4Datagram(fields, eth, data)}
  <2> DEFINE filled == [NoFields EXCEPT !.eth = <<eth.src_mac, eth.dst_mac>>]
  <2>1. eth.ok => d \in {Decoded(filled, ArpLine(eth, arp)),
                         Decoded(filled, Remark(EthernetLine(eth), "ARP (truncated)")),
                         Decoded(filled, EthernetLine(eth)),
                         IPv6Datagram(filled, eth, data),
                         IPv4Datagram(filled, eth, data)}
    BY DEF print_packet
  <2>2. filled = fields
    BY <1>3
  <2> HIDE DEF d, filled, fields, link, macs, vlan, arp, data, eth
  <2> QED  BY <1>1, <1>2, <2>1, <2>2
<1> HIDE DEF d, link, fields, macs, vlan, data, eth
<1>6. CASE ~eth.ok
  BY <1>4, <1>6, MessageCoherent DEF d
<1>7. CASE eth.ok
  <2>1. /\ Coherent(Decoded(fields, NetworkLine("ARP", macs, vlan, <<>>, detail, {})))
        /\ Coherent(Decoded(fields, Remark(link, "ARP (truncated)")))
        /\ Coherent(Decoded(fields, link))
    BY Zenon, LinkCoherent DEF fields, link
  <2>2. Coherent(IPv6Datagram(fields, eth, data)) /\ Coherent(IPv4Datagram(fields, eth, data))
    BY Zenon, IPv6Coherent, IPv4Coherent DEF fields
  <2> QED  BY Zenon, <1>5, <1>7, <2>1, <2>2 DEF d
<1> QED  BY <1>6, <1>7
=============================================================================
