-------------------------------- MODULE Sender --------------------------------
(***************************************************************************)
(* The reference the analyzer is checked against: how hosts put packets on *)
(* the wire (RFC 768, 791, 792, 793, 826, 1071, 2460, 4443, IEEE 802.1Q).  *)
(* Nothing here is translated from the program.  A packet p has            *)
(*   macs     source and destination                                       *)
(*   tag      <<>> or <<VLAN tag control information>>                     *)
(*   net      "ip", "ipv6", "arp" or "other"                               *)
(*   addrs    source and destination, as bytes                             *)
(*   ttl      TTL or hop limit                                             *)
(*   options  the bytes of the IPv4 options                                *)
(*   proto    the protocol or next header number                           *)
(*   head     source and destination port; type and code of an ICMP        *)
(*            message; operation of an ARP packet                          *)
(*   seq, ack, flags, tcp_options      of a TCP segment                    *)
(*   echo     identifier and sequence number of an ICMP message            *)
(*   data     what the segment carries                                     *)
(*   sums     whether a UDP sender computes a checksum                     *)
(***************************************************************************)
EXTENDS Integers, Sequences

Wire16(n) == <<n \div 256, n % 256>>

(***************************************************************************)
(* The bytes, padded to an even number, read as one number in base 256,    *)
(* modulo 65535.  As 256^2 is 1 modulo 65535, it is the sum of the 16-bit  *)
(* words with end-around carry, without words, sums or carries.            *)
(***************************************************************************)
Residue(data) ==
    LET even == IF Len(data) % 2 = 1 THEN Append(data, 0) ELSE data
        R[i \in 1 .. Len(even) + 1, j \in 0 .. Len(even)] ==
            LET m == (i + j) \div 2
                shift == IF (j - m) % 2 = 0 THEN 1 ELSE 256   \* 256^(j - m)
            IN  IF i > j THEN 0 ELSE IF i = j THEN even[i]
                ELSE (R[i, m] * shift + R[m + 1, j]) % 65535
    IN  R[1, Len(even)]

(* data with the checksum of covered \o data in the two bytes at off, which *)
(* are 0; zero is what is sent for a checksum that comes out as 0.          *)
Sealed(covered, data, off, zero) ==
    LET sum == (65535 - Residue(covered \o data)) % 65535
        wire == Wire16(IF sum = 0 THEN zero ELSE sum)
    IN  [data EXCEPT ![off + 1] = wire[1], ![off + 2] = wire[2]]

PseudoHeader(p, n) ==
    p.addrs[1] \o p.addrs[2]
        \o (IF p.net = "ip" THEN <<0, p.proto>> \o Wire16(n) ELSE <<0, 0>> \o Wire16(n) \o <<0, 0, 0, p.proto>>)

TcpHeader(p) ==
    Wire16(p.head[1]) \o Wire16(p.head[2]) \o p.seq \o p.ack
        \o <<16 * (5 + Len(p.tcp_options) \div 4), p.flags, 250, 240, 0, 0, 0, 0>> \o p.tcp_options

UdpHeader(p) == Wire16(p.head[1]) \o Wire16(p.head[2]) \o Wire16(8 + Len(p.data)) \o <<0, 0>>

IcmpHeader(p) == <<p.head[1], p.head[2], 0, 0>> \o Wire16(p.echo[1]) \o Wire16(p.echo[2])

Segment(p) ==
    LET tcp == TcpHeader(p) \o p.data
        udp == UdpHeader(p) \o p.data
        icmp == IcmpHeader(p) \o p.data
    IN  CASE p.proto = 6 -> Sealed(PseudoHeader(p, Len(tcp)), tcp, 16, 0)
          [] p.proto = 17 -> IF p.sums THEN Sealed(PseudoHeader(p, Len(udp)), udp, 6, 65535) ELSE udp
          [] p.proto = 1 -> Sealed(<<>>, icmp, 2, 0)
          [] p.proto = 58 -> Sealed(PseudoHeader(p, Len(icmp)), icmp, 2, 0)
          [] OTHER -> p.data

Datagram(p) ==
    LET s == Segment(p)
    IN  CASE p.net = "ip" ->
                 LET n == 20 + Len(p.options)
                 IN  Sealed(<<>>,
                            <<64 + n \div 4, 0>> \o Wire16(n + Len(s)) \o <<7, 7, 64, 0, p.ttl, p.proto, 0, 0>>
                                \o p.addrs[1] \o p.addrs[2] \o p.options,
                            10, 0) \o s
          [] p.net = "ipv6" ->
                 <<96, 0, 0, 0>> \o Wire16(Len(s)) \o <<p.proto, p.ttl>> \o p.addrs[1] \o p.addrs[2] \o s
          [] p.net = "arp" ->
                 <<0, 1, 8, 0, 6, 4>> \o Wire16(p.head[1]) \o p.macs[1] \o p.addrs[1] \o p.macs[2] \o p.addrs[2]
          [] p.net = "other" -> p.data

EtherTypeOf(p) ==
    CASE p.net = "ip" -> <<8, 0>> [] p.net = "ipv6" -> <<134, 221>> [] p.net = "arp" -> <<8, 6>>
      [] p.net = "other" -> <<136, 204>>

(* Frames shorter than 60 bytes are padded. *)
Wire(p) ==
    LET f == p.macs[2] \o p.macs[1] \o (IF p.tag = <<>> THEN <<>> ELSE <<129, 0>> \o Wire16(p.tag[1]))
                 \o EtherTypeOf(p) \o Datagram(p)
    IN  f \o [i \in 1 .. (IF Len(f) < 60 THEN 60 - Len(f) ELSE 0) |-> 85]

-----------------------------------------------------------------------------
(* Where the layers of p begin and end in Wire(p), in bytes. *)

LinkEnd(p) == IF p.tag = <<>> THEN 14 ELSE 18

NetEnd(p) == LinkEnd(p) + (IF p.net = "ip" THEN 20 + Len(p.options) ELSE IF p.net = "ipv6" THEN 40 ELSE 28)

HeaderEnd(p, layer) ==
    CASE layer = "eth" -> LinkEnd(p)
      [] layer \in {"ip", "ipv6"} -> NetEnd(p)
      [] layer = "tcp" -> NetEnd(p) + 20 + Len(p.tcp_options)
      [] layer = "udp" -> NetEnd(p) + 8

DatagramEnd(p) == LinkEnd(p) + Len(Datagram(p))
=============================================================================
