----------------------------- MODULE PacketDecode -----------------------------
(***************************************************************************)
(* What print_packet() makes of a captured frame (src/cpp/packet_printer)  *)
(* and the packet classes that format it: the fields it hands to the       *)
(* display filter, and the line it prints.  Of a line the model keeps what *)
(* it says and leaves out how that is laid out:                            *)
(*   name    the protocol in brackets, "" if a message takes its place     *)
(*   macs, vlan, net   addresses, VLAN id, and addresses with TTL          *)
(*   detail  the rest of the summary                                       *)
(*   bad     the checksums reported as BAD                                 *)
(*   note    the message or the trailing remark                            *)
(* The number, the time, the length and the hex dump are copies of the     *)
(* arguments.                                                              *)
(***************************************************************************)
EXTENDS Parsers

NoDetail == [none |-> TRUE]

(* finish_raw(): a message in place of a summary. *)
Message(note) ==
    [name |-> "", macs |-> <<>>, vlan |-> <<>>, net |-> <<>>, detail |-> NoDetail, bad |-> {}, note |-> note]

Flagged(line, label, valid) == IF valid THEN line ELSE [line EXCEPT !.bad = @ \cup {label}]

(* What the line of every protocol starts with. *)
Line(eth, name, net, detail, bad) ==
    [name |-> name, macs |-> <<eth.src_mac, eth.dst_mac>>,
     vlan |-> IF eth.has_vlan THEN <<eth.vlan_tci % 4096>> ELSE <<>>,
     net |-> net, detail |-> detail, bad |-> bad, note |-> ""]

(* Packet::print() without and with an IPv4 header. *)
EthernetLine(eth) == Line(eth, "ETH", <<>>, NoDetail, {})

IPv4Line(eth, ip) ==
    Line(eth, "IP", <<ip.src_addr, ip.dst_addr, ip.ttl>>, NoDetail,
         IF ip.checksum_valid THEN {} ELSE {"ip"})

(* Ipv6Packet::print(); a summary of the next header takes the place of its *)
(* name.                                                                    *)
IPv6Line(eth, ipv6) ==
    Line(eth, "IPv6", <<ipv6.src_addr, ipv6.dst_addr, ipv6.hop_limit>>, [next |-> ipv6.next_header], {})

(* ArpPacket::print() *)
ArpLine(eth, arp) ==
    Line(eth, "ARP", <<>>,
         CASE arp.opcode = 1 -> [who_has |-> arp.target_ip, tell |-> arp.sender_ip]
           [] arp.opcode = 2 -> [sender |-> arp.sender_ip, is_at |-> arp.sender_mac]
           [] OTHER -> [op |-> arp.opcode],
         {})

print_tcp_summary(line, tcp, valid) ==
    Flagged([line EXCEPT !.name = "TCP",
                         !.detail = [src_port |-> tcp.src_port, dst_port |-> tcp.dst_port,
                                     seq |-> tcp.seq_num, ack |-> tcp.ack_num, flags |-> tcp.flags]],
            "tcp", valid)

print_udp_summary(line, udp, valid, checksum_mandatory) ==
    Flagged([line EXCEPT !.name = "UDP",
                         !.detail = [src_port |-> udp.src_port, dst_port |-> udp.dst_port,
                                     length |-> udp.length]],
            "udp", valid \/ (~checksum_mandatory /\ ~udp.checksum_present))

print_icmp_summary(line, icmp, valid, v6) ==
    Flagged([line EXCEPT !.name = IF v6 THEN "ICMPv6" ELSE "ICMP",
                         !.detail = IF icmp.is_echo
                                    THEN [request |-> icmp.type = (IF v6 THEN 128 ELSE 8),
                                          id |-> icmp.echo_id, seq |-> icmp.echo_seq]
                                    ELSE [type |-> icmp.type, code |-> icmp.code]],
            "icmp", valid)

-----------------------------------------------------------------------------
(* print_packet() *)

(* dispfilter_fields_t before anything is parsed.  For the display filter   *)
(* an IPv6 address is eight hextets.                                        *)
NoFields == [eth |-> <<>>, ip |-> <<>>, ipv6 |-> <<>>, tcp |-> <<>>, udp |-> <<>>]
AddressHextets(addr) == [i \in 1 .. 8 |-> Byte16(addr, 2 * i - 2)]

Decoded(fields, line) == [fields |-> fields, line |-> line]
Remark(line, note) == [line EXCEPT !.note = note]

TcpSegment(fields, line, segment, valid) ==
    LET tcp == tcp_parse(segment)
    IN  IF tcp.ok
        THEN Decoded([fields EXCEPT !.tcp = <<<<tcp.src_port>>, <<tcp.dst_port>>>>],
                     print_tcp_summary(line, tcp, valid))
        ELSE Decoded(fields, Remark(line, "TCP (truncated)"))

UdpDatagram(fields, line, segment, valid, mandatory) ==
    LET udp == udp_parse(segment)
    IN  IF udp.ok
        THEN Decoded([fields EXCEPT !.udp = <<<<udp.src_port>>, <<udp.dst_port>>>>],
                     print_udp_summary(line, udp, valid, mandatory))
        ELSE Decoded(fields, Remark(line, "UDP (truncated)"))

IcmpMessage(fields, line, segment, valid, v6) ==
    LET icmp == icmp_parse(segment, v6)
    IN  Decoded(fields, IF icmp.ok THEN print_icmp_summary(line, icmp, valid, v6)
                        ELSE Remark(line, IF v6 THEN "ICMPv6 (truncated)" ELSE "ICMP (truncated)"))

IPv4Datagram(fields, eth, data) ==
    LET ip == ip_parse(data)
        segment == Payload(data, ip)
        src == ip.src_addr
        dst == ip.dst_addr
        line == IPv4Line(eth, ip)
        known == [fields EXCEPT !.ip = <<src, dst>>]
    IN  IF ~ip.ok THEN Decoded(fields, Message("(truncated IPv4 header)"))
        ELSE CASE ip.protocol = IP_PROTO_TCP ->
                      TcpSegment(known, line, segment, tcp_verify_checksum(segment, src, dst))
               [] ip.protocol = IP_PROTO_UDP ->
                      UdpDatagram(known, line, segment, udp_verify_checksum(segment, src, dst), FALSE)
               [] ip.protocol = IP_PROTO_ICMP ->
                      IcmpMessage(known, line, segment, icmpv4_verify_checksum(segment), FALSE)
               [] OTHER -> Decoded(known, Remark([line EXCEPT !.detail = [proto |-> ip.protocol]], "proto"))

IPv6Datagram(fields, eth, data) ==
    LET ipv6 == ipv6_parse(data)
        segment == Payload(data, ipv6)
        src == ipv6.src_addr
        dst == ipv6.dst_addr
        line == IPv6Line(eth, ipv6)
        known == [fields EXCEPT !.ipv6 = <<AddressHextets(src), AddressHextets(dst)>>]
    IN  IF ~ipv6.ok THEN Decoded(fields, Remark(EthernetLine(eth), "IPv6 (truncated)"))
        ELSE CASE ipv6.next_header = IP_PROTO_TCP ->
                      TcpSegment(known, line, segment, tcp_verify_checksum_ipv6(segment, src, dst))
               [] ipv6.next_header = IP_PROTO_UDP ->
                      UdpDatagram(known, line, segment, udp_verify_checksum_ipv6(segment, src, dst), TRUE)
               [] ipv6.next_header = IP_PROTO_ICMPV6 ->
                      IcmpMessage(known, line, segment, icmpv6_verify_checksum(segment, src, dst), TRUE)
               [] OTHER -> Decoded(known, line)

print_packet(captured) ==
    LET eth == eth_parse(captured)
        data == Payload(captured, eth)
        arp == arp_parse(data)
        fields == [NoFields EXCEPT !.eth = <<eth.src_mac, eth.dst_mac>>]
    IN  IF ~eth.ok THEN Decoded(NoFields, Message("(truncated Ethernet frame)"))
        ELSE CASE eth.ether_type = ETH_TYPE_ARP ->
                      Decoded(fields, IF arp.ok THEN ArpLine(eth, arp)
                                      ELSE Remark(EthernetLine(eth), "ARP (truncated)"))
               [] eth.ether_type = ETH_TYPE_IPV6 -> IPv6Datagram(fields, eth, data)
               [] eth.ether_type = ETH_TYPE_IPV4 -> IPv4Datagram(fields, eth, data)
               [] OTHER -> Decoded(fields, EthernetLine(eth))
=============================================================================
