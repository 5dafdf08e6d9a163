-------------------------------- MODULE Parsers --------------------------------
(***************************************************************************)
(* The protocol parsers (src/c/*_parser.c): functions of a buffer of bytes *)
(* whose length is that of the sequence.  A parser that returns -1 yields  *)
(* Failure.  One that returns 0 yields the header fields that are used and *)
(* where the payload is: off bytes into the buffer, len bytes long.  A     *)
(* 32-bit field is its four bytes.  Reading outside of the buffer is       *)
(* reading outside of the sequence's domain, which is an error to TLC.     *)
(***************************************************************************)
EXTENDS Checksum

ETH_TYPE_IPV4 == 2048
ETH_TYPE_ARP == 2054
ETH_TYPE_IPV6 == 34525
ETH_TYPE_VLAN == 33024

IP_PROTO_ICMP == 1
IP_PROTO_TCP == 6
IP_PROTO_UDP == 17
IP_PROTO_ICMPV6 == 58

(* data[i], two bytes at data + i in network order, and n bytes there. *)
Byte8(data, i) == data[i + 1]
Byte16(data, i) == 256 * data[i + 1] + data[i + 2]
Bytes(data, i, n) == SubSeq(data, i + 1, i + n)

Failure == [ok |-> FALSE]
Payload(data, header) == Bytes(data, header.off, header.len)

eth_parse(data) ==
    LET tagged == Byte16(data, 12) = ETH_TYPE_VLAN
        header_len == IF tagged THEN 18 ELSE 14
    IN  IF Len(data) < 14 \/ Len(data) < header_len THEN Failure
        ELSE [ok |-> TRUE, dst_mac |-> Bytes(data, 0, 6), src_mac |-> Bytes(data, 6, 6),
              has_vlan |-> tagged, vlan_tci |-> IF tagged THEN Byte16(data, 14) ELSE 0,
              ether_type |-> Byte16(data, header_len - 2),
              off |-> header_len, len |-> Len(data) - header_len]

(* Only ARP for Ethernet and IPv4. *)
arp_parse(data) ==
    IF Len(data) < 28 \/ Bytes(data, 0, 6) # <<0, 1, 8, 0, 6, 4>> THEN Failure
    ELSE [ok |-> TRUE, opcode |-> Byte16(data, 6),
          sender_mac |-> Bytes(data, 8, 6), sender_ip |-> Bytes(data, 14, 4),
          target_mac |-> Bytes(data, 18, 6), target_ip |-> Bytes(data, 24, 4)]

(* The payload ends where the datagram or the buffer ends, whatever comes   *)
(* first; a total length shorter than the header is not believed.           *)
IpHeader(data, header_len) ==
    LET declared == Byte16(data, 2) - header_len
        available == Len(data) - header_len
    IN  [ok |-> TRUE, checksum_valid |-> checksum_verify(Bytes(data, 0, header_len)),
         ttl |-> Byte8(data, 8), protocol |-> Byte8(data, 9),
         src_addr |-> Bytes(data, 12, 4), dst_addr |-> Bytes(data, 16, 4),
         off |-> header_len,
         len |-> IF declared >= 0 /\ declared < available THEN declared ELSE available]

(* Fault: the header is taken to have no options. *)
IpParseNoOptions(data) ==
    IF Len(data) < 20 \/ Byte8(data, 0) \div 16 # 4 THEN Failure ELSE IpHeader(data, 20)

ip_parse(data) ==
    LET ihl == Byte8(data, 0) % 16
    IN  IF Len(data) < 20 \/ Byte8(data, 0) \div 16 # 4 \/ ihl < 5 \/ 4 * ihl > Len(data) THEN Failure
        ELSE IpHeader(data, 4 * ihl)

(* The payload is the rest of the buffer, whatever payload_length says. *)
ipv6_parse(data) ==
    IF Len(data) < 40 \/ Byte8(data, 0) \div 16 # 6 THEN Failure
    ELSE [ok |-> TRUE, next_header |-> Byte8(data, 6), hop_limit |-> Byte8(data, 7),
          src_addr |-> Bytes(data, 8, 16), dst_addr |-> Bytes(data, 24, 16),
          off |-> 40, len |-> Len(data) - 40]

(* The identifier and the sequence number are those of echo messages. *)
icmp_parse(data, v6) ==
    IF Len(data) < 8 THEN Failure
    ELSE LET is_echo == Byte8(data, 0) \in (IF v6 THEN {128, 129} ELSE {8, 0})
         IN  [ok |-> TRUE, type |-> Byte8(data, 0), code |-> Byte8(data, 1), is_echo |-> is_echo,
              echo_id |-> IF is_echo THEN Byte16(data, 4) ELSE 0,
              echo_seq |-> IF is_echo THEN Byte16(data, 6) ELSE 0]

TcpHeaderLen(data) == 4 * (Byte8(data, 12) \div 16)

TcpHeader20(data) ==
    [ok |-> TRUE, src_port |-> Byte16(data, 0), dst_port |-> Byte16(data, 2),
     seq_num |-> Bytes(data, 4, 4), ack_num |-> Bytes(data, 8, 4), flags |-> Byte8(data, 13) % 64,
     off |-> TcpHeaderLen(data), len |-> Len(data) - TcpHeaderLen(data)]

(* Fault: the options need not be there. *)
TcpParseNoRoomCheck(data) ==
    IF Len(data) < 20 \/ TcpHeaderLen(data) < 20 THEN Failure ELSE TcpHeader20(data)

tcp_parse(data) ==
    IF Len(data) < 20 \/ TcpHeaderLen(data) < 20 \/ TcpHeaderLen(data) > Len(data) THEN Failure
    ELSE TcpHeader20(data)

udp_parse(data) ==
    IF Len(data) < 8 THEN Failure
    ELSE [ok |-> TRUE, src_port |-> Byte16(data, 0), dst_port |-> Byte16(data, 2),
          length |-> Byte16(data, 4), checksum_present |-> Byte16(data, 6) # 0,
          off |-> 8, len |-> Len(data) - 8]

-----------------------------------------------------------------------------
(* Verification of the transport checksums *)

tcp_verify_checksum(segment, src_ip, dst_ip) ==
    Len(segment) >= 20 /\ checksum_verify_ipv4_pseudo(segment, src_ip, dst_ip, IP_PROTO_TCP)

tcp_verify_checksum_ipv6(segment, src_ip, dst_ip) ==
    Len(segment) >= 20 /\ checksum_verify_ipv6_pseudo(segment, src_ip, dst_ip, IP_PROTO_TCP)

(* Over IPv4 a checksum of zero means that there is none. *)
udp_verify_checksum(segment, src_ip, dst_ip) ==
    /\ Len(segment) >= 8
    /\ \/ Byte16(segment, 6) = 0
       \/ checksum_verify_ipv4_pseudo(segment, src_ip, dst_ip, IP_PROTO_UDP)


udp_verify_checksum_ipv6(segment, src_ip, dst_ip) ==
    Len(segment) >= 8 /\ checksum_verify_ipv6_pseudo(segment, src_ip, dst_ip, IP_PROTO_UDP)

icmpv4_verify_checksum(segment) == Len(segment) >= 8 /\ checksum_verify(segment)

icmpv6_verify_checksum(segment, src_ip, dst_ip) ==
    Len(segment) >= 8 /\ checksum_verify_ipv6_pseudo(segment, src_ip, dst_ip, IP_PROTO_ICMPV6)
=============================================================================
