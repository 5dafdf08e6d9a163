--------------------------- MODULE MCPacketPrinter ---------------------------
(* Instances of PacketPrinter for TLC: the expressions of MCDispFilter, and *)
(* packets of every kind.                                                   *)
EXTENDS PacketPrinter, MCDispFilter

Addr6(a) == [i \in 1 .. 16 |-> IF i % 2 = 1 THEN a[(i + 1) \div 2] \div 256 ELSE a[i \div 2] % 256]
WireAddrs(net) == IF net = "ipv6" THEN <<Addr6(Addr6A), Addr6(Addr6B)>> ELSE <<AddrA, AddrB>>

Plain(net, proto) ==
    [macs |-> <<MacA, MacB>>, tag |-> <<>>, net |-> net, addrs |-> WireAddrs(net), ttl |-> 64,
     options |-> <<>>, proto |-> proto, head |-> <<80, 443>>, seq |-> <<1, 0, 200, 255>>,
     ack |-> <<0, 0, 0, 1>>, flags |-> 18, tcp_options |-> <<>>, echo |-> <<0, 0>>, data |-> <<>>, sums |-> TRUE]

Tcp(net) == Plain(net, 6)
Udp(net) == [Plain(net, 17) EXCEPT !.head = <<53, 0>>]
Ping(net) == [Plain(net, IF net = "ip" THEN 1 ELSE 58) EXCEPT !.echo = <<7, 300>>,
                 !.head = <<IF net = "ip" THEN 8 ELSE 128, 0>>]
Unreachable(net) == [Ping(net) EXCEPT !.head = <<IF net = "ip" THEN 3 ELSE 1, 1>>]
Arp(op) == [Plain("arp", 0) EXCEPT !.head = <<op, 0>>]
Ethernet == [Plain("other", 0) EXCEPT !.data = <<1, 2, 3>>]

Basic ==
    UNION {{Tcp(net), Udp(net), Ping(net), Unreachable(net), Plain(net, 89)} : net \in {"ip", "ipv6"}}
        \cup {Arp(1), Arp(2), Ethernet}

(* The same with a VLAN tag, IPv4 and TCP options, and data of odd and even *)
(* length.                                                                  *)
Datas == {<<>>, <<170>>, <<255, 255>>, <<1, 2, 3>>, <<200, 201, 202, 203>>}

Varied ==
    {[p EXCEPT !.tag = tag, !.data = data, !.options = options, !.tcp_options = tcp_options] :
        p \in Basic, tag \in {<<>>, <<41060>>}, data \in Datas,
        options \in {<<>>, <<7, 4, 4, 0>>}, tcp_options \in {<<>>, <<2, 4, 5, 180>>}}

(* UDP without a checksum, and with data that makes the sum come out so     *)
(* that the checksum is 0, or has a zero byte.                              *)
Unsummed(p) == [p EXCEPT !.sums = FALSE]
Checksum(p) == LET s == Segment(p) IN Byte16(s, 6)
WithChecksum(p, sum) ==
    LET spare == (Checksum([p EXCEPT !.data = <<0, 0>>]) + 65535 - sum) % 65535
    IN  [p EXCEPT !.data = <<spare \div 256, spare % 256>>]

Datagrams ==
    {Unsummed(p) : p \in {q \in Varied : q.net = "ip" /\ q.proto = 17}}
        \cup {WithChecksum(Udp(net), sum) : net \in {"ip", "ipv6"}, sum \in {0, 1, 256, 65534}}

Sent == Varied \cup Datagrams
Some == Basic \cup {[p EXCEPT !.tag = <<5>>, !.options = <<1, 1, 1, 1>>, !.tcp_options = <<3, 3, 7, 0>>,
                              !.data = <<9, 8, 7>>] : p \in Basic}

WholeCapture(p) == [packet |-> p, cut |-> Len(Wire(p)), hit |-> <<>>]
CutCaptures(p) == {[packet |-> p, cut |-> n, hit |-> <<>>] : n \in 0 .. Len(Wire(p))}
HitCaptures(p) ==
    {[packet |-> p, cut |-> Len(Wire(p)), hit |-> <<place, d>>] :
        place \in LinkEnd(p) .. DatagramEnd(p) - 1, d \in {1, 16, 255}}

(* For the filters: both directions, equal ports, equal addresses, and     *)
(* frames cut off in the Ethernet, the IPv4 and the TCP header.             *)
Swapped(p) == [p EXCEPT !.head = <<p.head[2], p.head[1]>>, !.addrs = <<p.addrs[2], p.addrs[1]>>]
Mirrored(p) == [p EXCEPT !.head = <<443, 443>>, !.addrs = <<p.addrs[2], p.addrs[2]>>]

FilterCaptures ==
    {WholeCapture(p) : p \in Basic \cup {Swapped(Tcp("ip")), Mirrored(Udp("ip")), Swapped(Udp("ipv6"))}}
        \cup {[packet |-> Tcp("ip"), cut |-> n, hit |-> <<>>] : n \in {13, 33, 53}}

MCCaptures(filter) ==
    IF filter # <<>> THEN FilterCaptures
    ELSE {WholeCapture(p) : p \in Sent} \cup UNION {CutCaptures(p) : p \in Some}
             \cup UNION {HitCaptures(p) : p \in Some \cup Datagrams}
=============================================================================
