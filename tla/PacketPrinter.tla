---------------------------- MODULE PacketPrinter ----------------------------
(***************************************************************************)
(* The display filter and print_packet() together: a packet is put on the  *)
(* wire (Sender), captured, whole or not, decoded (PacketDecode), and the  *)
(* filter (DispFilter) decides whether its line is printed.                *)
(***************************************************************************)
EXTENDS DispFilter, PacketDecode, Sender

CONSTANT Captures(_)   \* the captures print_packet() is called with, under a given filter

VARIABLES
    capture,  \* what was sent, how much of it was captured, and a byte that was changed
    line      \* what is printed of it

printer_vars == <<vars, capture, line>>

NoCapture == [packet |-> <<>>, cut |-> 0, hit |-> <<>>]
NoLine == Message("")

(* c.cut bytes of the packet sent; c.hit is <<>>, or <<place, difference>> *)
(* of a byte changed on the way.                                           *)
Captured(c) ==
    LET bytes == SubSeq(Wire(c.packet), 1, c.cut)
    IN  IF c.hit = <<>> THEN bytes ELSE [bytes EXCEPT ![c.hit[1] + 1] = (@ + c.hit[2]) % 256]

PrinterInit == Init /\ capture = NoCapture /\ line = NoLine

Compile == (Alloc \/ LexWord \/ LexEnd \/ Parse) /\ UNCHANGED <<capture, line>>

(* print_packet(): decode, apply the filter, print. *)
PrintPacket ==
    /\ stage = "compiled"
    /\ \E c \in Captures(input) :
           LET decoded == print_packet(Captured(c))
           IN  /\ Match(decoded.fields)
               /\ capture' = c
               /\ line' = IF stage' = "shown" THEN decoded.line ELSE line

PrinterDone == Done /\ UNCHANGED <<capture, line>>

PrinterNext == Compile \/ PrintPacket \/ PrinterDone

PrinterSpec == PrinterInit /\ [][PrinterNext]_printer_vars

-----------------------------------------------------------------------------
(* What was sent, as the analyzer has to tell it *)

Upper(p) == CASE p.net \notin {"ip", "ipv6"} -> "none"
              [] p.net \in {"ip", "ipv6"} /\ p.proto = 6 -> "tcp"
              [] p.net \in {"ip", "ipv6"} /\ p.proto = 17 -> "udp"
              [] <<p.net, p.proto>> \in {<<"ip", 1>>, <<"ipv6", 58>>} -> "icmp"
              [] OTHER -> "none"

SentFields(p) ==
    LET ports == <<<<p.head[1]>>, <<p.head[2]>>>>
    IN  [eth |-> p.macs,
         ip |-> IF p.net = "ip" THEN p.addrs ELSE <<>>,
         ipv6 |-> IF p.net = "ipv6" THEN <<AddressHextets(p.addrs[1]), AddressHextets(p.addrs[2])>> ELSE <<>>,
         tcp |-> IF Upper(p) = "tcp" THEN ports ELSE <<>>,
         udp |-> IF Upper(p) = "udp" THEN ports ELSE <<>>]

SentName(p) ==
    CASE Upper(p) = "tcp" -> "TCP"
      [] Upper(p) = "udp" -> "UDP"
      [] Upper(p) = "icmp" -> IF p.net = "ip" THEN "ICMP" ELSE "ICMPv6"
      [] OTHER -> CASE p.net = "ip" -> "IP" [] p.net = "ipv6" -> "IPv6"
                    [] p.net = "arp" -> "ARP" [] p.net = "other" -> "ETH"

SentDetail(p) ==
    CASE Upper(p) = "tcp" -> [src_port |-> p.head[1], dst_port |-> p.head[2],
                              seq |-> p.seq, ack |-> p.ack, flags |-> p.flags]
      [] Upper(p) = "udp" -> [src_port |-> p.head[1], dst_port |-> p.head[2], length |-> 8 + Len(p.data)]
      [] Upper(p) = "icmp" -> IF p.head[1] \in (IF p.net = "ip" THEN {0, 8} ELSE {128, 129})
                              THEN [request |-> p.head[1] \in {8, 128}, id |-> p.echo[1], seq |-> p.echo[2]]
                              ELSE [type |-> p.head[1], code |-> p.head[2]]
      [] OTHER -> CASE p.net = "ip" -> [proto |-> p.proto]
                    [] p.net = "ipv6" -> [next |-> p.proto]
                    [] p.net = "arp" -> IF p.head[1] = 1 THEN [who_has |-> p.addrs[2], tell |-> p.addrs[1]]
                                        ELSE [sender |-> p.addrs[1], is_at |-> p.macs[1]]
                    [] p.net = "other" -> NoDetail

SentLine(p) ==
    [name |-> SentName(p), macs |-> p.macs,
     vlan |-> IF p.tag = <<>> THEN <<>> ELSE <<p.tag[1] % 4096>>,
     net |-> IF p.net \in {"ip", "ipv6"} THEN <<p.addrs[1], p.addrs[2], p.ttl>> ELSE <<>>,
     detail |-> SentDetail(p), bad |-> {},
     note |-> IF p.net = "ip" /\ Upper(p) = "none" THEN "proto" ELSE ""]

Printed == stage \in {"shown", "hidden"}
Whole(c) == c.hit = <<>> /\ c.cut = Len(Wire(c.packet))

-----------------------------------------------------------------------------
(* Properties *)

(* A packet captured as it was sent is told as it was sent, whatever its    *)
(* options, tag and padding, and no checksum in it is called BAD: not the   *)
(* odd byte at the end, nor a UDP checksum that is left out or comes out as *)
(* zero, nor the padding of a short frame (packet_printer.cpp:87-255,       *)
(* ip_parser.c:66-77, checksum.c:3-29).                                     *)
DecodesWhatWasSent ==
    Printed /\ Whole(capture) =>
        /\ packet = SentFields(capture.packet)
        /\ stage = "shown" => line = SentLine(capture.packet)

(* A capture that breaks off loses layers and changes none: the filter sees *)
(* exactly the layers whose headers were captured whole, with the values    *)
(* sent, and an IPv4 header that was is not called BAD (the length checks   *)
(* of the parsers, packet_printer.cpp:91-254).                              *)
TruncationOnlyLoses ==
    Printed /\ capture.hit = <<>> =>
        LET p == capture.packet
            sent == SentFields(p)
        IN  /\ packet = [l \in Layers |->
                            IF sent[l] # <<>> /\ capture.cut >= HeaderEnd(p, l) THEN sent[l] ELSE <<>>]
            /\ "ip" \notin line.bad
            /\ line.name = SentName(p) => line.detail = SentDetail(p)

=============================================================================
