------------------------------ MODULE FilterSync ------------------------------
(***************************************************************************)
(* The capture filter, which reads a frame in the kernel, and the analyzer *)
(* (PacketDecode), which decodes it afterwards, side by side on the same   *)
(* frame.                                                                  *)
(***************************************************************************)
EXTENDS CapFilter, PacketDecode

Judged == stage \in {"pass", "drop"}

(* The analyzer found every header it looked for. *)
Complete(decoded) == decoded.line.name # "" /\ decoded.line.note \in {"", "proto"}

Sides(pair, dirs) == {pair[i] : i \in {j \in DOMAIN pair : (IF j = 1 THEN "src" ELSE "dst") \in dirs}}

(* An expression of the capture filter, evaluated on what was decoded. *)
RECURSIVE Analyzed(_, _)
Analyzed(e, d) ==
    CASE e.kind = "or" -> Analyzed(e.left, d) \/ Analyzed(e.right, d)
      [] e.kind = "and" -> Analyzed(e.left, d) /\ Analyzed(e.right, d)
      [] e.kind = "not" -> ~Analyzed(e.left, d)
      [] e.kind = "ip" -> d.fields.ip # <<>>
      [] e.kind = "ip6" -> d.fields.ipv6 # <<>>
      [] e.kind = "arp" -> d.line.name = "ARP"
      [] e.kind = "tcp" -> d.fields.tcp # <<>>
      [] e.kind = "udp" -> d.fields.udp # <<>>
      [] e.kind = "icmp" -> d.line.name = "ICMP"
      [] e.kind = "net" ->
             \E addr \in Sides(d.fields.ip, e.dirs) : \A i \in 1 .. e.bits : Bit(addr, i) = Bit(e.addr, i)
      [] e.kind = "port" ->
             <<e.port>> \in Sides(d.fields.tcp, e.dirs) \cup Sides(d.fields.udp, e.dirs)

(* On an untagged IPv4 packet whose headers are all there, the program the  *)
(* kernel runs lets through exactly what the expression says of the packet  *)
(* as the analyzer decodes it: the offsets of the addresses, the protocol   *)
(* and, behind options, the ports that capfilter.c:366-384 and 550-728 bake *)
(* into the program are those of ip_parser.c:12-49 and                      *)
(* tcp_udp_parser.c:8-80.                                                   *)
AgreeOnUntaggedIPv4 ==
    Judged =>
        LET d == print_packet(frame)
        IN  Complete(d) /\ d.fields.ip # <<>> /\ d.line.vlan = <<>> =>
                \A e \in Expressions(input) : (stage = "pass") <=> Analyzed(e, d)

(* "the filter's idea of "tcp" and the analyzer's idea of "tcp" stay in     *)
(* sync" (capfilter.c:372-373): the filter "tcp" lets through the frames    *)
(* that print_packet() shows as TCP, and no others.                         *)
TcpInSync ==
    Judged /\ Expressions(input) = {[kind |-> "tcp"]} =>
        LET d == print_packet(frame) IN Complete(d) => ((stage = "pass") <=> Analyzed([kind |-> "tcp"], d))
=============================================================================
