----------------------------- MODULE MCCapFilter -----------------------------
(* Instances of CapFilter and FilterSync for TLC. *)
EXTENDS FilterSync

K(text) == Keyword(text)
Number(n) == Dotted(<<n>>)
Local == Dotted(<<10, 0, 0, 5>>)
Remote == Dotted(<<192, 168, 1, 1>>)

-----------------------------------------------------------------------------
(* Frames: Ethernet with a given EtherType, then IPv4 with a given header  *)
(* length in words, protocol and addresses, then the ports and the length  *)
(* of the TCP header.                                                      *)

Zeros(n) == [i \in 1 .. n |-> 0]

EthernetFrame(ethertype, payload) == Zeros(12) \o <<ethertype \div 256, ethertype % 256>> \o payload

Transport(sport, dport) ==
    <<sport \div 256, sport % 256, dport \div 256, dport % 256>> \o Zeros(8) \o <<80>> \o Zeros(7)

IPv4Packet(ihl, proto, src, dst, sport, dport) ==
    <<64 + ihl>> \o Zeros(8) \o <<proto>> \o Zeros(2) \o src \o dst \o Zeros(4 * (ihl - 5))
        \o Transport(sport, dport)

Padded(f) == f \o Zeros(80 - Len(f))

LocalAddr == <<10, 0, 0, 5>>
RemoteAddr == <<192, 168, 1, 1>>
NearAddr == <<10, 0, 0, 4>>

(* The same behind a VLAN tag, and over IPv6. *)
TaggedFrame == Padded(EthernetFrame(ETH_TYPE_VLAN, <<0, 5, 8, 0>> \o IPv4Packet(5, TCP, LocalAddr, RemoteAddr, 80, 443)))
IPv6Frame == Padded(EthernetFrame(IPv6, <<96>> \o Zeros(5) \o <<TCP, 64>> \o Zeros(32) \o Transport(80, 443)))

WholeFrames ==
    {Padded(EthernetFrame(t, IPv4Packet(5, TCP, LocalAddr, RemoteAddr, 80, 443))) : t \in {IPv4, IPv6, ARP}}
        \cup {Padded(EthernetFrame(IPv4, IPv4Packet(ihl, proto, a[1], a[2], p[1], p[2]))) :
                ihl \in {5, 7}, proto \in {ICMP, TCP, UDP},
                a \in {<<LocalAddr, RemoteAddr>>, <<RemoteAddr, NearAddr>>},
                p \in {<<80, 443>>, <<443, 80>>}}

ShortFrames ==
    {SubSeq(EthernetFrame(IPv4, IPv4Packet(6, TCP, LocalAddr, RemoteAddr, 80, 443)), 1, n) :
        n \in {0, 13, 14, 15, 23, 24, 29, 30, 34, 38, 39, 40, 41, 42, 57, 58}}

MCFrames == WholeFrames \cup ShortFrames \cup {TaggedFrame, IPv6Frame}

OneFrame == {Padded(EthernetFrame(IPv4, IPv4Packet(5, UDP, LocalAddr, RemoteAddr, 80, 443)))}

-----------------------------------------------------------------------------
(* Every sequence of at most four words of a small vocabulary, and of at   *)
(* most seven of a smaller one.                                            *)

SequencesUpTo(S, n) == UNION {[1 .. m -> S] : m \in 1 .. n}

Vocabulary ==
    {K("tcp"), K("src"), K("dst"), K("port"), K("host"), K("("), K(")"), K("not"), K("!"), K("and"),
     K("||"), K("/"), K("bogus"), Number(80), Number(65536), Number(TooBig), Local,
     Dotted(<<10, 0, 256, 5>>), Dotted(<<10, 0>>), Dotted(<<10, 0, NoDigits, 5>>)}

Nets ==
    {<<K("net"), a, K("/"), n>> : a \in {Local, Number(80)}, n \in {Number(0), Number(32), Number(33), Local}}

GrammarInputs ==
    SequencesUpTo(Vocabulary, 3)
        \cup SequencesUpTo({K("udp"), K("not"), K("and"), K("or"), K("("), K(")")}, 6)
        \cup Nets \cup {<<K("src")>> \o n : n \in Nets} \cup {n \o <<K("tcp")>> : n \in Nets}

-----------------------------------------------------------------------------
(* Every combination of up to three primitives. *)

Primitives ==
    {<<K("udp")>>, <<K("icmp")>>, <<K("ip")>>, <<K("ip6")>>, <<K("arp")>>,
     <<K("host"), Local>>, <<K("dst"), K("host"), Remote>>,
     <<K("port"), Number(80)>>, <<K("src"), K("port"), Number(443)>>,
     <<K("net"), Local, K("/"), Number(31)>>, <<K("src"), K("net"), Local, K("/"), Number(12)>>,
     <<K("dst"), K("net"), Remote, K("/"), Number(17)>>, <<K("net"), Remote, K("/"), Number(0)>>}

Negated(S) == S \cup {<<K("not")>> \o p : p \in S}

Joined(S, T) == {p \o <<K(op)>> \o q : p \in S, q \in T, op \in {"and", "or"}}

Few == {<<K("tcp")>>, <<K("src"), K("port"), Number(80)>>, <<K("dst"), K("net"), Local, K("/"), Number(30)>>}

Grouped(S) == {<<K("(")>> \o p \o <<K(")")>> : p \in S}

MeaningInputs ==
    Negated(Primitives) \cup Joined(Primitives, Primitives)
        \cup Joined(Negated(Few), Joined(Few, Few))
        \cup Joined(Few, Negated(Grouped(Joined(Few, Few))))

-----------------------------------------------------------------------------
(* Expressions around the limits of the compiler: a primitive repeated, and *)
(* a long program whose jumps are short.                                    *)

Chain(p, op, n) ==
    LET Link[i \in 1 .. n] == IF i = 1 THEN p ELSE Link[i - 1] \o <<K(op)>> \o p IN Link[n]

AnyNet == <<K("net"), Local, K("/"), Number(12)>>

LimitInputs ==
    {Chain(p, op, n) : p \in {<<K("ip6")>>, <<K("udp")>>, <<K("src"), K("port"), Number(80)>>, AnyNet},
                       op \in {"and", "or"}, n \in 4 .. 12}
        \cup {<<K("not")>> \o Chain(<<K("ip6")>>, "or", n) : n \in 10 .. 12}
        \cup Joined(Grouped({Chain(AnyNet, "or", 2)}), {Chain(AnyNet, "and", 2)})

TcpInput == {<<K("tcp")>>}

MCInputs == GrammarInputs \cup MeaningInputs \cup LimitInputs
=============================================================================
