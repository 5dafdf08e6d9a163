---------------------------- MODULE MCDispFilter ----------------------------
(* Instances of DispFilter for TLC. *)
EXTENDS DispFilter

K(text) == Keyword(text)
Number(n) == Dotted(<<n>>)

-----------------------------------------------------------------------------
(* Packets: what print_packet() can have parsed of a frame. *)

MacA == <<10, 11, 12, 13, 14, 15>>
MacB == <<32, 33, 34, 35, 36, 37>>
AddrA == <<10, 0, 0, 5>>
AddrB == <<192, 168, 1, 1>>
Addr6A == <<8193, 0, 0, 0, 0, 0, 0, 1>>
Addr6B == <<0, 0, 0, 0, 0, 0, 0, 0>>

Other == [NoPacket EXCEPT !.eth = <<MacA, MacB>>]
IPv4(src, dst) == [Other EXCEPT !.ip = <<src, dst>>]
IPv6(src, dst) == [Other EXCEPT !.ipv6 = <<src, dst>>]

Segments(p) ==
    {p} \cup {[p EXCEPT !.tcp = ports] : ports \in {<<<<80>>, <<443>>>>, <<<<443>>, <<80>>>>}}
        \cup {[p EXCEPT !.udp = ports] : ports \in {<<<<53>>, <<0>>>>, <<<<443>>, <<443>>>>}}

WholePackets ==
    {Other} \cup UNION {Segments(p) : p \in {IPv4(AddrA, AddrB), IPv4(AddrB, AddrB), IPv6(Addr6A, Addr6B)}}

-----------------------------------------------------------------------------
(* Words *)

G(v) == Group(4, v)
MacWord(m) == Colons([i \in 1 .. 6 |-> Group(2, m[i])])
IPv6Word == Colons(<<G(8193), NoGroup, Group(1, 1)>>)
ZeroIPv6Word == Colons(<<NoGroup, NoGroup, NoGroup>>)

Is(field, op, word) == <<K(field), K(op), word>>

Comparisons ==
    {Is(f, op, w) : f \in MacFields, op \in {"==", "!="}, w \in {MacWord(MacA), MacWord(Zeros(6))}}
        \cup {Is(f, op, w) : f \in IPv4Fields, op \in {"==", "!="}, w \in {Dotted(AddrA), Dotted(AddrB)}}
        \cup {Is(f, op, w) : f \in IPv6Fields, op \in {"==", "!="}, w \in {IPv6Word, ZeroIPv6Word}}
        \cup {Is(f, op, Number(n)) : f \in PortFields, op \in {"==", "!="}, n \in {0, 80, 443}}

Few == {Is("ip.src", "==", Dotted(AddrA)), Is("tcp.port", "!=", Number(80)), Is("udp.dstport", "==", Number(0))}

Negated(S) == S \cup {<<K("not")>> \o p : p \in S} \cup {<<K("!")>> \o p : p \in S}
Joined(S, T) == {p \o <<K(op)>> \o q : p \in S, q \in T, op \in {"and", "||"}}
Grouped(S) == {<<K("(")>> \o p \o <<K(")")>> : p \in S}

MeaningInputs ==
    {<<>>} \cup Negated(Comparisons)
        \cup Joined(Negated(Few), Joined(Few, Few))
        \cup Joined(Few, Negated(Grouped(Joined(Few, Few))))

-----------------------------------------------------------------------------
(* Sequences of words, grammatical or not. *)

SequencesUpTo(S, n) == UNION {[1 .. m -> S] : m \in 1 .. n}

Vocabulary ==
    {K("eth.dst"), K("ip.addr"), K("ipv6.src"), K("tcp.port"), K("=="), K("!="), K("not"), K("("), K(")"),
     K("bogus"), Number(0), Number(65535), Number(65536), Number(TooBig), Dotted(AddrA), Dotted(<<10, 0>>),
     Dotted(<<10, 0, 256, 5>>), Dotted(<<10, 0, NotDigits, 5>>), MacWord(MacA), IPv6Word,
     Colons(<<G(1), G(2)>>)}

(* A comparison as if it were one word, so that longer sequences fit. *)
Expand(ws) ==
    LET Spelled[i \in 0 .. Len(ws)] ==
            IF i = 0 THEN <<>>
            ELSE Spelled[i - 1] \o (IF ws[i] = "p" THEN Is("udp.port", "==", Number(53)) ELSE <<K(ws[i])>>)
    IN  Spelled[Len(ws)]

GrammarInputs ==
    {<<>>} \cup SequencesUpTo(Vocabulary, 3)
        \cup {Expand(ws) : ws \in SequencesUpTo({"p", "not", "and", "or", "(", ")"}, 6)}

-----------------------------------------------------------------------------
(* Every literal of up to ten groups that are empty or hold their own      *)
(* place; and literals with groups of various widths.                       *)

Placed(n) == {[i \in 1 .. n |-> IF i \in empty THEN NoGroup ELSE Group(1, i)] : empty \in SUBSET (1 .. n)}

Wide(n, widths) == {[i \in 1 .. n |-> Group(w[i], i)] : w \in [1 .. n -> widths]}

LiteralInputs ==
    {Is("ipv6.addr", "==", Colons(g)) : g \in UNION {Placed(n) : n \in 2 .. 10}}
        \cup {Is(f, "==", Colons(g)) : f \in {"eth.addr", "ipv6.addr"},
                g \in Wide(5, {2, 3}) \cup Wide(6, {1, 2, 3}) \cup Wide(7, {2, 3}) \cup Wide(8, {2, 4, 5})}

-----------------------------------------------------------------------------
(* Expressions around the limits of the compiler. *)

LimitInputs ==
    Negated(Negated(Joined(Few, Joined(Few, Few)))) \cup Joined(Joined(Few, Few), Joined(Few, Few))
        \cup {p \o <<K("and")>> \o q : p \in Joined(Few, Few), q \in Joined(Few, Joined(Few, Few))}

MCInputs == GrammarInputs \cup MeaningInputs \cup LiteralInputs \cup LimitInputs
=============================================================================
