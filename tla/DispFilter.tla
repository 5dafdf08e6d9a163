------------------------------ MODULE DispFilter ------------------------------
(***************************************************************************)
(* The display filter (src/c/dispfilter.c): an expression goes through the *)
(* lexer word by word and through the recursive-descent parser; the AST is *)
(* then evaluated on the parsed fields of a packet.                        *)
(*                                                                         *)
(* A word of the expression is a keyword, a field name or an operator; or  *)
(* numbers between dots; or hexadecimal groups between colons, each with   *)
(* its number of digits and its value.  Spelling is not modelled.          *)
(***************************************************************************)
EXTENDS Integers, Sequences, FiniteSetsExt

CONSTANTS
    Inputs,     \* the expressions: sequences of words
    Packets,    \* the packets: the source and destination of each layer that was parsed
    MaxTokens,  \* DF_MAX_TOKENS
    MaxNodes    \* DF_MAX_NODES

VARIABLES
    stage,      \* what dispfilter_compile(), and then dispfilter_matches(), is at
    input,      \* the expression
    toks,       \* df_ctx_t.toks
    root,       \* the filter
    packet      \* the packet the filter is applied to

vars == <<stage, input, toks, root, packet>>

Nothing == [kind |-> "NULL"]
NoPacket == [eth |-> <<>>, ip |-> <<>>, ipv6 |-> <<>>, tcp |-> <<>>, udp |-> <<>>]

Init ==
    /\ stage = "alloc"
    /\ input \in Inputs
    /\ toks = <<>>
    /\ root = Nothing
    /\ packet = NoPacket

(* dispfilter_compile() allocates the filter.  An expression without words *)
(* is the empty one, a filter without a root, or nothing but blanks.       *)
Alloc ==
    /\ stage = "alloc"
    /\ stage' \in {"lex", "nomem"} \cup (IF input = <<>> THEN {"compiled"} ELSE {})
    /\ UNCHANGED <<input, toks, root, packet>>

-----------------------------------------------------------------------------
(* Literals *)

Keyword(text) == [text |-> text, dotted |-> <<>>, groups |-> <<>>]
Dotted(parts) == [text |-> "", dotted |-> parts, groups |-> <<>>]
Colons(groups) == [text |-> "", dotted |-> <<>>, groups |-> groups]

Group(digits, value) == [digits |-> digits, value |-> value]
NoGroup == Group(0, 0)   \* nothing between two colons
TooBig == -2             \* more than 32 bits
NotDigits == -1          \* something else than digits

parse_ipv4_word(parts) == Len(parts) = 4 /\ \A i \in 1 .. 4 : parts[i] \in 0 .. 255

(* Exactly 17 characters: six groups of two digits. *)
parse_mac_word(groups) == Len(groups) = 6 /\ \A i \in 1 .. 6 : groups[i].digits = 2

(* One side of "::": nothing, or up to 8 groups of 1 to 4 digits. *)
parse_hextet_list(groups) ==
    \/ groups = <<NoGroup>>
    \/ Len(groups) <= 8 /\ \A i \in DOMAIN groups : groups[i].digits \in 1 .. 4

Hextets(groups) == IF groups = <<NoGroup>> THEN <<>> ELSE [i \in DOMAIN groups |-> groups[i].value]

Zeros(n) == [i \in 1 .. n |-> 0]

(* Fault: "::" may stand for no group at all. *)
ParseIpv6Loose(groups) ==
    LET doubles == {i \in 2 .. Len(groups) - 1 : groups[i] = NoGroup}
        at == Min(doubles)
        left == SubSeq(groups, 1, at - 1)
        right == SubSeq(groups, at + 1, Len(groups))
        total == Len(Hextets(left)) + Len(Hextets(right))
    IN  IF doubles = {}
        THEN IF parse_hextet_list(groups) /\ Len(Hextets(groups)) = 8 THEN {Hextets(groups)} ELSE {}
        ELSE IF parse_hextet_list(left) /\ parse_hextet_list(right) /\ total <= 8
             THEN {Hextets(left) \o Zeros(8 - total) \o Hextets(right)} ELSE {}

(* The address of an IPv6 literal; none if it is in error.  The first "::" *)
(* is the first empty group that is neither the first nor the last one.    *)
parse_ipv6_word(groups) ==
    LET doubles == {i \in 2 .. Len(groups) - 1 : groups[i] = NoGroup}
        at == Min(doubles)
        left == SubSeq(groups, 1, at - 1)
        right == SubSeq(groups, at + 1, Len(groups))
        total == Len(Hextets(left)) + Len(Hextets(right))
    IN  IF doubles = {}
        THEN IF parse_hextet_list(groups) /\ Len(Hextets(groups)) = 8 THEN {Hextets(groups)} ELSE {}
        ELSE IF parse_hextet_list(left) /\ parse_hextet_list(right) /\ total <= 7
             THEN {Hextets(left) \o Zeros(8 - total) \o Hextets(right)} ELSE {}

-----------------------------------------------------------------------------
(* Lexer *)

MacFields == {"eth.src", "eth.dst", "eth.addr"}
IPv4Fields == {"ip.src", "ip.dst", "ip.addr"}
IPv6Fields == {"ipv6.src", "ipv6.dst", "ipv6.addr"}
TCPFields == {"tcp.srcport", "tcp.dstport", "tcp.port"}
UDPFields == {"udp.srcport", "udp.dstport", "udp.port"}
PortFields == TCPFields \cup UDPFields
Fields == MacFields \cup IPv4Fields \cup IPv6Fields \cup PortFields

Operators == {"(", ")", "and", "&&", "or", "||", "not", "!", "==", "!="}

TokenType(text) ==
    CASE text = "!" -> "not"
      [] text = "&&" -> "and"
      [] text = "||" -> "or"
      [] OTHER -> text

Token(type, field, value) == [type |-> type, field |-> field, value |-> value]

(* What the lexer makes of a word: no token if it is in error.  A word with *)
(* a colon is a MAC address if it can be one, otherwise an IPv6 address.    *)
Lexed(word) ==
    CASE word.text \in Operators -> {Token(TokenType(word.text), "", <<>>)}
      [] word.text \in Fields -> {Token("FIELD", word.text, <<>>)}
      [] word.groups # <<>> ->
             IF parse_mac_word(word.groups) THEN {Token("MAC", "", Hextets(word.groups))}
             ELSE {Token("IPV6", "", a) : a \in parse_ipv6_word(word.groups)}
      [] word.dotted # <<>> ->
             IF parse_ipv4_word(word.dotted) THEN {Token("IPV4", "", word.dotted)}
             ELSE IF Len(word.dotted) = 1 /\ word.dotted[1] >= 0 THEN {Token("NUMBER", "", word.dotted)}
             ELSE {}
      [] OTHER -> {}

LexWord ==
    /\ stage = "lex"
    /\ Len(toks) < Len(input)
    /\ \/ /\ Len(toks) < MaxTokens
          /\ \E tok \in Lexed(input[Len(toks) + 1]) : toks' = Append(toks, tok)
          /\ UNCHANGED stage
       \/ /\ Len(toks) < MaxTokens
          /\ Lexed(input[Len(toks) + 1]) = {}
          /\ stage' = "rejected"
          /\ UNCHANGED toks
       \/ /\ Len(toks) >= MaxTokens
          /\ stage' = "too_large"
          /\ UNCHANGED toks
    /\ UNCHANGED <<input, root, packet>>

(* TOK_END goes behind the last token; behind a full array that is where   *)
(* n_toks is stored, whose new value then stands for the token's type: 1,  *)
(* which is TOK_LPAREN, or a value that is no token type.                  *)
EndTokens == IF Len(toks) < MaxTokens THEN {"END"} ELSE {"(", "none"}

LexEnd ==
    /\ stage = "lex"
    /\ Len(toks) = Len(input)
    /\ stage' = "parse"
    /\ \E end \in EndTokens : toks' = Append(toks, Token(end, "", <<>>))
    /\ UNCHANGED <<input, root, packet>>

-----------------------------------------------------------------------------
(* Parser.  It is at token pos, has built count nodes, and node is what the *)
(* last production returned.  The first error is the one that is reported:  *)
(* the expression is "rejected", or it is "too_large" for the compiler.     *)

Fail(p, error) == IF p.error = "" THEN [p EXCEPT !.error = error] ELSE p

p_peek(p) == IF p.pos <= Len(toks) THEN toks[p.pos] ELSE Token("none", "", <<>>)

p_advance(p, n) == [p EXCEPT !.pos = @ + n]

(* Fault: the arena is not checked for room. *)
MkNodeUnbounded(p, node) ==
    IF p.error # "" THEN p
    ELSE [p EXCEPT !.node = node, !.count = @ + 1]

mk_node(p, node) ==
    IF p.error # "" \/ p.count >= MaxNodes THEN Fail(p, "too_large")
    ELSE [p EXCEPT !.node = node, !.count = @ + 1]

(* The literal a field can be compared with. *)
ValueFits(field, tok) ==
    \/ field \in MacFields /\ tok.type = "MAC"
    \/ field \in IPv4Fields /\ tok.type = "IPV4"
    \/ field \in IPv6Fields /\ tok.type = "IPV6"
    \/ field \in PortFields /\ tok.type = "NUMBER" /\ tok.value[1] <= 65535

parse_primitive(p) ==
    LET field == p_peek(p)
        op == p_peek(p_advance(p, 1))
        value == p_peek(p_advance(p, 2))
        q == mk_node(p_advance(p, 3), [kind |-> "cmp", field |-> field.field, cmp |-> op.type,
                                       value |-> value.value])
    IN  IF field.type # "FIELD" \/ op.type \notin {"==", "!="} THEN Fail(p, "rejected")
        ELSE IF ValueFits(field.field, value) THEN q ELSE Fail(q, "rejected")

RECURSIVE parse_expr(_), parse_not(_), AndTail(_), OrTail(_)

parse_not(p) ==
    CASE p_peek(p).type = "not" ->
             LET operand == parse_not(p_advance(p, 1))
             IN  mk_node(operand, [kind |-> "not", left |-> operand.node])
      [] p_peek(p).type = "(" ->
             LET inner == parse_expr(p_advance(p, 1))
             IN  IF p_peek(inner).type = ")" THEN p_advance(inner, 1) ELSE Fail(inner, "rejected")
      [] OTHER -> parse_primitive(p)

(* The loops of parse_and() and parse_expr(), with the left operand read. *)
AndTail(left) ==
    IF left.error # "" \/ p_peek(left).type # "and" THEN left
    ELSE LET right == parse_not(p_advance(left, 1))
         IN  AndTail(mk_node(right, [kind |-> "and", left |-> left.node, right |-> right.node]))

parse_and(p) == AndTail(parse_not(p))

OrTail(left) ==
    IF left.error # "" \/ p_peek(left).type # "or" THEN left
    ELSE LET right == parse_and(p_advance(left, 1))
         IN  OrTail(mk_node(right, [kind |-> "or", left |-> left.node, right |-> right.node]))

parse_expr(p) == OrTail(parse_and(p))

Parse ==
    LET p == parse_expr([pos |-> 1, count |-> 0, node |-> Nothing, error |-> ""])
        end == IF p_peek(p).type = "END" THEN p ELSE Fail(p, "rejected")
    IN  /\ stage = "parse"
        /\ stage' = IF end.error = "" THEN "compiled" ELSE end.error
        /\ root' = IF end.error = "" THEN end.node ELSE root
        /\ toks' = <<>>
        /\ UNCHANGED <<input, packet>>

-----------------------------------------------------------------------------
(* Evaluator *)

Layers == {"eth", "ip", "ipv6", "tcp", "udp"}

Layer(field) ==
    CASE field \in MacFields -> "eth"
      [] field \in IPv4Fields -> "ip"
      [] field \in IPv6Fields -> "ipv6"
      [] field \in TCPFields -> "tcp"
      [] field \in UDPFields -> "udp"

SourceFields == {"eth.src", "ip.src", "ipv6.src", "tcp.srcport", "udp.srcport"}
DestinationFields == {"eth.dst", "ip.dst", "ipv6.dst", "tcp.dstport", "udp.dstport"}

(* dispfilter_fields_t as print_packet() fills it: all zero, then for each *)
(* layer it has parsed the flag (Ethernet has none) and the two values.    *)
ZeroOf == [eth |-> Zeros(6), ip |-> Zeros(4), ipv6 |-> Zeros(8), tcp |-> Zeros(1), udp |-> Zeros(1)]

Filled(p) ==
    [has |-> {l \in Layers \ {"eth"} : p[l] # <<>>},
     src |-> [l \in Layers |-> IF p[l] = <<>> THEN ZeroOf[l] ELSE p[l][1]],
     dst |-> [l \in Layers |-> IF p[l] = <<>> THEN ZeroOf[l] ELSE p[l][2]]]

(* Fault: the has_* flag of the layer is not looked at. *)
EvalCmpUnguarded(n, f) ==
    LET l == Layer(n.field)
        eq == \/ n.field \notin DestinationFields /\ f.src[l] = n.value
              \/ n.field \notin SourceFields /\ f.dst[l] = n.value
    IN  IF n.cmp = "==" THEN eq ELSE ~eq

eval_cmp(n, f) ==
    LET l == Layer(n.field)
        eq == /\ l = "eth" \/ l \in f.has
              /\ \/ n.field \notin DestinationFields /\ f.src[l] = n.value
                 \/ n.field \notin SourceFields /\ f.dst[l] = n.value
    IN  IF n.cmp = "==" THEN eq ELSE ~eq

RECURSIVE eval_node(_, _)
eval_node(n, f) ==
    CASE n.kind = "and" -> eval_node(n.left, f) /\ eval_node(n.right, f)
      [] n.kind = "or" -> eval_node(n.left, f) \/ eval_node(n.right, f)
      [] n.kind = "not" -> ~eval_node(n.left, f)
      [] n.kind = "cmp" -> eval_cmp(n, f)

dispfilter_matches(f) == root = Nothing \/ eval_node(root, f)

(* print_packet() parses a packet and applies the filter to its fields. *)
Match(p) ==
    /\ stage = "compiled"
    /\ packet' = p
    /\ stage' = IF dispfilter_matches(Filled(p)) THEN "shown" ELSE "hidden"
    /\ UNCHANGED <<input, toks, root>>

Done == stage \in {"nomem", "rejected", "too_large", "shown", "hidden"} /\ UNCHANGED vars

Next == Alloc \/ LexWord \/ LexEnd \/ Parse \/ (\E p \in Packets : Match(p)) \/ Done

Spec == Init /\ [][Next]_vars

-----------------------------------------------------------------------------
(* What an expression means, stated without a parser (see ExprGrammar). *)

(* An IPv6 literal writes l groups, "::" and r groups. *)
Compressed(groups, l, r) ==
    /\ Len(groups) = Max({l, 1}) + 1 + Max({r, 1})
    /\ \A i \in DOMAIN groups :
           IF i <= l \/ i > Len(groups) - r THEN groups[i].digits \in 1 .. 4 ELSE groups[i] = NoGroup

(* The addresses an IPv6 literal denotes (RFC 4291, 2.2): written in full, *)
(* or with one run of zero groups left out.                                *)
IPv6Denoted(groups) ==
    {[n \in 1 .. 8 |-> groups[n].value] :
        full \in {x \in {TRUE} : Len(groups) = 8 /\ \A i \in 1 .. 8 : groups[i].digits \in 1 .. 4}}
    \cup
    {[n \in 1 .. 8 |-> IF n <= lr[1] THEN groups[n].value
                       ELSE IF n > 8 - lr[2] THEN groups[Len(groups) - (8 - n)].value
                       ELSE 0] :
        lr \in {x \in (0 .. 7) \X (0 .. 7) : x[1] + x[2] <= 7 /\ Compressed(groups, x[1], x[2])}}

(* The values a word can denote where a value of a layer is expected. *)
Denoted(layer, word) ==
    CASE layer = "eth" ->
             {[i \in 1 .. 6 |-> g[i].value] :
                 g \in {x \in {word.groups} : Len(x) = 6 /\ \A i \in 1 .. 6 : x[i].digits = 2}}
      [] layer = "ip" -> {p \in {word.dotted} : Len(p) = 4 /\ \A i \in 1 .. 4 : p[i] \in 0 .. 255}
      [] layer = "ipv6" -> IPv6Denoted(word.groups)
      [] OTHER -> {p \in {word.dotted} : Len(p) = 1 /\ p[1] \in 0 .. 65535}

Primitive(words) ==
    IF Len(words) = 3 /\ words[1].text \in Fields /\ words[2].text \in {"==", "!="}
    THEN {[kind |-> "cmp", field |-> words[1].text, cmp |-> words[2].text, value |-> v] :
             v \in Denoted(Layer(words[1].text), words[3])}
    ELSE {}

WordType(word) == TokenType(word.text)
Grammar == INSTANCE ExprGrammar WITH TypeOf <- WordType, Primitive <- Primitive
Expressions(words) == Grammar!Expressions(words)

(* The values of a field that a packet carries. *)
Carried(field, p) ==
    LET pair == p[Layer(field)]
    IN  {pair[i] : i \in {j \in DOMAIN pair : field \notin (IF j = 1 THEN DestinationFields ELSE SourceFields)}}

(* The truth values an expression may have.  Comparisons with a layer that *)
(* is absent are left open where code and comments disagree: != (see       *)
(* AbsentFieldIsFalse), and the Ethernet fields, which have no flag.       *)
RECURSIVE Meaning(_, _)
Meaning(e, p) ==
    CASE e.kind = "or" -> {a \/ b : a \in Meaning(e.left, p), b \in Meaning(e.right, p)}
      [] e.kind = "and" -> {a /\ b : a \in Meaning(e.left, p), b \in Meaning(e.right, p)}
      [] e.kind = "not" -> {~a : a \in Meaning(e.left, p)}
      [] e.kind = "cmp" ->
             IF Carried(e.field, p) = {} /\ (e.cmp = "!=" \/ Layer(e.field) = "eth") THEN BOOLEAN
             ELSE {(e.value \in Carried(e.field, p)) = (e.cmp = "==")}

-----------------------------------------------------------------------------
(* Properties *)

(* Types of the state; no compilation uses more tokens or nodes than there  *)
(* is room for (dispfilter.c:9-10).                                         *)
RECURSIVE Size(_)
Size(n) ==
    CASE n.kind \in {"and", "or"} -> 1 + Size(n.left) + Size(n.right)
      [] n.kind = "not" -> 1 + Size(n.left)
      [] n.kind = "cmp" -> 1
      [] OTHER -> 0

TypeOK ==
    /\ stage \in {"alloc", "nomem", "lex", "parse", "compiled", "rejected", "too_large", "shown", "hidden"}
    /\ Len(toks) <= MaxTokens + 1
    /\ Size(root) <= MaxNodes

(* A packet is shown only if the expression can be true of it, and hidden   *)
(* only if it can be false: precedence, the two sides of addr and port, and *)
(* zeroed fields of absent layers that must not match (dispfilter.c:577-726 *)
(* against dispfilter.h:31-50).                                             *)
ShownMeansExpression ==
    \A e \in IF stage \in {"shown", "hidden"} THEN Expressions(input) ELSE {} :
        (stage = "shown") \in Meaning(e, packet)

(* dispfilter_compile() takes exactly the expressions of the grammar in     *)
(* dispfilter.h:31-41, with literals that denote an address or a port, and  *)
(* the filter is the tree of the expression, unless it is too large         *)
(* (dispfilter.c:126-278, 504-642).  With exactly DF_MAX_TOKENS tokens the  *)
(* end marker is lost, as in CapFilter.                                     *)
AcceptsTheGrammar ==
    /\ stage = "rejected" /\ Len(input) # MaxTokens => Expressions(input) = {}
    /\ stage = "compiled" /\ input # <<>> => Expressions(input) = {root}

(* "A field that doesn't apply to a given packet [...] simply evaluates to  *)
(* false" (dispfilter.h:45-46): a packet without the layer of a comparison  *)
(* is not shown by it (dispfilter.c:711).                                   *)
AbsentFieldIsFalse ==
    stage = "shown" => \A e \in Expressions(input) : e.kind = "cmp" => Carried(e.field, packet) # {}
=============================================================================
