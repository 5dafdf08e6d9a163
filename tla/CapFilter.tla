------------------------------ MODULE CapFilter ------------------------------
(***************************************************************************)
(* The capture filter (src/c/capfilter.c): an expression goes through the  *)
(* lexer word by word, through the recursive-descent parser and through    *)
(* the code generator with its backpatching; the BPF program that comes    *)
(* out runs on a frame, one instruction per step.                          *)
(*                                                                         *)
(* A word of the expression is a keyword or an operator, or it starts with *)
(* a digit: then it is the numbers between its dots.  Spelling is not      *)
(* modelled.  A frame is its bytes.  A 32-bit value is a pair of 16-bit    *)
(* halves, since TLC's integers are too short for it.                      *)
(***************************************************************************)
EXTENDS Integers, Sequences, FiniteSetsExt, Bitwise

CONSTANTS
    Inputs,     \* the expressions: sequences of words
    Frames,     \* the frames: sequences of bytes
    MaxTokens,  \* CF_MAX_TOKENS
    MaxNodes,   \* CF_MAX_NODES
    MaxInsns,   \* CF_MAX_INSNS
    MaxJump     \* the largest value of jt and jf, which are one byte wide

VARIABLES
    stage,      \* what capfilter_compile(), and then the kernel, is at
    input,      \* the expression
    toks,       \* cf_ctx_t.toks
    root,       \* the AST
    insns,      \* the program
    frame, pc, A, X  \* the frame the program runs on and the machine's registers

vars == <<stage, input, toks, root, insns, frame, pc, A, X>>

Nothing == [kind |-> "NULL"]

Init ==
    /\ stage = "lex"
    /\ input \in Inputs
    /\ toks = <<>>
    /\ root = Nothing
    /\ insns = <<>>
    /\ frame = <<>>
    /\ pc = 0
    /\ A = <<0, 0>>
    /\ X = 0

-----------------------------------------------------------------------------
(* Lexer *)

Keyword(text) == [text |-> text, parts |-> <<>>]
Dotted(parts) == [text |-> "", parts |-> parts]

NoDigits == -1   \* nothing between two dots
TooBig == -2     \* more than 32 bits

Keywords ==
    {"(", ")", "/", "not", "!", "and", "&&", "or", "||", "src", "dst", "host", "port", "net",
     "tcp", "udp", "icmp", "ip", "ip6", "arp"}

TokenType(text) ==
    CASE text = "!" -> "not"
      [] text = "&&" -> "and"
      [] text = "||" -> "or"
      [] OTHER -> text

parse_ipv4_word(parts) == Len(parts) = 4 /\ \A i \in 1 .. 4 : parts[i] \in 0 .. 255

(* What the lexer makes of a word: no token if it is in error. *)
Lexed(word) ==
    CASE word.text \in Keywords -> {[type |-> TokenType(word.text), num |-> 0, addr |-> <<>>]}
      [] word.text = "" /\ parse_ipv4_word(word.parts) ->
             {[type |-> "IPV4", num |-> 0, addr |-> word.parts]}
      [] word.text = "" /\ Len(word.parts) = 1 /\ word.parts[1] >= 0 ->
             {[type |-> "NUMBER", num |-> word.parts[1], addr |-> <<>>]}
      [] OTHER -> {}

LexWord ==
    /\ stage = "lex"
    /\ Len(toks) < Len(input)
    /\ \/ /\ Len(toks) < MaxTokens
          /\ \E tok \in Lexed(input[Len(toks) + 1]) : toks' = Append(toks, tok)
          /\ UNCHANGED stage
       \/ /\ Len(toks) < MaxTokens
          /\ Lexed(input[Len(toks) + 1]) = {}
          /\ stage' = "rejected"
          /\ UNCHANGED toks
       \/ /\ Len(toks) >= MaxTokens
          /\ stage' = "too_large"
          /\ UNCHANGED toks
    /\ UNCHANGED <<input, root, insns, frame, pc, A, X>>

(* TOK_END goes behind the last token.  Behind a full array that is where  *)
(* n_toks is stored, and incrementing n_toks replaces it: by 1, which is   *)
(* TOK_LPAREN, or by a value that is no token type.                        *)
EndTokens == IF Len(toks) < MaxTokens THEN {"END"} ELSE {"(", "none"}

LexEnd ==
    /\ stage = "lex"
    /\ Len(toks) = Len(input)
    /\ stage' = "parse"
    /\ \E end \in EndTokens : toks' = Append(toks, [type |-> end, num |-> 0, addr |-> <<>>])
    /\ UNCHANGED <<input, root, insns, frame, pc, A, X>>

-----------------------------------------------------------------------------
(* AST *)

AndNode(l, r) == [kind |-> "AND", left |-> l, right |-> r]
OrNode(l, r) == [kind |-> "OR", left |-> l, right |-> r]
NotNode(l) == [kind |-> "NOT", left |-> l]
EtherType(k) == [kind |-> "ETHERTYPE", k |-> k]
IpProto(k) == [kind |-> "IPPROTO", k |-> k]
Host(dir, addr) == [kind |-> "HOST", dir |-> dir, addr |-> addr]
Port(dir, k) == [kind |-> "PORT", dir |-> dir, k |-> k]
Net(dir, addr, len) == [kind |-> "NET", dir |-> dir, addr |-> addr, prefix_len |-> len]

IPv4 == 2048
IPv6 == 34525
ARP == 2054
ICMP == 1
TCP == 6
UDP == 17

mk_l4_proto(proto) == AndNode(EtherType(IPv4), IpProto(proto))

-----------------------------------------------------------------------------
(* Parser.  It is at token pos, has built count nodes, and node is what the *)
(* last production returned.  The first error is the one that is reported:  *)
(* the expression is "rejected", or it is "too_large" for the compiler.     *)

Fail(p, error) == IF p.error = "" THEN [p EXCEPT !.error = error] ELSE p

p_peek(p) ==
    IF p.pos <= Len(toks) THEN toks[p.pos] ELSE [type |-> "none", num |-> 0, addr |-> <<>>]

p_advance(p, n) == [p EXCEPT !.pos = @ + n]

(* A node is made, together with count - 1 nodes below it. *)
mk_node(p, node, count) ==
    IF p.error # "" \/ p.count + count > MaxNodes THEN Fail(p, "too_large")
    ELSE [p EXCEPT !.node = node, !.count = @ + count]

parse_primitive(p) ==
    LET has_dir == p_peek(p).type \in {"src", "dst"}
        q == IF has_dir THEN p_advance(p, 1) ELSE p
        word(i) == p_peek(p_advance(q, i))
        type == word(0).type
        InDir(Leaf(_)) == IF has_dir THEN Leaf(p_peek(p).type) ELSE OrNode(Leaf("src"), Leaf("dst"))
        extra == IF has_dir THEN 0 ELSE 2
    IN  CASE type = "tcp" /\ ~has_dir -> mk_node(p_advance(q, 1), mk_l4_proto(TCP), 3)
          [] type = "udp" /\ ~has_dir -> mk_node(p_advance(q, 1), mk_l4_proto(UDP), 3)
          [] type = "icmp" /\ ~has_dir -> mk_node(p_advance(q, 1), mk_l4_proto(ICMP), 3)
          [] type = "ip" /\ ~has_dir -> mk_node(p_advance(q, 1), EtherType(IPv4), 1)
          [] type = "ip6" /\ ~has_dir -> mk_node(p_advance(q, 1), EtherType(IPv6), 1)
          [] type = "arp" /\ ~has_dir -> mk_node(p_advance(q, 1), EtherType(ARP), 1)
          [] type = "host" /\ word(1).type = "IPV4" ->
                 LET Leaf(dir) == Host(dir, word(1).addr)
                 IN  mk_node(p_advance(q, 2), AndNode(EtherType(IPv4), InDir(Leaf)), 3 + extra)
          [] type = "port" /\ word(1).type = "NUMBER" /\ word(1).num <= 65535 ->
                 LET Leaf(dir) == Port(dir, word(1).num)
                     is_tcp_or_udp == OrNode(IpProto(TCP), IpProto(UDP))
                 IN  mk_node(p_advance(q, 2),
                             AndNode(EtherType(IPv4), AndNode(is_tcp_or_udp, InDir(Leaf))),
                             7 + extra)
          [] type = "net" /\ word(1).type = "IPV4" /\ word(2).type = "/"
                 /\ word(3).type = "NUMBER" /\ word(3).num <= 32 ->
                 LET Leaf(dir) == Net(dir, word(1).addr, word(3).num)
                 IN  mk_node(p_advance(q, 4), AndNode(EtherType(IPv4), InDir(Leaf)), 3 + extra)
          [] OTHER -> Fail(q, "rejected")

RECURSIVE parse_expr(_), parse_not(_), AndTail(_), OrTail(_)

(* Fault: a missing ')' is not noticed. *)
ParseNotUnclosed(p) ==
    CASE p_peek(p).type = "not" ->
             LET operand == parse_not(p_advance(p, 1)) IN mk_node(operand, NotNode(operand.node), 1)
      [] p_peek(p).type = "(" ->
             LET inner == parse_expr(p_advance(p, 1))
             IN  IF p_peek(inner).type = ")" THEN p_advance(inner, 1) ELSE inner
      [] OTHER -> parse_primitive(p)

parse_not(p) ==
    CASE p_peek(p).type = "not" ->
             LET operand == parse_not(p_advance(p, 1)) IN mk_node(operand, NotNode(operand.node), 1)
      [] p_peek(p).type = "(" ->
             LET inner == parse_expr(p_advance(p, 1))
             IN  IF p_peek(inner).type = ")" THEN p_advance(inner, 1) ELSE Fail(inner, "rejected")
      [] OTHER -> parse_primitive(p)

(* The loops of parse_and() and parse_expr(), with the left operand read. *)
AndTail(left) ==
    IF left.error # "" \/ p_peek(left).type # "and" THEN left
    ELSE LET right == parse_not(p_advance(left, 1))
         IN  AndTail(mk_node(right, AndNode(left.node, right.node), 1))

parse_and(p) == AndTail(parse_not(p))

OrTail(left) ==
    IF left.error # "" \/ p_peek(left).type # "or" THEN left
    ELSE LET right == parse_and(p_advance(left, 1))
         IN  OrTail(mk_node(right, OrNode(left.node, right.node), 1))

parse_expr(p) == OrTail(parse_and(p))

Parse ==
    LET p == parse_expr([pos |-> 1, count |-> 0, node |-> Nothing, error |-> ""])
        end == IF p_peek(p).type = "END" THEN p ELSE Fail(p, "rejected")
    IN  /\ stage = "parse"
        /\ \/ /\ end.error = ""
              /\ stage' = "codegen"
              /\ root' = end.node
           \/ /\ end.error # ""
              /\ stage' = end.error
              /\ UNCHANGED root
        /\ UNCHANGED <<input, toks, insns, frame, pc, A, X>>

-----------------------------------------------------------------------------
(* Code generator.  g is the program so far; a patch list is the set of the *)
(* jumps, <<instruction, field>>, that wait for their target.               *)

Half(n) == <<0, n>>

(* Fault: the array of instructions has no end. *)
GenPushUnbounded(g, code, k) ==
    [g EXCEPT !.insns = Append(@, [code |-> code, jt |-> 0, jf |-> 0, k |-> k])]

gen_push(g, code, k) ==
    IF g.failed \/ Len(g.insns) >= MaxInsns THEN [g EXCEPT !.failed = TRUE]
    ELSE [g EXCEPT !.insns = Append(@, [code |-> code, jt |-> 0, jf |-> 0, k |-> k])]

Patched(g, pl, target) ==
    LET Patch(e, program) == [program EXCEPT ![e[1]][e[2]] = (target - e[1]) % (MaxJump + 1)]
    IN  [g EXCEPT !.insns = FoldSet(Patch, @, pl)]

(* Fault: a jump that is too far is cut to one byte. *)
ResolveUnchecked(g, pl, target) == Patched(g, pl, target)

(* Fault: jumps are counted from the jump and not from what follows it. *)
ResolveFromJump(g, pl, target) == Patched(g, pl, target + 1)

(* The jumps in pl go to instruction number target, counted from 0; they   *)
(* are relative to the next instruction and must fit into one byte.        *)
pl_resolve(g, pl, target) ==
    IF g.failed \/ \E e \in pl : target - e[1] \notin 0 .. MaxJump THEN [g EXCEPT !.failed = TRUE]
    ELSE Patched(g, pl, target)

addr_to_u32(a) == <<256 * a[1] + a[2], 256 * a[3] + a[4]>>

Mask16(n) == IF n <= 0 THEN 0 ELSE IF n >= 16 THEN 65535 ELSE 65536 - 2 ^ (16 - n)
prefix_mask(len) == <<Mask16(len), Mask16(len - 16)>>
Masked(w, m) == <<w[1] & m[1], w[2] & m[2]>>

Offset(dir) == IF dir = "src" THEN 26 ELSE 30

RECURSIVE EmitAll(_, _)
EmitAll(g, load) ==
    IF load = <<>> THEN g ELSE EmitAll(gen_push(g, Head(load)[1], Head(load)[2]), Tail(load))

(* The loads of a field and the comparison with k, both of whose jumps are *)
(* still open.                                                             *)
emit_leaf(g, load, k) ==
    LET h == gen_push(EmitAll(g, load), "jeq", k)
    IN  [g |-> h, t |-> {<<Len(h.insns), "jt">>}, f |-> {<<Len(h.insns), "jf">>}]

Leaf(g, n) ==
    CASE n.kind = "ETHERTYPE" -> emit_leaf(g, <<<<"ldh_abs", Half(12)>>>>, Half(n.k))
      [] n.kind = "IPPROTO" -> emit_leaf(g, <<<<"ldb_abs", Half(23)>>>>, Half(n.k))
      [] n.kind = "HOST" -> emit_leaf(g, <<<<"ldw_abs", Half(Offset(n.dir))>>>>, addr_to_u32(n.addr))
      [] n.kind = "NET" ->
             LET mask == prefix_mask(n.prefix_len)
             IN  emit_leaf(g, <<<<"ldw_abs", Half(Offset(n.dir))>>, <<"and", mask>>>>,
                           Masked(addr_to_u32(n.addr), mask))
      [] n.kind = "PORT" ->
             emit_leaf(g, <<<<"ldx_msh", Half(14)>>,
                            <<"ldh_ind", Half(IF n.dir = "src" THEN 14 ELSE 16)>>>>, Half(n.k))

RECURSIVE compile_node(_, _)

(* A true left operand of an AND, a false one of an OR, falls through to   *)
(* the right one; NOT exchanges the two lists.                             *)
compile_node(g, n) ==
    IF g.failed THEN [g |-> g, t |-> {}, f |-> {}] ELSE
    CASE n.kind = "NOT" -> LET c == compile_node(g, n.left) IN [c EXCEPT !.t = c.f, !.f = c.t]
      [] n.kind = "AND" ->
             LET l == compile_node(g, n.left)
                 r == compile_node(pl_resolve(l.g, l.t, Len(l.g.insns)), n.right)
             IN  [r EXCEPT !.f = @ \cup l.f]
      [] n.kind = "OR" ->
             LET l == compile_node(g, n.left)
                 r == compile_node(pl_resolve(l.g, l.f, Len(l.g.insns)), n.right)
             IN  [r EXCEPT !.t = @ \cup l.t]
      [] OTHER -> Leaf(g, n)

CF_ACCEPT_LEN == 65535

(* Both lists of the root are resolved to the two returns at the end; when *)
(* capfilter_compile() returns, tokens and AST are gone.  The last thing   *)
(* that can fail is the allocation of the program it returns.              *)
Codegen ==
    LET c == compile_node([insns |-> <<>>, failed |-> FALSE], root)
        accepting == gen_push(pl_resolve(c.g, c.t, Len(c.g.insns)), "ret", Half(CF_ACCEPT_LEN))
        g == gen_push(pl_resolve(accepting, c.f, Len(accepting.insns)), "ret", Half(0))
    IN  /\ stage = "codegen"
        /\ stage' \in IF g.failed THEN {"too_large"} ELSE {"compiled", "nomem"}
        /\ insns' = IF stage' = "compiled" THEN g.insns ELSE <<>>
        /\ toks' = <<>>
        /\ root' = Nothing
        /\ UNCHANGED <<input, frame, pc, A, X>>

-----------------------------------------------------------------------------
(* The BPF machine *)

Byte(f, off) == f[off + 1]
Holds(f, off, width) == off + width <= Len(f)

load_u(f, off, width) ==
    CASE width = 4 -> <<256 * Byte(f, off) + Byte(f, off + 1), 256 * Byte(f, off + 2) + Byte(f, off + 3)>>
      [] width = 2 -> Half(256 * Byte(f, off) + Byte(f, off + 1))
      [] width = 1 -> Half(Byte(f, off))

(* A frame arrives at the socket the program is attached to. *)
FrameArrives ==
    /\ stage = "compiled"
    /\ frame' \in Frames
    /\ stage' = "run"
    /\ UNCHANGED <<input, toks, root, insns, pc, A, X>>

Insn == insns[pc + 1]

Width == CASE Insn.code = "ldw_abs" -> 4
           [] Insn.code \in {"ldh_abs", "ldh_ind"} -> 2
           [] OTHER -> 1

(* A load; one from outside the frame ends the program and rejects it. *)
Load ==
    LET off == Insn.k[2] + (IF Insn.code = "ldh_ind" THEN X ELSE 0)
    IN  /\ stage = "run"
        /\ Insn.code \in {"ldw_abs", "ldh_abs", "ldb_abs", "ldh_ind", "ldx_msh"}
        /\ \/ /\ ~Holds(frame, off, Width)
              /\ stage' = "drop"
              /\ UNCHANGED <<pc, A, X>>
           \/ /\ Holds(frame, off, Width)
              /\ pc' = pc + 1
              /\ IF Insn.code = "ldx_msh" THEN /\ X' = 4 * (Byte(frame, off) % 16)
                                               /\ UNCHANGED A
                 ELSE A' = load_u(frame, off, Width) /\ UNCHANGED X
              /\ UNCHANGED stage
        /\ UNCHANGED <<input, toks, root, insns, frame>>

Mask ==
    /\ stage = "run"
    /\ Insn.code = "and"
    /\ A' = Masked(A, Insn.k)
    /\ pc' = pc + 1
    /\ UNCHANGED <<stage, input, toks, root, insns, frame, X>>

Jump ==
    /\ stage = "run"
    /\ Insn.code = "jeq"
    /\ pc' = pc + 1 + (IF A = Insn.k THEN Insn.jt ELSE Insn.jf)
    /\ UNCHANGED <<stage, input, toks, root, insns, frame, A, X>>

Return ==
    /\ stage = "run"
    /\ Insn.code = "ret"
    /\ stage' = IF Insn.k = Half(0) THEN "drop" ELSE "pass"
    /\ UNCHANGED <<input, toks, root, insns, frame, pc, A, X>>

Done == stage \in {"rejected", "too_large", "nomem", "drop", "pass"} /\ UNCHANGED vars

Next ==
    \/ LexWord \/ LexEnd \/ Parse \/ Codegen
    \/ FrameArrives \/ Load \/ Mask \/ Jump \/ Return
    \/ Done

Spec == Init /\ [][Next]_vars

-----------------------------------------------------------------------------
(* What an expression means, stated without a parser (see ExprGrammar). *)

WordType(word) == TokenType(word.text)

IsAddr(word) == word.text = "" /\ Len(word.parts) = 4 /\ \A i \in 1 .. 4 : word.parts[i] \in 0 .. 255
IsNumber(word, max) == word.text = "" /\ Len(word.parts) = 1 /\ word.parts[1] \in 0 .. max

(* The primitives: a protocol, or host, port or net in a direction. *)
Primitive(words) ==
    LET ts == [i \in DOMAIN words |-> WordType(words[i])]
        dirs == IF ts[1] \in {"src", "dst"} THEN {ts[1]} ELSE {"src", "dst"}
        w == IF ts[1] \in {"src", "dst"} THEN Tail(words) ELSE words
    IN  CASE Len(words) = 1 /\ ts[1] \in {"tcp", "udp", "icmp", "ip", "ip6", "arp"} ->
                 {[kind |-> ts[1]]}
          [] Len(w) = 2 /\ w[1].text = "host" /\ IsAddr(w[2]) ->
                 {[kind |-> "net", dirs |-> dirs, addr |-> w[2].parts, bits |-> 32]}
          [] Len(w) = 4 /\ w[1].text = "net" /\ IsAddr(w[2]) /\ w[3].text = "/" /\ IsNumber(w[4], 32) ->
                 {[kind |-> "net", dirs |-> dirs, addr |-> w[2].parts, bits |-> w[4].parts[1]]}
          [] Len(w) = 2 /\ w[1].text = "port" /\ IsNumber(w[2], 65535) ->
                 {[kind |-> "port", dirs |-> dirs, port |-> w[2].parts[1]]}
          [] OTHER -> {}

Grammar == INSTANCE ExprGrammar WITH TypeOf <- WordType, Primitive <- Primitive
Expressions(words) == Grammar!Expressions(words)

(* Whether width bytes at off have a value that satisfies Is: not known if *)
(* the frame is too short to hold them.                                    *)
Is(f, off, width, value) == IF Holds(f, off, width) THEN {load_u(f, off, width) = value} ELSE BOOLEAN

Both(P, Q) == {p /\ q : p \in P, q \in Q}
Either(P, Q) == {p \/ q : p \in P, q \in Q}

Bit(octets, i) == (octets[((i - 1) \div 8) + 1] \div 2 ^ (7 - ((i - 1) % 8))) % 2

InNet(f, off, addr, bits) ==
    IF Holds(f, off, 4)
    THEN {\A i \in 1 .. bits : Bit(addr, i) = Bit(SubSeq(f, off + 1, off + 4), i)}
    ELSE BOOLEAN

(* The port of an IPv4 packet lies behind a header of variable length. *)
AtPort(f, dir, port) ==
    IF ~Holds(f, 14, 1) THEN BOOLEAN
    ELSE Is(f, 14 + 4 * (Byte(f, 14) % 16) + (IF dir = "src" THEN 0 ELSE 2), 2, Half(port))

(* The truth values an expression can have, given the bytes of the frame   *)
(* that are there.                                                         *)
RECURSIVE Meaning(_, _)
Meaning(e, f) ==
    LET ipv4 == Is(f, 12, 2, Half(IPv4))
        Proto(n) == Both(ipv4, Is(f, 23, 1, Half(n)))
        Some(P(_)) == IF e.dirs = {"src", "dst"} THEN Either(P("src"), P("dst"))
                      ELSE P(CHOOSE d \in e.dirs : TRUE)
    IN  CASE e.kind = "or" -> Either(Meaning(e.left, f), Meaning(e.right, f))
          [] e.kind = "and" -> Both(Meaning(e.left, f), Meaning(e.right, f))
          [] e.kind = "not" -> {~b : b \in Meaning(e.left, f)}
          [] e.kind = "ip" -> ipv4
          [] e.kind = "ip6" -> Is(f, 12, 2, Half(IPv6))
          [] e.kind = "arp" -> Is(f, 12, 2, Half(ARP))
          [] e.kind = "tcp" -> Proto(TCP)
          [] e.kind = "udp" -> Proto(UDP)
          [] e.kind = "icmp" -> Proto(ICMP)
          [] e.kind = "net" ->
                 LET P(d) == InNet(f, Offset(d), e.addr, e.bits) IN Both(ipv4, Some(P))
          [] e.kind = "port" ->
                 LET P(d) == AtPort(f, d, e.port) IN Both(Either(Proto(TCP), Proto(UDP)), Some(P))

-----------------------------------------------------------------------------
(* Properties *)

(* Types of the state; the program counter stays inside the program. *)
TypeOK ==
    /\ stage \in {"lex", "parse", "codegen", "compiled", "run", "rejected", "too_large",
                  "nomem", "drop", "pass"}
    /\ Len(toks) <= Len(input) + 1
    /\ Len(insns) <= MaxInsns
    /\ \A i \in DOMAIN insns : {insns[i].jt, insns[i].jf} \subseteq 0 .. MaxJump
    /\ pc \in 0 .. Len(insns)
    /\ stage = "run" => pc < Len(insns)
    /\ A[1] \in 0 .. 65535 /\ A[2] \in 0 .. 65535
    /\ X \in 0 .. 60

(* Ethernet, the longest IPv4 header and the ports. *)
AllHeaders == 14 + 60 + 4

(* The program does what the expression says: a frame that passes satisfies *)
(* it whatever the bytes cut off from it were, and a frame that is long     *)
(* enough and satisfies it passes (capfilter.c:385-728 against the language *)
(* of capfilter.h:28-43).                                                   *)
ProgramMeansExpression ==
    \A e \in IF stage \in {"drop", "pass"} THEN Expressions(input) ELSE {} :
        /\ stage = "pass" => Meaning(e, frame) = {TRUE}
        /\ stage = "drop" /\ Len(frame) >= AllHeaders => Meaning(e, frame) = {FALSE}

(* capfilter_compile() takes exactly the expressions of the grammar in      *)
(* capfilter.h:28-36 unless they are too large: precedence, parentheses,    *)
(* trailing words, ranges of numbers (capfilter.c:385-544).  Expressions of *)
(* exactly CF_MAX_TOKENS tokens are left to MaxTokensAreAccepted.           *)
AcceptsTheGrammar ==
    /\ stage = "rejected" /\ Len(input) # MaxTokens => Expressions(input) = {}
    /\ stage = "compiled" => Expressions(input) # {}

(* The kernel takes every program that is made: it refuses one whose jumps  *)
(* leave the program or that does not end in a return (capfilter.c:588-605, *)
(* 763-785).                                                                *)
KernelTakesProgram ==
    stage = "compiled" =>
        /\ insns[Len(insns)].code = "ret"
        /\ \A i \in DOMAIN insns :
               insns[i].code = "jeq" => \A j \in {insns[i].jt, insns[i].jf} : i + j < Len(insns)

(* "max tokens in one expression" (capfilter.c:8): an expression of the     *)
(* grammar with that many tokens is not refused.                            *)
MaxTokensAreAccepted == stage = "rejected" /\ Len(input) <= MaxTokens => Expressions(input) = {}
=============================================================================
