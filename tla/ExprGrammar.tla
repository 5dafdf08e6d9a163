----------------------------- MODULE ExprGrammar -----------------------------
(***************************************************************************)
(* The grammar that capfilter.h and dispfilter.h give for their languages, *)
(*                                                                         *)
(*   or_expr  := and_expr ('or' and_expr)*                                 *)
(*   and_expr := not_expr ('and' not_expr)*                                *)
(*   not_expr := 'not' not_expr | '(' or_expr ')' | primitive              *)
(*                                                                         *)
(* as a definition that does not parse: an expression is split at the last *)
(* operator of the weakest kind outside parentheses.  The parsers of       *)
(* CapFilter and DispFilter are checked against it.                        *)
(***************************************************************************)
EXTENDS Integers, Sequences, FiniteSetsExt

CONSTANTS
    TypeOf(_),     \* the type of a word: "and", "or", "not", "(", ")" or another one
    Primitive(_)   \* the primitives a sequence of words stands for: one or none

LOCAL Types(words) == [i \in DOMAIN words |-> TypeOf(words[i])]

LOCAL Depth(ts, i) ==
    Cardinality({j \in 1 .. i - 1 : ts[j] = "("}) - Cardinality({j \in 1 .. i - 1 : ts[j] = ")"})

LOCAL Outside(ts, type) == {i \in 2 .. Len(ts) - 1 : ts[i] = type /\ Depth(ts, i) = 0}

(* The expression a sequence of words stands for; none if it is not one. *)
RECURSIVE Expressions(_)
Expressions(words) ==
    LET ts == Types(words)
        n == Len(words)
        Split(type) ==
            LET i == Max(Outside(ts, type))
            IN  {[kind |-> type, left |-> l, right |-> r] :
                    l \in Expressions(SubSeq(words, 1, i - 1)), r \in Expressions(SubSeq(words, i + 1, n))}
    IN  CASE n = 0 -> {}
          [] n > 0 /\ Outside(ts, "or") # {} -> Split("or")
          [] n > 0 /\ Outside(ts, "or") = {} /\ Outside(ts, "and") # {} -> Split("and")
          [] OTHER ->
                 IF ts[1] = "not" THEN {[kind |-> "not", left |-> e] : e \in Expressions(Tail(words))}
                 ELSE IF ts[1] = "(" /\ ts[n] = ")" /\ n > 2 THEN Expressions(SubSeq(words, 2, n - 1))
                 ELSE Primitive(words)
=============================================================================
