-------------------------------- MODULE Expr --------------------------------
(***************************************************************************)
(* Conditions and placeholders of workflow steps, src/src/expr.rs.         *)
(*                                                                         *)
(* A text is a sequence of tokens, blanks left out; its length is their    *)
(* number.  Wherever they occur, and inside a step id as well, an          *)
(* operator, a keyword with a blank on both sides, a quote, a dot and a    *)
(* "steps" are tokens: the id contains_err is <<"contains", "_err">>, and   *)
(* v1.2 is <<"v1", ".", "2">>.  "length" is a token only before a blank    *)
(* and a comparison.  What stands between these is cut alike in all texts. *)
(* Operators do not overlap, and a placeholder is one token, whatever it   *)
(* holds.  Step ids and names of variables are texts, results are          *)
(* functions from step ids to texts.                                       *)
(***************************************************************************)
EXTENDS Naturals, SequencesExt

CONSTANTS
    Place,     \* the placeholder of every step id and variable, one token
    Number     \* the value of every token that is a number

\* No placeholder is that of two names.
ASSUME PlaceAssumption ==
    \A x, y \in DOMAIN Place : Place[x] = Place[y] => x = y

Quote == "\""

\* The tokens of s left and right of an operator of n tokens at place i
Left(s, i) == SubSeq(s, 1, i - 1)
Right(s, i, n) == SubSeq(s, i + n, Len(s))

\* Place i of s is inside a string.
InString(s, i) == Cardinality({j \in 1 .. i : s[j] = Quote}) % 2 = 1

First(places) == IF places = {} THEN 0 ELSE Min(places)

\* A keyword has a blank on both sides.
FindKeyword(s, word) ==
    First({i \in 2 .. Len(s) - 1 : s[i] = word /\ ~InString(s, i)})

\* Mutant of FindOperator: it does not look for quotes.
BugFindOperator(s, op) ==
    First({i \in 1 .. Len(s) - Len(op) + 1 : SubSeq(s, i, i + Len(op) - 1) = op})

FindOperator(s, op) ==
    First({i \in 1 .. Len(s) - Len(op) + 1 :
              ~InString(s, i) /\ SubSeq(s, i, i + Len(op) - 1) = op})

\* parse_string_literal: with or without quotes
Literal(s) ==
    IF Len(s) >= 2 /\ Head(s) = Quote /\ Last(s) = Quote
    THEN SubSeq(s, 2, Len(s) - 1) ELSE s

\* resolve_reference: the result of the step whose id ends at the next dot,
\* or with the text, empty when there is none; any other text stands for
\* itself.
Resolve(s, results) ==
    LET rest == Right(s, 1, 2)
        dot  == First({i \in DOMAIN rest : rest[i] = "."})
        id   == IF dot = 0 THEN rest ELSE Left(rest, dot)
    IN  IF Len(s) >= 2 /\ s[1] = "steps" /\ s[2] = "."
        THEN IF id \in DOMAIN results THEN results[id] ELSE <<>>
        ELSE Literal(s)

Within(part, s) ==
    \E i \in 1 .. Len(s) - Len(part) + 1 : SubSeq(s, i, i + Len(part) - 1) = part

Threshold(s) == IF Len(s) = 1 /\ s[1] \in DOMAIN Number THEN Number[s[1]] ELSE 0

\* In the order in which they are looked for: ">=" is never reached.
Operators == << <<"contains">>, <<"length", ">">>, <<"length", ">", "=">>,
                <<"length", "<">>, <<"==">>, <<"!=">> >>

EvaluateComparison(s, results) ==
    LET found == {n \in DOMAIN Operators : FindOperator(s, Operators[n]) # 0}
        op    == Operators[Min(found)]
        at    == FindOperator(s, op)
        left  == Resolve(Left(s, at), results)
        right == Right(s, at, Len(op))
    IN  IF found = {} THEN Resolve(s, results) # <<>>
        ELSE CASE op = <<"contains">>         -> Within(Literal(right), left)
               [] op = <<"length", ">">>      -> Len(left) > Threshold(right)
               [] op = <<"length", ">", "=">> -> Len(left) >= Threshold(right)
               [] op = <<"length", "<">>      -> Len(left) < Threshold(right)
               [] op = <<"==">>               -> left = Literal(right)
               [] op = <<"!=">>               -> left # Literal(right)

\* The condition of a step: what value says of the whole text, which it
\* gets from shorter ones.
Evaluate(s, results) ==
    LET Pieces == {t \in Seq(Range(s)) : Len(t) <= Len(s)}
        value[t \in Pieces] ==
            LET or  == FindKeyword(t, "or")
                and == FindKeyword(t, "and")
            IN  IF t = <<>> THEN TRUE
                ELSE IF or # 0 THEN value[Left(t, or)] \/ value[Right(t, or, 1)]
                ELSE IF and # 0 THEN value[Left(t, and)] /\ value[Right(t, and, 1)]
                ELSE IF Len(t) > 1 /\ Head(t) = "not" THEN ~value[Tail(t)]
                ELSE EvaluateComparison(t, results)
    IN  value[s]

\* s with the placeholder of x replaced by a text
Replaced(s, x, text) ==
    FlattenSeq([i \in DOMAIN s |-> IF s[i] = Place[x] THEN text ELSE <<s[i]>>])

\* The placeholders of a map are replaced one after the other, in the order
\* in which the map yields them.
ReplacedAll(s, order, values) ==
    LET after[n \in 0 .. Len(order)] ==
            IF n = 0 THEN s
            ELSE Replaced(after[n - 1], order[n], values[order[n]])
    IN  after[Len(order)]

\* interpolate_str: the results first, then the variables
Interpolated(s, results, order, variables, names) ==
    ReplacedAll(ReplacedAll(s, order, results), names, variables)
=============================================================================
