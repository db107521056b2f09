---------------------------- MODULE WorkflowProps ----------------------------
(***************************************************************************)
(* What a workflow promises the author of a skill.  The condition an       *)
(* author means is a disjunction of conjunctions of comparisons            *)
(* [neg, op, id, lit]; <<>> is no condition.                               *)
(***************************************************************************)
EXTENDS Workflow

CONSTANT Fragment  \* tokens between the words of the language

-----------------------------------------------------------------------------
(* How a condition is written, after the head of expr.rs, and in the       *)
(* quotes the author chose                                                 *)

Joined(texts, word) ==
    LET from[n \in 1 .. Len(texts)] ==
            IF n = Len(texts) THEN texts[n]
            ELSE texts[n] \o <<word>> \o from[n + 1]
    IN  from[1]

Reference(id) == <<"steps", ".">> \o id \o <<".", "result">>

Written(c, quote) ==
    (IF c.neg THEN <<"not">> ELSE <<>>) \o Reference(c.id) \o
       CASE c.op = "result" -> <<>>
         [] c.op = ">="     -> <<"length", ">", "=">> \o c.lit
         [] c.op \in {">", "<"} -> <<"length", c.op>> \o c.lit
         [] OTHER -> <<c.op, quote>> \o c.lit \o <<quote>>

Conjunction(cs, quote) ==
    Joined([k \in DOMAIN cs |-> Written(cs[k], quote)], "and")

Text(cond, quote) ==
    IF cond = <<>> THEN <<>>
    ELSE Joined([d \in DOMAIN cond |-> Conjunction(cond[d], quote)], "or")

-----------------------------------------------------------------------------
(* What it means                                                           *)

\* The step before step i that had this id last, if there is one
Earlier(i, id) == {j \in DOMAIN answer : j < i /\ steps[j].id = id}
Latest(i, id) == IF Earlier(i, id) = {} THEN <<>> ELSE answer[Max(Earlier(i, id))]

Holds(c, value) ==
    CASE c.op = "result"   -> value # <<>>
      [] c.op = ">"        -> Len(value) > Number[c.lit[1]]
      [] c.op = ">="       -> Len(value) >= Number[c.lit[1]]
      [] c.op = "<"        -> Len(value) < Number[c.lit[1]]
      [] c.op = "contains" -> \E p \in Prefixes(value) : IsPrefix(p \o c.lit, value)
      [] c.op = "=="       -> value = c.lit
      [] c.op = "!="       -> value # c.lit

Meant(i) ==
    LET cond == steps[i].meant
    IN  cond = <<>> \/ \E d \in DOMAIN cond : \A k \in DOMAIN cond[d] :
           Holds(cond[d][k], Latest(i, cond[d][k].id)) # cond[d][k].neg

-----------------------------------------------------------------------------
(* The skills and answers the promise is about                             *)

\* The tokens that find_keyword, find_operator and resolve_reference look for
\* inside of a condition
Words == {"or", "and", "contains", "length", "=", "==", "!=", Quote, "."}

ASSUME FragmentAssumption == Fragment \subseteq STRING \ Words

\* A step id that holds an operator, a keyword, a quote or a dot is none of
\* these: the code cuts the condition or the id in the wrong place.
Comparison ==
    {c \in [neg : BOOLEAN, op : {"result", ">", "<", "contains", "==", "!="},
            id : Seq(Fragment), lit : Seq(STRING \ {Quote})] :
       c.op \in {">", "<"} =>
          Len(c.lit) = 1 /\ c.lit[1] \in DOMAIN Number \cap Fragment}

\* Steps whose conditions are in the language at the head of expr.rs, which
\* has no "length >=" and only double quotes, with ids of fragments
Documented(skills) ==
    \A skill \in skills : \A i \in DOMAIN skill :
       /\ skill[i].meant \in Seq(Seq(Comparison) \ {<<>>})
       /\ skill[i].when = Text(skill[i].meant, Quote)

\* Texts without a placeholder
Plain(texts) ==
    \A t \in texts : \A n \in DOMAIN t, x \in DOMAIN Place : t[n] # Place[x]

-----------------------------------------------------------------------------
Decided == {i \in DOMAIN steps : i < current \/ i = active}

\* workflow.rs: "the most accuracy-critical strategy". A step runs if what
\* its condition means is true of the answers of the steps before it, and is
\* skipped otherwise, whatever words stand in quotes, whichever steps failed
\* or were skipped, and although ids repeat.  Of Documented skills only: ids
\* that hold a word of the language are misread.
RunsAsWritten ==
    \A i \in Decided : (i \in DOMAIN answer \/ i = active) <=> Meant(i)

\* A step is given its arguments with every placeholder replaced once, by
\* the latest answer of the step or the variable it names, whatever the
\* order in which the maps are read; one that names nothing is left.
GivenAsWritten ==
    pc = "step" =>
       LET Value(token) ==
             LET ids == {j \in DOMAIN answer : Place[steps[j].id] = token /\ j < active}
                 names == {x \in DOMAIN Variables : Place[x] = token}
             IN  IF ids # {} THEN answer[Max(ids)]
                 ELSE IF names # {} THEN Variables[CHOOSE x \in names : TRUE]
                 ELSE <<token>>
           args == steps[active].args
       IN  given = FlattenSeq([n \in DOMAIN args |-> Value(args[n])])
=============================================================================
