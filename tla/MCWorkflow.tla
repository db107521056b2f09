----------------------------- MODULE MCWorkflow -----------------------------
(* Instances of Workflow for TLC.                                          *)
EXTENDS WorkflowProps

Is(op, id, lit) == [neg |-> FALSE, op |-> op, id |-> id, lit |-> lit]
Not(c) == [c EXCEPT !.neg = TRUE]
WithNot(cs) == cs \cup {Not(c) : c \in cs}

\* Step ids and a variable; the id of the second step has two fragments.
A == <<"a">>
B == <<"b", "2">>
C == <<"c">>
V == <<"v">>

\* Words in quotes that are operators or keywords outside of them, and a dot
Tricky == <<"up", ".", "or", "contains">>

Comparisons ==
    {Is("result", B, <<>>), Is(">", A, <<"1">>), Is("<", B, <<"1">>),
     Is("contains", A, <<"or">>), Is("contains", B, <<"up">>),
     Is("==", A, Tricky), Is("!=", B, <<"and">>), Is("==", C, <<"up">>)}
Few == {Is("result", A, <<>>), Is("contains", B, <<"or">>)}

Conditions ==
    {<< <<c>> >> : c \in WithNot(Comparisons)}
    \cup {<< <<c, d>> >> : c, d \in WithNot(Comparisons)}
    \cup {<< <<c>>, <<d>> >> : c, d \in WithNot(Comparisons)}
    \cup {<< <<c>>, <<d, e>> >> : c, d, e \in WithNot(Few)}
    \cup {<< <<c, d>>, <<e>> >> : c, d, e \in WithNot(Few)}

Step(id, cond, args, quote) ==
    [id |-> id, when |-> Text(cond, quote), meant |-> cond, args |-> args]

Args == <<"{{b2}}", "up", "{{a}}", "{{v}}", "{{c}}", "{{a}}">>

\* Three steps; the second may have the id of the first.
SkillsIn(quote, conditions) ==
    {<< Step(A, <<>>, <<"{{v}}">>, quote), Step(id, second, Args, quote),
        Step(C, third, Args, quote) >> :
       id \in {A, B}, second \in {<<>>, << <<Is("==", A, Tricky)>> >>},
       third \in conditions}

Skills       == SkillsIn(Quote, Conditions)
SingleQuotes == SkillsIn("'", Conditions)
AtLeast      == SkillsIn(Quote, {<< <<Is(">=", A, <<"0">>)>> >>})

\* Ids that hold a word of the language, contains_err and v1.2, and a step that
\* asks whether such a step has a result
ContainsErr == <<"contains", "_err">>
Version     == <<"v1", ".", "2">>
Named(id) == << Step(id, <<>>, <<"up">>, Quote),
                Step(A, << <<Is("result", id, <<>>)>> >>, <<"up">>, Quote) >>
Misnamed == {Named(ContainsErr)}
Dotted   == {Named(Version)}

Pieces == {"a", "b", "2", "c", "0", "1", "_err", "v1"}
Places == A :> "{{a}}" @@ B :> "{{b2}}" @@ C :> "{{c}}" @@ V :> "{{v}}"
          @@ ContainsErr :> "{{contains_err}}" @@ Version :> "{{v1.2}}"
Numbers == "0" :> 0 @@ "1" :> 1
OneVariable == V :> <<"down", "down">>
Results == {<<>>, <<"up">>, <<"and">>, Tricky}

\* What the theorems about Workflow assume holds of this instance.
ASSUME InstanceAssumption ==
    Documented(Skills) /\ Plain(Results) /\ Plain(Range(OneVariable))

\* An answer that holds a placeholder
Nested == Results \cup {<<"{{a}}">>}
=============================================================================
