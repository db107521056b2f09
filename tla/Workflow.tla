------------------------------ MODULE Workflow ------------------------------
(***************************************************************************)
(* The workflow strategy, src/src/strategies/workflow.rs: steps that run   *)
(* in their order unless their condition fails, each with arguments made   *)
(* from the results of the steps before it.  AgentLoop runs the steps and  *)
(* leaves the conditions open; here they are evaluated.                    *)
(***************************************************************************)
EXTENDS Expr

CONSTANTS
    Skill,      \* the skills: sequences of [id, when, meant, args]
    Variables,  \* the variables of the skill
    Result      \* what a tool or the judge may answer

\* Step ids and variables are different names, as {{steps.x.result}} and
\* {{x}} are different placeholders.
ASSUME WorkflowAssumption ==
    /\ \A skill \in Skill :
          /\ skill \in Seq(Range(skill))
          /\ \A step \in Range(skill) :
                /\ step.id \in DOMAIN Place \ DOMAIN Variables
                /\ step.args \in Seq(STRING)
    /\ IsFiniteSet(DOMAIN Variables) /\ DOMAIN Variables \subseteq DOMAIN Place
    /\ Range(Variables) \cup Result \subseteq Seq(STRING)

VARIABLES
    steps,      \* WorkflowStrategy.steps
    current, active, stepResults,
    pc,         \* before pre_step, in a step, or how the turn ended
    given,      \* the arguments or the prompt of the active step
    answer      \* history: the results of the steps that have run

vars == <<steps, current, active, stepResults, pc, given, answer>>

Nothing == [x \in {} |-> <<>>]

\* HashMap::insert: a key that is there gets the new value.
Put(f, x, v) == [y \in DOMAIN f \cup {x} |-> IF y = x THEN v ELSE f[y]]

\* parse_steps: a step without an id is called "step", and ids may repeat.
Init ==
    /\ steps \in Skill
    /\ current = 1 /\ active = 0
    /\ stepResults = Nothing /\ answer = Nothing
    /\ pc = "pre"
    /\ given = <<>>

\* The conditions are those of the text, without any interpolation.
Runs(i) == Evaluate(steps[i].when, stepResults)

\* pre_step skips to the next step whose condition holds.
PreStep ==
    /\ pc = "pre"
    /\ \E i \in current .. Len(steps) :
          /\ Runs(i)
          /\ \A j \in current .. i - 1 : ~Runs(j)
          /\ current' = i /\ active' = i
          /\ \E order \in SetToSeqs(DOMAIN stepResults),
                names \in SetToSeqs(DOMAIN Variables) :
                given' = Interpolated(steps[i].args, stepResults, order,
                                      Variables, names)
    /\ pc' = "step"
    /\ UNCHANGED <<steps, stepResults, answer>>

NoStepLeft ==
    /\ pc = "pre"
    /\ \A i \in current .. Len(steps) : ~Runs(i)
    /\ current' = Len(steps) + 1
    /\ pc' = "over"
    /\ UNCHANGED <<steps, active, stepResults, given, answer>>

\* Mutant of PostStep: a result that is there is kept.
BugPostStep ==
    /\ pc = "step"
    /\ \E r \in Result :
          /\ stepResults' = IF steps[active].id \in DOMAIN stepResults THEN stepResults
                            ELSE Put(stepResults, steps[active].id, r)
          /\ answer' = Put(answer, active, r)
    /\ current' = active + 1
    /\ pc' = IF current' > Len(steps) THEN "over" ELSE "pre"
    /\ UNCHANGED <<steps, active, given>>

\* The step has a result, which may be the message of an error, and
\* post_step records it under the step's id.
PostStep ==
    /\ pc = "step"
    /\ \E r \in Result :
          /\ stepResults' = Put(stepResults, steps[active].id, r)
          /\ answer' = Put(answer, active, r)
    /\ current' = active + 1
    /\ pc' = IF current' > Len(steps) THEN "over" ELSE "pre"
    /\ UNCHANGED <<steps, active, given>>

\* The judge's stream fails, which ends the turn without post_step.
JudgeFails ==
    /\ pc = "step"
    /\ pc' = "failed"
    /\ UNCHANGED <<steps, current, active, stepResults, given, answer>>

Next == PreStep \/ NoStepLeft \/ PostStep \/ JudgeFails

Spec == Init /\ [][Next]_vars
=============================================================================
