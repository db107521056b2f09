---------------------------- MODULE MCAgentLoop ----------------------------
(* Instances of AgentLoop for TLC. *)
EXTENDS AgentLoopProps

Step(a, w) == [action |-> a, when |-> w]

PlanSkill     == [mode |-> "plan", steps |-> <<>>]
TodoSkill     == [mode |-> "todo",
                  steps |-> <<Step("tool", FALSE), Step("tool", FALSE)>>]
EmptyTodo     == [mode |-> "todo", steps |-> <<>>]
WorkflowSkill == [mode |-> "workflow",
                  steps |-> <<Step("tool", FALSE), Step("judge", TRUE),
                              Step("tool", TRUE)>>]

PlanOnly  == {PlanSkill}
TodoOnly  == {TodoSkill}
AllSkills == {PlanSkill, TodoSkill, EmptyTodo, WorkflowSkill}
Scripted  == {TodoSkill, WorkflowSkill}
=============================================================================
