----------------------------- MODULE AgentLoop ------------------------------
(***************************************************************************)
(* One session and the agent loop that drives it: the turn / step loop of  *)
(* src/src/agent.rs under the three strategies of src/src/strategies, with *)
(* the LLM stream, the tool calls, compaction and user cancellation, the   *)
(* commands that rewrite the log between turns (commands.rs), the          *)
(* checkpoint after a turn (server.rs, main.rs) and a crash at any point.  *)
(*                                                                         *)
(* A step of the model runs from one await of the code to the next.  While *)
(* a turn runs the loop owns the log, so nobody sees the log between the   *)
(* appends of one such stretch; what others may do meanwhile is to cancel  *)
(* the turn, and the process may crash.                                    *)
(***************************************************************************)
EXTENDS SessionLog

CONSTANTS
    Skills,          \* the skills a turn may run: mode and steps
    KeepRecent,      \* compaction.keep_recent_turns
    CompactAt,       \* messages the context holds before compaction triggers
    Cancellable,     \* with_cancel_rx: TRUE under the server, FALSE in the CLI
    Commands,        \* the slash commands used between turns
    MaxTurns,        \* bound: turns in a behaviour
    MaxCalls,        \* bound: tool calls the LLM makes in a behaviour
    MaxBatch         \* bound: tool calls in one assistant message

\* A workflow step forces a tool or an LLM judgement and may be conditional.
SkillStep == [action : {"tool", "judge"}, when : BOOLEAN]
Skill == [mode : {"plan", "todo", "workflow"}, steps : Seq(SkillStep)]

ASSUME SkillsAssumption == Skills \subseteq Skill
ASSUME BoundsAssumption ==
    /\ KeepRecent \in Nat /\ CompactAt \in Nat
    /\ MaxTurns \in Nat /\ MaxCalls \in Nat /\ MaxBatch \in Nat
ASSUME SwitchesAssumption ==
    Cancellable \in BOOLEAN /\ Commands \subseteq {"clear", "compact"}

VARIABLES
    log,        \* AgentLoop.session while a turn runs, else the manager's copy
    flash,      \* the session's checkpoint file; a missing one loads as NewLog
    pc,         \* where run_turn awaits
    skill,      \* the skill of the running turn
    current,    \* the strategy hook's step index (todo, workflow)
    model,      \* the model of the running turn
    cancelled,  \* value of the cancellation watch channel
    stream,     \* what the LLM stream has delivered in this step
    pending,    \* tool calls of the assistant message not yet started
    outcome,    \* StepOutcome of the step, then of the turn
    turnsLeft,  \* bound on turns
    callsMade   \* tool calls the LLM has made; the next call's id

turnVars == <<skill, current, model>>
vars == <<log, flash, pc, turnVars, cancelled, stream, pending, outcome,
          turnsLeft, callsMade>>

NoSkill == [mode |-> "plan", steps |-> <<>>]
NoStream == [content |-> FALSE, calls |-> <<>>, fin |-> "open"]
NoOutcome == [error |-> "none", tools |-> FALSE]

Running == {"top", "pre", "compacting", "stream", "tools", "tool",
            "forcedTool", "judge", "post"}

TypeOK ==
    /\ log \in Log
    /\ flash \in Log
    /\ pc \in {"idle", "returned"} \cup Running
    /\ skill \in Skill
    /\ current \in Nat
    /\ model \in Model \cup {NoModel}
    /\ cancelled \in BOOLEAN
    /\ stream \in [content : BOOLEAN, calls : Seq(CallId),
                   fin : {"open", "done", "error"}]
    /\ pending \in Seq(CallId)
    /\ outcome \in [error : {"none", "tool", "llm", "cancelled"},
                    tools : BOOLEAN]
    /\ turnsLeft \in 0 .. MaxTurns
    /\ callsMade \in 0 .. MaxCalls

Init ==
    /\ log = NewLog /\ flash = NewLog
    /\ pc = "idle"
    /\ skill = NoSkill /\ current = 0 /\ model = NoModel
    /\ cancelled = FALSE
    /\ stream = NoStream /\ pending = <<>> /\ outcome = NoOutcome
    /\ turnsLeft = MaxTurns /\ callsMade = 0

-----------------------------------------------------------------------------
(* Entering a turn and a step                                              *)

\* The notice is due when another model drove the session's previous turn.
ModelSwitched(l, m) == l.lastModel \notin {NoModel, m}

\* run_turn up to its loop: what it logs before the first step
OpenTurn(l, m) ==
    LET begun  == BeginTurn(l)
        told   == IF ModelSwitched(l, m)
                  THEN AppendEvent(begun, UserMessage("notice")) ELSE begun
        routed == SetLastModel(AppendEvent(told, RequestHeader(m)), m)
    IN  AppendEvent(routed, UserMessage("input"))

StartTurn(m, k) ==
    /\ pc = "idle" /\ turnsLeft > 0
    /\ log' = OpenTurn(log, m)
    /\ pc' = "top"
    /\ skill' = k /\ current' = 0 /\ model' = m
    /\ cancelled' = FALSE /\ outcome' = NoOutcome
    /\ turnsLeft' = turnsLeft - 1
    /\ UNCHANGED <<flash, stream, pending, callsMade>>

\* Mutants: a step begins without the check; the abort returns without
\* ending the turn.
BugEnterStep ==
    /\ pc = "top"
    /\ log' = BeginStep(log)
    /\ pc' = "pre"
    /\ stream' = NoStream /\ pending' = <<>> /\ outcome' = NoOutcome
    /\ UNCHANGED <<flash, turnVars, cancelled, turnsLeft, callsMade>>

BugAbortAtTop ==
    /\ pc = "top" /\ cancelled
    /\ pc' = "returned"
    /\ outcome' = [NoOutcome EXCEPT !.error = "cancelled"]
    /\ UNCHANGED <<log, flash, turnVars, cancelled, stream, pending,
                   turnsLeft, callsMade>>

\* The check and begin_step have no await between them.
EnterStep ==
    /\ pc = "top" /\ ~cancelled
    /\ log' = BeginStep(log)
    /\ pc' = "pre"
    /\ stream' = NoStream /\ pending' = <<>> /\ outcome' = NoOutcome
    /\ UNCHANGED <<flash, turnVars, cancelled, turnsLeft, callsMade>>

AbortAtTop ==
    /\ pc = "top" /\ cancelled
    /\ log' = EndTurn(log, "Aborted")
    /\ pc' = "returned"
    /\ outcome' = [NoOutcome EXCEPT !.error = "cancelled"]
    /\ UNCHANGED <<flash, turnVars, cancelled, stream, pending,
                   turnsLeft, callsMade>>

-----------------------------------------------------------------------------
(* The strategies' pre_step                                                *)

\* needs_compaction: the estimate is proportional to the number of messages
NeedsCompaction(msgs) == Len(msgs) > CompactAt

\* compact gives up before its LLM call when there is too little to summarise
WorthCompacting(msgs) == Len(msgs) > KeepRecent + 2

\* run_llm_step up to its first await, with guidance appended already
OpenContext(l) ==
    LET msgs == DeriveMessages(l)
    IN  /\ log' = l
        /\ pc' = IF NeedsCompaction(msgs) /\ WorthCompacting(msgs)
                 THEN "compacting" ELSE "stream"

PlanProceed ==
    /\ pc = "pre" /\ skill.mode = "plan"
    /\ OpenContext(log)
    /\ UNCHANGED <<flash, turnVars, cancelled, stream, pending, outcome,
                   turnsLeft, callsMade>>

TodoProceed ==
    /\ pc = "pre" /\ skill.mode = "todo" /\ current < Len(skill.steps)
    /\ OpenContext(AppendEvent(log, UserMessage("guidance")))
    /\ UNCHANGED <<flash, turnVars, cancelled, stream, pending, outcome,
                   turnsLeft, callsMade>>

\* The workflow step taken next when those in between are skipped: only a
\* conditional step may be.  What a condition evaluates to is left open.
Reaches(i) ==
    /\ i >= current
    /\ \A j \in current + 1 .. i : skill.steps[j].when

ForceTool ==
    /\ pc = "pre" /\ skill.mode = "workflow"
    /\ \E i \in 0 .. Len(skill.steps) - 1 :
          /\ Reaches(i) /\ skill.steps[i + 1].action = "tool"
          /\ current' = i
          /\ log' = AppendEvent(log, ToolCall(<<"wf", i>>))
    /\ pc' = "forcedTool"
    /\ UNCHANGED <<flash, skill, model, cancelled, stream, pending, outcome,
                   turnsLeft, callsMade>>

ForceLlm ==
    /\ pc = "pre" /\ skill.mode = "workflow"
    /\ \E i \in 0 .. Len(skill.steps) - 1 :
          /\ Reaches(i) /\ skill.steps[i + 1].action = "judge"
          /\ current' = i
    /\ pc' = "judge"
    /\ UNCHANGED <<log, flash, skill, model, cancelled, stream, pending,
                   outcome, turnsLeft, callsMade>>

\* Mutant: an empty list of steps is not noticed.
BugStopBeforeStep ==
    /\ pc = "pre" /\ skill.mode # "plan"
    /\ current > Len(skill.steps)
    /\ current' = current
    /\ log' = EndTurn(EndStep(log), "Completed")
    /\ pc' = "returned"
    /\ UNCHANGED <<flash, skill, model, cancelled, stream, pending, outcome,
                   turnsLeft, callsMade>>

\* The list of steps is used up before the step began, or all that is left
\* of a workflow is skipped.
StopBeforeStep ==
    /\ pc = "pre" /\ skill.mode # "plan"
    /\ \/ current >= Len(skill.steps)
       \/ skill.mode = "workflow" /\ Reaches(Len(skill.steps))
    /\ current' = IF current >= Len(skill.steps)
                  THEN current ELSE Len(skill.steps)
    /\ log' = EndTurn(EndStep(log), "Completed")
    /\ pc' = "returned"
    /\ UNCHANGED <<flash, skill, model, cancelled, stream, pending, outcome,
                   turnsLeft, callsMade>>

-----------------------------------------------------------------------------
(* The LLM step                                                            *)

\* Mutant: the number of turns to keep is taken for a number of events.
BugCompacted ==
    /\ pc = "compacting"
    /\ \/ log' = ApplyCompaction(log, KeepRecent)
       \/ log' = log
    /\ pc' = "stream"
    /\ UNCHANGED <<flash, turnVars, cancelled, stream, pending, outcome,
                   turnsLeft, callsMade>>

\* compact returned: a summary, or None after an error or an empty answer
Compacted ==
    /\ pc = "compacting"
    /\ \/ log' = ApplyCompaction(log, KeepRecent * 6)
       \/ log' = log
    /\ pc' = "stream"
    /\ UNCHANGED <<flash, turnVars, cancelled, stream, pending, outcome,
                   turnsLeft, callsMade>>

RecvDelta ==
    /\ pc = "stream" /\ stream.fin = "open" /\ ~cancelled /\ ~stream.content
    /\ stream' = [stream EXCEPT !.content = TRUE]
    /\ UNCHANGED <<log, flash, pc, turnVars, cancelled, pending, outcome,
                   turnsLeft, callsMade>>

RecvDone ==
    /\ pc = "stream" /\ stream.fin = "open" /\ ~cancelled
    /\ \E n \in 0 .. MaxBatch :
          /\ callsMade + n <= MaxCalls
          /\ stream' = [stream EXCEPT !.fin = "done",
                          !.calls = [i \in 1 .. n |-> <<"llm", callsMade + i>>]]
          /\ callsMade' = callsMade + n
    /\ UNCHANGED <<log, flash, pc, turnVars, cancelled, pending, outcome,
                   turnsLeft>>

RecvError ==
    /\ pc = "stream" /\ stream.fin = "open" /\ ~cancelled
    /\ stream' = [stream EXCEPT !.fin = "error"]
    /\ UNCHANGED <<log, flash, pc, turnVars, cancelled, pending, outcome,
                   turnsLeft, callsMade>>

\* Mutant: the early return of an error forgets the step.
BugFailStep(l, why) ==
    /\ log' = EndTurn(l, "Error")
    /\ pc' = "returned"
    /\ outcome' = [error |-> why, tools |-> FALSE]

\* StepOutcome::Error ends the step and the turn, whatever the error was.
FailStep(l, why) ==
    /\ log' = EndTurn(EndStep(l), "Error")
    /\ pc' = "returned"
    /\ outcome' = [error |-> why, tools |-> FALSE]

\* An event arrives on the stream after the user cancelled: the text so far
\* is recorded, without tool calls, and the step fails.
RecvCancelled ==
    /\ pc = "stream" /\ stream.fin = "open" /\ cancelled
    /\ FailStep(IF stream.content THEN AppendEvent(log, AssistantMessage(<<>>))
                ELSE log, "cancelled")
    /\ UNCHANGED <<flash, turnVars, cancelled, stream, pending, turnsLeft,
                   callsMade>>

StreamFailed ==
    /\ pc = "stream" /\ stream.fin = "error"
    /\ FailStep(log, "llm")
    /\ UNCHANGED <<flash, turnVars, cancelled, stream, pending, turnsLeft,
                   callsMade>>

StreamClosed ==
    /\ pc = "stream" /\ stream.fin = "done"
    /\ log' = AppendEvent(log, AssistantMessage(stream.calls))
    /\ pending' = stream.calls
    /\ outcome' = [error |-> "none", tools |-> stream.calls # <<>>]
    /\ pc' = "tools"
    /\ UNCHANGED <<flash, turnVars, cancelled, stream, turnsLeft, callsMade>>

BeginTool ==
    /\ pc = "tools" /\ pending # <<>> /\ ~cancelled
    /\ log' = AppendEvent(log, ToolCall(Head(pending)))
    /\ pc' = "tool"
    /\ UNCHANGED <<flash, turnVars, cancelled, stream, pending, outcome,
                   turnsLeft, callsMade>>

\* Mutant: the loop over the calls leaves after the first.
BugEndTool ==
    /\ pc = "tool"
    /\ log' = AppendEvent(log, ToolResult(Head(pending)))
    /\ pending' = <<>>
    /\ pc' = "tools"
    /\ UNCHANGED <<flash, turnVars, cancelled, stream, outcome, turnsLeft,
                   callsMade>>

\* execute_checked always yields a result: denied, unknown, failed, timed out
\* or the tool's own.
EndTool ==
    /\ pc = "tool"
    /\ log' = AppendEvent(log, ToolResult(Head(pending)))
    /\ pending' = Tail(pending)
    /\ pc' = "tools"
    /\ UNCHANGED <<flash, turnVars, cancelled, stream, outcome, turnsLeft,
                   callsMade>>

-----------------------------------------------------------------------------
(* The forced steps of a workflow                                          *)

EndForcedTool ==
    /\ pc = "forcedTool"
    /\ log' = AppendEvent(log, ToolResult(<<"wf", current>>))
    /\ \E failed \in BOOLEAN :
          outcome' = [error |-> IF failed THEN "tool" ELSE "none",
                      tools |-> FALSE]
    /\ pc' = "post"
    /\ UNCHANGED <<flash, turnVars, cancelled, stream, pending, turnsLeft,
                   callsMade>>

\* The judge's prompt is not logged, its answer is.
JudgeAnswered ==
    /\ pc = "judge"
    /\ log' = AppendEvent(log, AssistantMessage(<<>>))
    /\ outcome' = NoOutcome
    /\ pc' = "post"
    /\ UNCHANGED <<flash, turnVars, cancelled, stream, pending, turnsLeft,
                   callsMade>>

JudgeFailed ==
    /\ pc = "judge"
    /\ FailStep(log, "llm")
    /\ UNCHANGED <<flash, turnVars, cancelled, stream, pending, turnsLeft,
                   callsMade>>

-----------------------------------------------------------------------------
(* The strategies' post_step                                               *)

\* Mutant: a cancelled step is over only when all its calls are made.
BugStepDone == pc = "post" \/ (pc = "tools" /\ pending = <<>>)

\* The step's work is over; calls the user's cancellation overtook are dropped.
StepDone == \/ pc = "post"
            \/ pc = "tools" /\ (pending = <<>> \/ cancelled)

\* post_step of the three strategies: does the turn go on?
GoesOn == IF skill.mode = "plan" THEN outcome.tools
          ELSE current + 1 < Len(skill.steps)

NextStep ==
    /\ StepDone /\ GoesOn
    /\ log' = EndStep(log)
    /\ current' = IF skill.mode = "plan" THEN current ELSE current + 1
    /\ pc' = "top"
    /\ UNCHANGED <<flash, skill, model, cancelled, stream, pending, outcome,
                   turnsLeft, callsMade>>

\* The turn's reason is the outcome of its last step alone.
StopAfterStep ==
    /\ StepDone /\ ~GoesOn
    /\ log' = EndTurn(EndStep(log),
                      IF outcome.error = "none" THEN "Completed" ELSE "Error")
    /\ current' = IF skill.mode = "plan" THEN current ELSE current + 1
    /\ pc' = "returned"
    /\ UNCHANGED <<flash, skill, model, cancelled, stream, pending, outcome,
                   turnsLeft, callsMade>>

-----------------------------------------------------------------------------
(* The session's owner: checkpoint, commands, crash                        *)

\* POST /api/chat/cancel; the sender is taken, so once per turn.
Cancel ==
    /\ Cancellable /\ pc \in Running /\ ~cancelled
    /\ cancelled' = TRUE
    /\ UNCHANGED <<log, flash, pc, turnVars, stream, pending, outcome,
                   turnsLeft, callsMade>>

\* checkpoint writes a temporary file and renames it: all or nothing.
Saved(l) == flash' = l \/ flash' = flash

\* return_session and checkpoint_active after the turn
ReturnSession ==
    /\ pc = "returned"
    /\ Saved(log)
    /\ pc' = "idle"
    /\ UNCHANGED <<log, turnVars, cancelled, stream, pending, outcome,
                   turnsLeft, callsMade>>

ClearCommand ==
    /\ pc = "idle" /\ "clear" \in Commands
    /\ log' = Clear(log)
    /\ Saved(log')
    /\ UNCHANGED <<pc, turnVars, cancelled, stream, pending, outcome,
                   turnsLeft, callsMade>>

\* The counters after the kept events were appended to a cleared log
CompactKeep == 6

Reappended(kept) ==
    LET ts == LastOfKind(kept, {"TurnStart"})
        ss == LastOfKind(kept, {"StepStart"})
    IN  [events |-> Evict(kept),
         turn |-> IF ts = 0 THEN 0 ELSE kept[ts].turn,
         step |-> IF ss = 0 THEN 0 ELSE kept[ss].step,
         lastModel |-> NoModel]

CompactCommand ==
    /\ pc = "idle" /\ "compact" \in Commands
    /\ Len(log.events) > CompactKeep
    /\ log' = Reappended(SubSeq(log.events, Len(log.events) - CompactKeep + 1,
                                Len(log.events)))
    /\ Saved(log')
    /\ UNCHANGED <<pc, turnVars, cancelled, stream, pending, outcome,
                   turnsLeft, callsMade>>

\* The process dies and the session is loaded again, from its checkpoint.
Crash ==
    /\ log' = Load(flash)
    /\ pc' = "idle"
    /\ cancelled' = FALSE
    /\ stream' = NoStream /\ pending' = <<>> /\ outcome' = NoOutcome
    /\ skill' = NoSkill /\ current' = 0 /\ model' = NoModel
    /\ UNCHANGED <<flash, turnsLeft, callsMade>>

-----------------------------------------------------------------------------
LlmStep ==
    \/ PlanProceed \/ TodoProceed \/ Compacted
    \/ RecvDelta \/ RecvDone \/ RecvError \/ RecvCancelled
    \/ StreamFailed \/ StreamClosed
    \/ BeginTool \/ EndTool

WorkflowStep ==
    \/ ForceTool \/ EndForcedTool
    \/ ForceLlm \/ JudgeAnswered \/ JudgeFailed

\* What the running turn does by itself
TurnStep ==
    \/ EnterStep \/ AbortAtTop \/ StopBeforeStep
    \/ LlmStep \/ WorkflowStep
    \/ NextStep \/ StopAfterStep
    \/ ReturnSession

Next ==
    \/ \E m \in Model, k \in Skills : StartTurn(m, k)
    \/ TurnStep
    \/ Cancel
    \/ ClearCommand \/ CompactCommand
    \/ Crash

Spec == Init /\ [][Next]_vars

\* The user cancelled while the stream runs: the loop will stop reading the
\* stream, and then waits for its end without reading.  LlmStream shows that
\* this wait may never be over.
HangsUp == pc = "stream" /\ stream.fin = "open" /\ cancelled

\* The runtime polls a turn that can go on; a tool returns within its
\* timeout.  That the provider's stream goes on to its end is an assumption:
\* llm.rs sets no timeout on it.
Fairness == WF_vars(TurnStep /\ ~HangsUp)

FairSpec == Spec /\ Fairness
=============================================================================
