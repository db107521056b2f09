------------------------------ MODULE ToolHost ------------------------------
(***************************************************************************)
(* The execution of tools: execute_checked of src/src/tools/mod.rs with    *)
(* its blocking threads and timeouts, the agents that subagent.rs and      *)
(* tools/workflow.rs run on threads and runtimes of their own, and the     *)
(* memory tools, over MemoryStore.  Every turn registers its tools anew    *)
(* and so opens a store of its own; the agents it delegates to share it.   *)
(*                                                                         *)
(* A task is a turn, an agent or a tool at work. A turn runs on the main   *)
(* thread; every other task has a thread, which its id stands for.  What   *)
(* an agent does between two calls is AgentLoop's subject.                 *)
(***************************************************************************)
EXTENDS MemoryStore, FiniteSets

CONSTANTS
    Task,       \* tasks at one time
    NoTask,     \* the caller of a turn, and of a tool whose turn is over
    MaxDepth    \* MAX_DEPTH of subagent.rs and tools/workflow.rs (3)

ASSUME TaskAssumption == NoTask \notin Task /\ MaxDepth \in Nat \ {0, 1}

VARIABLES
    task,     \* what every task is and where it is
    depth,    \* the thread-locals DEPTH and WF_DEPTH of every thread
    kept      \* history: for every key the last write whose tool has returned
              \* after it wrote the file; 0 while nothing is promised

vars == <<memVars, task, depth, kept>>

-----------------------------------------------------------------------------
(* Tools                                                                   *)

Delegation == {"subagent", "workflow"}
\* "reader" is memory_read, and every tool without a state of this process.
Builtin == {"memory_write", "reader"}
\* The tasks that run an agent loop
Agent == {"turn", "subagent", "task"}

\* Mutant of SharedWith: the plugins are shared after the registration.
BugSharedWith(tool) == Builtin \cup Delegation

\* The tools of a delegation's agents are those registered before it:
\* register_builtins, register_subagent, register_workflow, in this order.
SharedWith(tool) ==
    IF tool = "subagent" THEN Builtin ELSE Builtin \cup {"subagent"}

ToolsOf(agent) ==
    CASE agent = "turn"     -> Builtin \cup Delegation
      [] agent = "subagent" -> SharedWith("subagent")
      [] agent = "task"     -> SharedWith("workflow")

Free == [tool |-> "none"]
States == {"start", "ready", "call", "leave", "owes", "writes"}
Busy == [tool : Agent \cup Builtin \cup Delegation, caller : Task \cup {NoTask},
         awaited : BOOLEAN, state : States, store : Store,
         key : Key \cup {NoKey}, val : 0 .. MaxWrites, nested : Nat]

TypeOK ==
    /\ MemTypeOK
    /\ task \in [Task -> Busy \cup {Free}]
    /\ depth \in [Task -> [Delegation -> 0 .. MaxDepth]]
    /\ kept \in [Key -> 0 .. MaxWrites]

IsFree(t) == task[t] = Free
StoresOf(ts) == {ts[t].store : t \in {u \in Task : ts[u] # Free}}
InUse == StoresOf(task)
CalledBy(a) == {t \in Task : ~IsFree(t) /\ task[t].caller = a}
NothingKept == [k \in Key |-> 0]

Init ==
    /\ MemInit
    /\ task = [t \in Task |-> Free]
    /\ depth = [t \in Task |-> [d \in Delegation |-> 0]]
    /\ kept = NothingKept

At(t, tool, state) == ~IsFree(t) /\ task[t].tool = tool /\ task[t].state = state
AgentAt(t, state) == ~IsFree(t) /\ task[t].tool \in Agent /\ task[t].state = state
BuiltinAt(t, state) == ~IsFree(t) /\ task[t].tool \in Builtin /\ task[t].state = state

\* Task t ends; a caller that still waits for it goes on.
End(t) ==
    /\ task' = [u \in Task |->
                  IF u = t THEN Free
                  ELSE IF task[t].awaited /\ u = task[t].caller
                       THEN [task[u] EXCEPT !.state = "ready"]
                       ELSE task[u]]
    /\ DropUnused(StoresOf(task'))

-----------------------------------------------------------------------------
(* Turns and calls                                                         *)

\* A chat turn begins with its tools and its store. Nothing is promised of
\* the memory while two stores are in use.
StartTurn(t, s) ==
    /\ IsFree(t) /\ s \notin InUse
    /\ Open(s)
    /\ task' = [task EXCEPT ![t] =
                   [tool |-> "turn", caller |-> NoTask, awaited |-> FALSE,
                    state |-> "ready", store |-> s, key |-> NoKey, val |-> 0,
                    nested |-> 0]]
    /\ kept' = IF InUse = {} THEN kept ELSE NothingKept
    /\ UNCHANGED depth

\* A tool that agent a calls. A subagent is an agent from the start.
Started(tool, a) ==
    [tool |-> tool, caller |-> a, awaited |-> TRUE,
     state |-> IF tool = "subagent" THEN "ready" ELSE "start",
     store |-> task[a].store, key |-> NoKey, val |-> 0,
     nested |-> task[a].nested + IF tool = "subagent" THEN 1 ELSE 0]

\* execute_checked: a tool the agent has gets a thread; any other call is
\* answered at once, as is a delegation beyond the limit of its thread.
Call(a, t, tool) ==
    /\ AgentAt(a, "ready") /\ IsFree(t)
    /\ tool \in ToolsOf(task[a].tool)
    /\ tool \in Delegation => depth[t][tool] < MaxDepth
    /\ task' = [task EXCEPT ![a].state = "call", ![t] = Started(tool, a)]
    /\ depth' = IF tool \in Delegation
                THEN [depth EXCEPT ![t][tool] = @ + 1] ELSE depth
    /\ UNCHANGED <<memVars, kept>>

\* Mutant of TimesOut: the result of the thread is still taken.
BugTimesOut(t) ==
    /\ ~IsFree(t) /\ task[t].awaited /\ task[t].tool # "task"
    /\ task' = [task EXCEPT ![task[t].caller].state = "ready"]
    /\ UNCHANGED <<memVars, depth, kept>>

\* The call is answered with an error, and its thread goes on. A workflow
\* joins the threads of its tasks without a timeout.
TimesOut(t) ==
    /\ ~IsFree(t) /\ task[t].awaited /\ task[t].tool # "task"
    /\ task' = [task EXCEPT ![t].awaited = FALSE,
                            ![task[t].caller].state = "ready"]
    /\ UNCHANGED <<memVars, depth, kept>>

\* The turn is over; what it left running goes on without it.
EndTurn(a) ==
    /\ At(a, "turn", "ready")
    /\ task' = [t \in Task |->
                  IF t = a THEN Free
                  ELSE IF t \in CalledBy(a) THEN [task[t] EXCEPT !.caller = NoTask]
                  ELSE task[t]]
    /\ DropUnused(StoresOf(task'))
    /\ UNCHANGED <<writing, file, writes, depth, kept>>

-----------------------------------------------------------------------------
(* Delegation                                                              *)

\* The turn of an agent is over, and its runtime is dropped.
EndAgent(a) ==
    /\ AgentAt(a, "ready") /\ task[a].tool # "turn"
    /\ task' = [task EXCEPT ![a].state = "leave"]
    /\ UNCHANGED <<memVars, depth, kept>>

\* Mutants of Leave: the depth is not set back; the runtime is dropped
\* without waiting for its threads.
BugLeaveDepth(a) ==
    /\ AgentAt(a, "leave") /\ CalledBy(a) = {}
    /\ End(a)
    /\ UNCHANGED <<writing, file, writes, depth, kept>>

BugLeaveBehind(a) ==
    /\ AgentAt(a, "leave")
    /\ End(a)
    /\ depth' = IF task[a].tool = "subagent"
                THEN [depth EXCEPT ![a]["subagent"] = @ - 1] ELSE depth
    /\ UNCHANGED <<writing, file, writes, kept>>

\* The drop of a runtime waits for the threads of its blocking calls. Only
\* then a subagent sets DEPTH back and returns.
Leave(a) ==
    /\ AgentAt(a, "leave") /\ CalledBy(a) = {}
    /\ End(a)
    /\ depth' = IF task[a].tool = "subagent"
                THEN [depth EXCEPT ![a]["subagent"] = @ - 1] ELSE depth
    /\ UNCHANGED <<writing, file, writes, kept>>

\* run_single_task, one after the other. The number of tasks is left open.
StartTask(w, t) ==
    /\ At(w, "workflow", "start") \/ At(w, "workflow", "ready")
    /\ IsFree(t)
    /\ task' = [task EXCEPT
                  ![w].state = "call",
                  ![t] = [tool |-> "task", caller |-> w, awaited |-> TRUE,
                          state |-> "ready", store |-> task[w].store,
                          key |-> NoKey, val |-> 0,
                          nested |-> task[w].nested + 1]]
    /\ UNCHANGED <<memVars, depth, kept>>

EndWorkflow(w) ==
    /\ At(w, "workflow", "ready")
    /\ End(w)
    /\ depth' = [depth EXCEPT ![w]["workflow"] = @ - 1]
    /\ UNCHANGED <<writing, file, writes, kept>>

-----------------------------------------------------------------------------
(* The memory tools                                                        *)

\* What is kept once the write t has returned
KeptWith(t) ==
    IF task[t].tool = "memory_write" /\ InUse = {task[t].store}
       /\ kept[task[t].key] < task[t].val
    THEN [kept EXCEPT ![task[t].key] = task[t].val] ELSE kept

Write(t) ==
    /\ At(t, "memory_write", "start")
    /\ \E k \in Key :
          /\ Insert(task[t].store, k)
          /\ task' = [task EXCEPT ![t].state = "owes", ![t].key = k, ![t].val = writes']
    /\ UNCHANGED <<depth, kept>>

Read(t) ==
    /\ At(t, "reader", "start")
    /\ \E k \in Key : Touch(task[t].store, k)
    /\ task' = [task EXCEPT ![t].state = "owes"]
    /\ UNCHANGED <<depth, kept>>

\* memory_read of a key that is not there, memory_recall, and the tools that
\* work outside this process
EndReader(t) ==
    /\ At(t, "reader", "start")
    /\ End(t)
    /\ UNCHANGED <<writing, file, writes, depth, kept>>

Persist(t) ==
    /\ BuiltinAt(t, "owes")
    /\ BeginPersist(task[t].store)
    /\ task' = [task EXCEPT ![t].state = "writes"]
    /\ UNCHANGED <<depth, kept>>

\* Mutant of Persisted: the file holds what was there when it was opened.
BugPersisted(t) ==
    /\ BuiltinAt(t, "writes")
    /\ LET es == entries[task[t].store]
       IN  file' = Picked(es, {i \in DOMAIN es : es[i].val # task[t].val})
    /\ writing' = writing \ {task[t].store}
    /\ End(t)
    /\ kept' = KeptWith(t)
    /\ UNCHANGED <<writes, depth>>

Persisted(t) ==
    /\ BuiltinAt(t, "writes")
    /\ EndPersist(task[t].store)
    /\ End(t)
    /\ kept' = KeptWith(t)
    /\ UNCHANGED depth

\* The file cannot be opened, or is left torn. The tool still says "Stored".
PersistFails(t) ==
    /\ \/ /\ BuiltinAt(t, "owes") /\ task[t].store \notin writing
          /\ UNCHANGED <<writing, file, writes, kept>>
       \/ /\ BuiltinAt(t, "writes")
          /\ BreakPersist(task[t].store)
          /\ kept' = NothingKept
    /\ End(t)
    /\ UNCHANGED depth

\* The process dies and starts again without a turn.
Crash ==
    /\ task' = [t \in Task |-> Free]
    /\ depth' = [t \in Task |-> [d \in Delegation |-> 0]]
    /\ entries' = [s \in Store |-> <<>>] /\ writing' = {}
    /\ kept' = IF writing = {} THEN kept ELSE NothingKept
    /\ UNCHANGED <<file, writes>>

-----------------------------------------------------------------------------
ToolStep(t) ==
    \/ Write(t) \/ Read(t) \/ Persist(t) \/ Persisted(t) \/ PersistFails(t)
    \/ EndReader(t)

Next ==
    \/ \E t \in Task :
          \/ \E s \in Store : StartTurn(t, s)
          \/ TimesOut(t)
          \/ EndTurn(t) \/ EndAgent(t) \/ Leave(t) \/ EndWorkflow(t)
          \/ ToolStep(t)
    \/ \E a, t \in Task :
          \/ \E tool \in Builtin \cup Delegation : Call(a, t, tool)
          \/ StartTask(a, t)
    \/ Crash

Spec == Init /\ [][Next]_vars
=============================================================================
