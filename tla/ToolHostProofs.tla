--------------------------- MODULE ToolHostProofs ---------------------------
(***************************************************************************)
(* For any number of tasks, stores, keys and writes: the state has its     *)
(* types, delegation has a bottom, the thread-locals are back at 0 when    *)
(* their thread is free, an agent awaits one call at most and leaves       *)
(* nothing running when it returns, what memory_write stored is kept, and  *)
(* without a mishap the memory is the one map of module Memory.            *)
(*                                                                         *)
(* IInv (types, levels, thread-locals) is inductive by itself, Tree (who   *)
(* waits for whom) given IInv, Ledger (what is in the stores and in the    *)
(* file) given both, and One (one store, saved or about to be) given all.  *)
(***************************************************************************)
EXTENDS ToolHostProps, SequenceLemmas, FiniteSetTheorems, TLAPS

\* A task that is not free, with no bound on its numbers
Record == [tool : Agent \cup Builtin \cup Delegation, caller : Task \cup {NoTask},
           awaited : BOOLEAN, state : States, store : Store,
           key : Key \cup {NoKey}, val : Nat, nested : Nat]

\* The types the steps rely on
Typed ==
    /\ writes \in Nat
    /\ task \in [Task -> Record \cup {Free}]
    /\ depth \in [Task -> [Delegation -> Nat]]

\* How deep a task of every kind is nested
Level(r) ==
    /\ r.tool # "none" => r.nested <= 2
    /\ r.tool \in {"turn", "workflow"} => r.nested = 0
    /\ r.tool = "task" => r.nested = 1

\* A thread counts the delegation that runs on it, and no other.
Counts(t) ==
    \A d \in Delegation : depth[t][d] = IF task[t].tool = d THEN 1 ELSE 0

\* What is inductive by itself: types, levels and thread-locals
IInv ==
    /\ Typed
    /\ \A t \in Task : Level(task[t])
    /\ \A t \in Task : Counts(t)

\* A task is free, or its record has every field.
LEMMA Kinds ==
    ASSUME Typed, NEW t \in Task
    PROVE  /\ task[t] = Free => task[t].tool = "none"
           /\ task[t] # Free => task[t] \in Record /\ task[t].tool # "none"
BY DEF Typed, Record, Free, Agent, Builtin, Delegation

\* The end of a task leaves the other tasks what they are.
LEMMA EndKeeps ==
    ASSUME IInv, NEW t \in Task, ~IsFree(t), End(t)
    PROVE  /\ task' \in [Task -> Record \cup {Free}]
           /\ task'[t].tool = "none"
           /\ \A u \in Task \ {t} : task'[u].tool = task[u].tool
           /\ \A u \in Task : Level(task'[u])
<1> DEFINE Ended(u) == IF u = t THEN Free
                       ELSE IF task[t].awaited /\ u = task[t].caller
                            THEN [task[u] EXCEPT !.state = "ready"]
                            ELSE task[u]
<1>1. task' = [u \in Task |-> Ended(u)]
  BY DEF End
<1>2. ASSUME NEW u \in Task
      PROVE  /\ Ended(u) \in Record \cup {Free}
             /\ u = t => Ended(u).tool = "none"
             /\ u # t => Ended(u).tool = task[u].tool
             /\ Level(Ended(u))
  <2>1. CASE u = t
    BY <2>1 DEF Free, Level
  <2>2. CASE u # t /\ task[t].awaited /\ u = task[t].caller
    <3>1. CASE task[u] = Free
      <4>1. Ended(u) = Free
        BY <2>2, <3>1 DEF Free
      <4> QED BY <4>1, <2>2, <3>1 DEF Free, Level
    <3>2. CASE task[u] # Free
      <4>1. task[u] \in Record
        BY <3>2, Kinds DEF IInv
      <4>2. Level(task[u])
        BY DEF IInv
      <4> QED BY <4>1, <4>2, <2>2 DEF Record, Level, States
    <3> QED BY <3>1, <3>2
  <2>3. CASE u # t /\ ~(task[t].awaited /\ u = task[t].caller)
    BY <2>3 DEF IInv, Typed
  <2> QED BY <2>1, <2>2, <2>3
<1> HIDE DEF Ended
<1> QED BY <1>1, <1>2

\* A step that changes neither what the tasks are nor the depths
LEMMA SameKinds ==
    ASSUME IInv, writes' \in Nat, depth' = depth,
           task' \in [Task -> Record \cup {Free}],
           \A u \in Task : /\ task'[u].tool = task[u].tool
                          /\ task'[u].nested = task[u].nested
    PROVE  IInv'
BY DEF IInv, Typed, Level, Counts

\* Setting the state of a task, free or not
LEMMA StateSet ==
    ASSUME NEW r \in Record \cup {Free}, NEW s \in States
    PROVE  /\ [r EXCEPT !.state = s] \in Record \cup {Free}
           /\ [r EXCEPT !.state = s].tool = r.tool
           /\ [r EXCEPT !.state = s].nested = r.nested
<1>1. CASE r \in Record
  BY <1>1 DEF Record
<1>2. CASE r = Free
  <2>1. [r EXCEPT !.state = s] = Free
    BY <1>2 DEF Free
  <2> QED BY <2>1, <1>2
<1> QED BY <1>1, <1>2

\* No task, no delegation counted
LEMMA InitOK == Init => IInv
BY DEF Init, MemInit, IInv, Typed, Free, Level, Counts, Delegation

\* Every step keeps the invariant.
LEMMA NextOK == IInv /\ [Next]_vars => IInv'
<1> SUFFICES ASSUME IInv, [Next]_vars PROVE IInv'
  OBVIOUS
<1> USE DEF IInv
<1>1. ASSUME NEW t \in Task, NEW s \in Store, StartTurn(t, s) PROVE IInv'
  <2>1. /\ task[t] = Free /\ task[t].tool = "none"
        /\ writes' = writes /\ depth' = depth
    BY <1>1, Kinds DEF StartTurn, IsFree, Open
  <2>2. task' = [task EXCEPT ![t] =
                   [tool |-> "turn", caller |-> NoTask, awaited |-> FALSE,
                    state |-> "ready", store |-> s, key |-> NoKey, val |-> 0,
                    nested |-> 0]]
    BY <1>1 DEF StartTurn
  <2>3. Typed'
    BY <2>1, <2>2 DEF Typed, Record, Agent, States
  <2>4. \A u \in Task : Level(task'[u])
    BY <2>2 DEF Level, Typed
  <2>5. \A u \in Task : Counts(u)'
    BY <2>1, <2>2 DEF Counts, Typed, Delegation
  <2> QED BY <2>3, <2>4, <2>5
<1>2. ASSUME NEW a \in Task, NEW t \in Task, NEW tool \in Builtin \cup Delegation,
             Call(a, t, tool)
      PROVE  IInv'
  <2> DEFINE new == Started(tool, a)
  <2>1. /\ task[t] = Free /\ task[t].tool = "none"
        /\ task[a] \in Record /\ a # t /\ task[a].tool \in Agent
        /\ tool \in ToolsOf(task[a].tool)
        /\ writes' = writes
    BY <1>2, Kinds DEF Call, AgentAt, IsFree, memVars
  <2>2. task' = [task EXCEPT ![a].state = "call", ![t] = new]
    BY <1>2 DEF Call
  <2>3. new \in Record
    BY <2>1 DEF Started, Record, States
  <2>4. Level(task[a])
    OBVIOUS
  <2>5. Level(new)
    <3>1. CASE task[a].tool = "turn"
      BY <2>1, <2>4, <3>1 DEF Started, Level, Record, Builtin, Delegation
    <3>2. CASE task[a].tool = "subagent"
      BY <2>1, <2>4, <3>2 DEF Started, Level, Record, ToolsOf, SharedWith, Builtin
    <3>3. CASE task[a].tool = "task"
      BY <2>1, <2>4, <3>3 DEF Started, Level, Record, ToolsOf, SharedWith, Builtin
    <3> QED BY <2>1, <3>1, <3>2, <3>3 DEF Agent
  <2>6. \A u \in Task : task'[u] = IF u = t THEN new
                                   ELSE IF u = a THEN [task[a] EXCEPT !.state = "call"]
                                   ELSE task[u]
    BY <2>1, <2>2 DEF Typed
  <2>7. [task[a] EXCEPT !.state = "call"] \in Record /\ Level([task[a] EXCEPT !.state = "call"])
        /\ [task[a] EXCEPT !.state = "call"].tool = task[a].tool
    BY <2>1, <2>4 DEF Record, Level, States
  <2>8. new.tool = tool
    BY DEF Started
  <2> HIDE DEF new
  <2>9. depth' = IF tool \in Delegation
                 THEN [depth EXCEPT ![t][tool] = @ + 1] ELSE depth
    BY <1>2 DEF Call
  <2>10. Typed'
    <3>1. task' \in [Task -> Record \cup {Free}]
      BY <2>2, <2>3, <2>7, <2>6, <2>1 DEF Typed
    <3>2. depth' \in [Task -> [Delegation -> Nat]]
      BY <2>9 DEF Typed
    <3> QED BY <3>1, <3>2, <2>1 DEF Typed
  <2>11. \A u \in Task : Level(task'[u])
    BY <2>5, <2>6, <2>7
  <2>12. \A u \in Task : Counts(u)'
    <3>1. \A d \in Delegation : depth[t][d] = 0
      BY <2>1 DEF Counts, Delegation
    <3>2. ASSUME NEW u \in Task, NEW d \in Delegation
          PROVE  depth'[u][d] = IF task'[u].tool = d THEN 1 ELSE 0
      <4>1. CASE u = t
        BY <2>6, <2>8, <2>9, <3>1, <4>1 DEF Typed
      <4>2. CASE u # t
        <5>1. depth'[u][d] = depth[u][d] /\ task'[u].tool = task[u].tool
          BY <2>6, <2>7, <2>9, <4>2 DEF Typed
        <5> QED BY <5>1 DEF Counts
      <4> QED BY <4>1, <4>2
    <3> QED BY <3>2 DEF Counts
  <2> QED BY <2>10, <2>11, <2>12
<1>3. ASSUME NEW t \in Task, TimesOut(t) PROVE IInv'
  <2>1. task[t] \in Record /\ writes' = writes /\ depth' = depth
    BY <1>3, Kinds DEF TimesOut, memVars, IsFree
  <2>2. task' = [task EXCEPT ![t].awaited = FALSE, ![task[t].caller].state = "ready"]
    BY <1>3 DEF TimesOut
  <2> DEFINE late == [task EXCEPT ![t].awaited = FALSE]
             c == task[t].caller
  <2>3. /\ late \in [Task -> Record \cup {Free}]
        /\ \A u \in Task : late[u].tool = task[u].tool /\ late[u].nested = task[u].nested
    BY <2>1 DEF Typed, Record
  <2>4. task' = [late EXCEPT ![c].state = "ready"]
    BY <2>2
  <2> HIDE DEF late, c
  <2>5. ASSUME NEW u \in Task
        PROVE  /\ task'[u] \in Record \cup {Free}
               /\ task'[u].tool = late[u].tool /\ task'[u].nested = late[u].nested
    <3>1. CASE u = c
      BY <2>3, <2>4, <3>1, StateSet DEF States
    <3>2. CASE u # c
      BY <2>3, <2>4, <3>2
    <3> QED BY <3>1, <3>2
  <2>6. task' \in [Task -> Record \cup {Free}]
    BY <2>3, <2>4, <2>5
  <2> QED BY <2>1, <2>3, <2>5, <2>6, SameKinds DEF Typed
<1>4. ASSUME NEW a \in Task, EndTurn(a) PROVE IInv'
  <2>1. /\ task[a] \in Record /\ task[a].tool = "turn"
        /\ writes' = writes /\ depth' = depth
    BY <1>4, Kinds DEF EndTurn, At, IsFree
  <2>2. ASSUME NEW u \in Task
        PROVE  /\ task'[u] \in Record \cup {Free}
               /\ u = a => task'[u] = Free
               /\ u # a => task'[u].tool = task[u].tool /\ task'[u].nested = task[u].nested
    <3>1. task'[u] = IF u = a THEN Free
                     ELSE IF u \in CalledBy(a) THEN [task[u] EXCEPT !.caller = NoTask]
                     ELSE task[u]
      BY <1>4 DEF EndTurn
    <3>2. u \in CalledBy(a) => task[u] \in Record
      BY Kinds DEF CalledBy, IsFree
    <3> QED BY <3>1, <3>2 DEF Record, Typed
  <2>3. task' \in [Task -> Record \cup {Free}]
    BY <1>4, <2>2 DEF EndTurn
  <2>4. Free.tool = "none"
    BY DEF Free
  <2>5. \A u \in Task : Level(task'[u])
    BY <2>2, <2>4 DEF Level
  <2>6. \A u \in Task : Counts(u)'
    BY <2>1, <2>2, <2>4 DEF Counts, Delegation
  <2> QED BY <2>1, <2>3, <2>5, <2>6 DEF Typed
<1>5. ASSUME NEW a \in Task, EndAgent(a) PROVE IInv'
  <2>1. /\ writes' = writes /\ depth' = depth
        /\ task' = [task EXCEPT ![a].state = "leave"]
    BY <1>5 DEF EndAgent, memVars
  <2>2. ASSUME NEW u \in Task
        PROVE  /\ task'[u] \in Record \cup {Free}
               /\ task'[u].tool = task[u].tool /\ task'[u].nested = task[u].nested
    BY <2>1, StateSet DEF Typed, States
  <2> QED BY <2>1, <2>2, SameKinds DEF Typed
<1>6. ASSUME NEW t \in Task, ~IsFree(t), End(t), writes' \in Nat,
             depth' = IF task[t].tool \in Delegation
                      THEN [depth EXCEPT ![t][task[t].tool] = @ - 1] ELSE depth
      PROVE  IInv'
  <2>1. /\ task' \in [Task -> Record \cup {Free}]
        /\ task'[t].tool = "none"
        /\ \A u \in Task \ {t} : task'[u].tool = task[u].tool
        /\ \A u \in Task : Level(task'[u])
    BY <1>6, EndKeeps
  <2>2. ASSUME NEW u \in Task, NEW d \in Delegation
        PROVE  depth'[u][d] = IF task'[u].tool = d THEN 1 ELSE 0
    <3>1. depth[u][d] = IF task[u].tool = d THEN 1 ELSE 0
      BY DEF Counts
    <3>2. CASE u = t
      BY <1>6, <2>1, <3>1, <3>2 DEF Typed, Delegation
    <3>3. CASE u # t
      BY <1>6, <2>1, <3>1, <3>3 DEF Typed
    <3> QED BY <3>2, <3>3
  <2>3. depth' \in [Task -> [Delegation -> Nat]]
    <3>1. task[t].tool \in Delegation => depth[t][task[t].tool] = 1
      BY DEF Counts
    <3> QED BY <1>6, <3>1 DEF Typed
  <2> QED BY <1>6, <2>1, <2>2, <2>3 DEF Typed, Counts
<1>7. ASSUME NEW a \in Task, Leave(a) PROVE IInv'
  <2>1. ~IsFree(a) /\ task[a].tool \in Agent /\ End(a) /\ writes' = writes
        /\ depth' = IF task[a].tool = "subagent"
                    THEN [depth EXCEPT ![a]["subagent"] = @ - 1] ELSE depth
    BY <1>7 DEF Leave, AgentAt
  <2>2. depth' = IF task[a].tool \in Delegation
                 THEN [depth EXCEPT ![a][task[a].tool] = @ - 1] ELSE depth
    BY <2>1 DEF Agent, Delegation
  <2> QED BY <2>1, <2>2, <1>6 DEF Typed
<1>8. ASSUME NEW w \in Task, NEW t \in Task, StartTask(w, t) PROVE IInv'
  <2> DEFINE new == [tool |-> "task", caller |-> w, awaited |-> TRUE,
                     state |-> "ready", store |-> task[w].store,
                     key |-> NoKey, val |-> 0, nested |-> task[w].nested + 1]
  <2>1. /\ task[t] = Free /\ task[t].tool = "none"
        /\ task[w] \in Record /\ w # t /\ task[w].tool = "workflow"
        /\ writes' = writes /\ depth' = depth
    BY <1>8, Kinds DEF StartTask, At, IsFree, memVars
  <2>2. task' = [task EXCEPT ![w].state = "call", ![t] = new]
    BY <1>8 DEF StartTask
  <2>3. Level(task[w])
    OBVIOUS
  <2>4. new \in Record /\ Level(new) /\ new.tool = "task"
    BY <2>1, <2>3 DEF Record, Level, Agent, States
  <2> HIDE DEF new
  <2>5. ASSUME NEW u \in Task
        PROVE  /\ task'[u] \in Record \cup {Free}
               /\ u = t => task'[u] = new
               /\ u # t => task'[u].tool = task[u].tool /\ task'[u].nested = task[u].nested
    <3>1. CASE u = t
      BY <2>1, <2>2, <2>4, <3>1 DEF Typed
    <3>2. CASE u = w
      <4>1. task'[u] = [task[w] EXCEPT !.state = "call"]
        BY <2>1, <2>2, <3>2 DEF Typed
      <4>2. task[w] \in Record \cup {Free} /\ "call" \in States
        BY <2>1 DEF States
      <4>3. /\ task'[w] \in Record \cup {Free}
            /\ task'[w].tool = task[w].tool /\ task'[w].nested = task[w].nested
        BY <3>2, <4>1, <4>2, StateSet
      <4> QED BY <2>1, <3>2, <4>3
    <3>3. CASE u # t /\ u # w
      BY <2>2, <3>3 DEF Typed
    <3> QED BY <3>1, <3>2, <3>3
  <2>6. task' \in [Task -> Record \cup {Free}]
    BY <2>2, <2>5 DEF Typed
  <2>7. \A u \in Task : Level(task'[u])
    BY <2>4, <2>5 DEF Level
  <2>8. \A u \in Task : Counts(u)'
    BY <2>1, <2>4, <2>5 DEF Counts, Delegation
  <2> QED BY <2>1, <2>6, <2>7, <2>8 DEF Typed
<1>9. ASSUME NEW w \in Task, EndWorkflow(w) PROVE IInv'
  <2>1. ~IsFree(w) /\ task[w].tool = "workflow" /\ End(w) /\ writes' = writes
        /\ depth' = [depth EXCEPT ![w]["workflow"] = @ - 1]
    BY <1>9 DEF EndWorkflow, At
  <2>2. depth' = IF task[w].tool \in Delegation
                 THEN [depth EXCEPT ![w][task[w].tool] = @ - 1] ELSE depth
    BY <2>1 DEF Delegation
  <2> QED BY <2>1, <2>2, <1>6 DEF Typed
<1>10. ASSUME NEW t \in Task, ToolStep(t) PROVE IInv'
  <2>1. CASE Write(t)
    <3>1. PICK k \in Key :
             /\ writes' = writes + 1
             /\ task' = [task EXCEPT ![t].state = "owes", ![t].key = k, ![t].val = writes']
      BY <2>1 DEF Write, Insert
    <3>2. task[t] \in Record /\ depth' = depth
      BY <2>1, Kinds DEF Write, At, IsFree
    <3>3. writes' \in Nat
      BY <3>1 DEF Typed
    <3>4. ASSUME NEW u \in Task
          PROVE  /\ task'[u] \in Record \cup {Free}
                 /\ task'[u].tool = task[u].tool /\ task'[u].nested = task[u].nested
      BY <3>1, <3>2, <3>3 DEF Typed, Record, States
    <3>5. task' \in [Task -> Record \cup {Free}]
      BY <3>1, <3>4 DEF Typed
    <3> QED BY <3>2, <3>3, <3>4, <3>5, SameKinds
  <2>2. ASSUME NEW s \in States, task' = [task EXCEPT ![t].state = s],
               writes' = writes, depth' = depth
        PROVE  IInv'
    <3>1. ASSUME NEW u \in Task
          PROVE  /\ task'[u] \in Record \cup {Free}
                 /\ task'[u].tool = task[u].tool /\ task'[u].nested = task[u].nested
      BY <2>2, StateSet DEF Typed
    <3> QED BY <2>2, <3>1, SameKinds DEF Typed
  <2>3. CASE Read(t)
    BY <2>3, <2>2 DEF Read, Touch, States
  <2>4. CASE Persist(t)
    BY <2>4, <2>2 DEF Persist, BeginPersist, States
  <2>5. ASSUME ~IsFree(t), End(t), task[t].tool \notin Delegation,
               writes' = writes, depth' = depth
        PROVE  IInv'
    BY <2>5, <1>6 DEF Typed
  <2>6. CASE EndReader(t)
    BY <2>6, <2>5 DEF EndReader, At, Delegation
  <2>7. CASE Persisted(t)
    BY <2>7, <2>5 DEF Persisted, EndPersist, BuiltinAt, Builtin, Delegation
  <2>8. CASE PersistFails(t)
    BY <2>8, <2>5 DEF PersistFails, BreakPersist, BuiltinAt, Builtin, Delegation
  <2> QED BY <1>10, <2>1, <2>3, <2>4, <2>6, <2>7, <2>8 DEF ToolStep
<1>11. CASE Crash
  BY <1>11 DEF Crash, Typed, Free, Level, Counts, Delegation
<1>12. CASE UNCHANGED vars
  BY <1>12 DEF vars, memVars, Typed, Level, Counts
<1> QED
  BY <1>1, <1>2, <1>3, <1>4, <1>5, <1>7, <1>8, <1>9, <1>10, <1>11, <1>12 DEF Next

-----------------------------------------------------------------------------
\* It holds at every step.
LEMMA InvAlways == Spec => []IInv
BY InitOK, NextOK, PTL DEF Spec

\* Delegation has a bottom: no agent is nested deeper than MAX_DEPTH, because
\* of the order in which the tools are registered (register_subagent shares
\* the builtin tools, register_workflow those and the subagent) and not
\* because of the thread-locals.
THEOREM DelegationEnds == Spec => []NestingBound
<1>1. IInv => NestingBound
  <2> SUFFICES ASSUME IInv, NEW t \in Live PROVE task[t].nested <= MaxDepth
    BY DEF NestingBound
  <2>1. task[t] \in Record /\ task[t].tool # "none"
    BY Kinds DEF Live, IsFree, IInv
  <2> QED BY <2>1, TaskAssumption DEF IInv, Level, Live, Record
<1> QED BY <1>1, InvAlways, PTL

\* The thread-locals DEPTH and WF_DEPTH are 0 on every thread that is free,
\* timeouts and crashes included: no delegation is refused for the sake of
\* one that is over.
THEOREM CountersReturn == Spec => []DepthRestored
<1>1. IInv => DepthRestored
  BY Kinds DEF IInv, Counts, DepthRestored, IsFree, Delegation
<1> QED BY <1>1, InvAlways, PTL

-----------------------------------------------------------------------------
(* Who waits for whom                                                      *)

\* A caller is there, runs agents and shares its store; the tasks of a workflow
\* are awaited to their end; a task that awaits a call awaits exactly one.
Called(ts) ==
    \A t \in Task : ts[t] # Free /\ ts[t].caller # NoTask =>
       LET c == ts[t].caller
       IN  /\ ts[c] # Free /\ ts[c].tool \in Agent \cup {"workflow"}
           /\ ts[c].store = ts[t].store
           /\ ts[c].tool = "workflow" => ts[t].tool = "task"
           /\ ts[t].tool # "turn"

\* A task whose caller waits for its result
Awaits(ts, t) == ts[t] # Free /\ ts[t].awaited

\* Who awaits a call awaits one, and stands at the call.
Awaited(ts) ==
    /\ \A t \in Task : Awaits(ts, t) => ts[t].caller # NoTask /\ ts[ts[t].caller].state = "call"
    /\ \A t \in Task : ts[t] # Free /\ ts[t].tool = "task" => Awaits(ts, t)
    /\ \A t, u \in Task : Awaits(ts, t) /\ Awaits(ts, u) /\ ts[t].caller = ts[u].caller => t = u
    /\ \A a \in Task : ts[a] # Free /\ ts[a].state = "call" =>
          \E t \in Task : Awaits(ts, t) /\ ts[t].caller = a

\* The tasks are a tree of callers.
Tree == Called(task) /\ Awaited(task)

\* The caller of a task that is not free
LEMMA CallerType ==
    ASSUME Typed, NEW t \in Task, task[t] # Free
    PROVE  task[t] \in Record /\ task[t].caller \in Task \cup {NoTask}
BY Kinds DEF Record

\* A task that calls nothing ends.
LEMMA EndTree ==
    ASSUME IInv, Tree, NEW t \in Task, ~IsFree(t), CalledBy(t) = {}, End(t)
    PROVE  Tree'
<1> DEFINE c == task[t].caller
<1>1. \A u \in Task : task'[u] = IF u = t THEN Free
                                 ELSE IF task[t].awaited /\ u = c
                                      THEN [task[u] EXCEPT !.state = "ready"]
                                      ELSE task[u]
  BY DEF End
<1>2. \A u \in Task : task[u] # Free =>
         task[u] \in Record /\ task[u].caller \in Task \cup {NoTask} /\ task[u].caller # t
  BY CallerType DEF CalledBy, IsFree, IInv
<1>3. task[t] # Free /\ (task[t].awaited => c \in Task /\ task[c] # Free /\ task[c].state = "call" /\ c # t)
  BY <1>2 DEF IsFree, Tree, Called, Awaited, Awaits
<1>4. ASSUME NEW u \in Task, u # t
      PROVE  /\ task'[u] = Free <=> task[u] = Free
             /\ task[u] # Free =>
                  /\ task'[u].caller = task[u].caller /\ task'[u].awaited = task[u].awaited
                  /\ task'[u].store = task[u].store /\ task'[u].tool = task[u].tool
                  /\ task'[u].state = IF task[t].awaited /\ u = c THEN "ready" ELSE task[u].state
  <2>1. CASE task[t].awaited /\ u = c
    <3>1. task[u] \in Record /\ task'[u] = [task[u] EXCEPT !.state = "ready"]
      BY <1>1, <1>2, <1>3, <1>4, <2>1
    <3>2. task'[u] \in Record /\ task'[u].tool = task[u].tool
      BY <3>1 DEF Record, States
    <3>3. task'[u] # Free
      BY <3>2 DEF Free, Record, Agent, Builtin, Delegation
    <3> QED BY <1>2, <1>3, <2>1, <3>1, <3>3 DEF Record
  <2>2. CASE ~(task[t].awaited /\ u = c)
    BY <1>1, <1>4, <2>2
  <2> QED BY <2>1, <2>2
<1>5. task'[t] = Free
  BY <1>1
<1> HIDE DEF c
<1>6. Called(task)'
  <2> SUFFICES ASSUME NEW u \in Task, task'[u] # Free, task'[u].caller # NoTask
               PROVE  LET d == task'[u].caller
                      IN  /\ task'[d] # Free /\ task'[d].tool \in Agent \cup {"workflow"}
                          /\ task'[d].store = task'[u].store
                          /\ task'[d].tool = "workflow" => task'[u].tool = "task"
                          /\ task'[u].tool # "turn"
    BY DEF Called
  <2>1. u # t /\ task[u] # Free /\ task[u].caller \in Task \ {t} /\ task'[u].caller = task[u].caller
    BY <1>2, <1>4, <1>5
  <2> QED BY <1>4, <2>1 DEF Tree, Called
<1>7. Awaited(task)'
  <2>1. \A u \in Task : Awaits(task', u) <=> u # t /\ Awaits(task, u)
    BY <1>4, <1>5 DEF Awaits
  <2>2. \A u \in Task : Awaits(task', u) => /\ u # t /\ task[u] # Free
                                           /\ task'[u].caller = task[u].caller
                                           /\ task[u].caller \in Task
    BY <1>2, <1>4, <2>1 DEF Awaits, Tree, Awaited
  <2>3. ASSUME NEW u \in Task, Awaits(task', u)
        PROVE  task'[u].caller # NoTask /\ task'[task'[u].caller].state = "call"
    <3>1. task[u].caller # NoTask /\ task[task[u].caller].state = "call" /\ task[task[u].caller] # Free
      BY <2>1, <2>2, <2>3 DEF Tree, Awaited, Called, Awaits
    <3>2. ~(task[t].awaited /\ task[u].caller = c)
      BY <1>3, <2>1, <2>3 DEF Tree, Awaited, Awaits, c
    <3>3. task[u].caller \in Task \ {t}
      BY <1>2, <2>2, <2>3
    <3> QED BY <1>4, <2>2, <2>3, <3>1, <3>2, <3>3
  <2>4. \A u \in Task : task'[u] # Free /\ task'[u].tool = "task" => Awaits(task', u)
    BY <1>4, <1>5, <2>1 DEF Tree, Awaited
  <2>5. \A u, v \in Task : Awaits(task', u) /\ Awaits(task', v) /\ task'[u].caller = task'[v].caller => u = v
    BY <2>1, <2>2 DEF Tree, Awaited
  <2>6. ASSUME NEW a \in Task, task'[a] # Free, task'[a].state = "call"
        PROVE  \E u \in Task : Awaits(task', u) /\ task'[u].caller = a
    <3>1. a # t /\ task[a] # Free /\ task[a].state = "call" /\ ~(task[t].awaited /\ a = c)
      BY <1>4, <1>5, <2>6
    <3>2. PICK u \in Task : Awaits(task, u) /\ task[u].caller = a
      BY <3>1 DEF Tree, Awaited
    <3>3. u # t
      BY <3>1, <3>2 DEF Awaits, c
    <3> QED BY <2>1, <2>2, <3>2, <3>3
  <2> QED BY <2>3, <2>4, <2>5, <2>6 DEF Awaited
<1> QED BY <1>6, <1>7 DEF Tree

\* What is said of the tasks when task a calls the new task t
SameBut(ts, a, t) ==
    \A u \in Task \ {t} :
       /\ ts[u] = Free <=> task[u] = Free
       /\ task[u] # Free =>
            /\ ts[u].caller = task[u].caller /\ ts[u].awaited = task[u].awaited
            /\ ts[u].store = task[u].store /\ ts[u].tool = task[u].tool
            /\ u # a => ts[u].state = task[u].state

\* A new task changes no other, but for the state of its caller.
LEMMA SpawnSame ==
    ASSUME Typed, NEW a \in Task, NEW t \in Task, NEW new \in Record,
           task[a] \in Record, a # t,
           task' = [task EXCEPT ![a].state = "call", ![t] = new]
    PROVE  SameBut(task', a, t) /\ task'[t] = new /\ task'[a].state = "call"
<1>1. /\ task'[t] = new /\ task'[a] = [task[a] EXCEPT !.state = "call"]
      /\ \A u \in Task \ {a, t} : task'[u] = task[u]
  BY DEF Typed
<1>2. task[a].tool # "none" /\ task[a] # Free
  BY Kinds DEF Record, Agent, Builtin, Delegation
<1>3. /\ task'[a].caller = task[a].caller
      /\ task'[a].awaited = task[a].awaited /\ task'[a].store = task[a].store
      /\ task'[a].tool = task[a].tool /\ task'[a].state = "call"
  BY <1>1 DEF Record
<1>4. task'[a] # Free
  BY <1>2, <1>3 DEF Free
<1> QED BY <1>1, <1>2, <1>3, <1>4 DEF SameBut

\* A task that awaits nothing calls a new one.
LEMMA SpawnTree ==
    ASSUME Typed, Tree, NEW a \in Task, NEW t \in Task, NEW new \in Record,
           task[a] # Free, task[a].state # "call", task[t] = Free, a # t,
           task[a].tool \in Agent \cup {"workflow"},
           task[a].tool = "workflow" => new.tool = "task", new.tool # "turn",
           new.caller = a, new.awaited = TRUE, new.state # "call",
           new.store = task[a].store,
           SameBut(task', a, t), task'[t] = new, task'[a].state = "call"
    PROVE  Tree'
<1>1. new # Free /\ a # NoTask
  <2>1. new.tool # "none"
    BY DEF Record, Agent, Builtin, Delegation
  <2> QED BY <2>1, TaskAssumption DEF Free
<1>2. task'[t] = new
  OBVIOUS
<1>3. /\ task'[a] # Free /\ task'[a].store = task[a].store
      /\ task'[a].tool = task[a].tool /\ task'[a].state = "call"
  BY DEF SameBut
<1>4. \A u \in Task : task[u] # Free => task[u].caller \in (Task \cup {NoTask}) \ {t}
  BY CallerType, TaskAssumption DEF Tree, Called
<1>5. \A u \in Task \ {t} :
         /\ task'[u] = Free <=> task[u] = Free
         /\ task[u] # Free =>
              /\ task'[u].caller = task[u].caller /\ task'[u].awaited = task[u].awaited
              /\ task'[u].store = task[u].store /\ task'[u].tool = task[u].tool
              /\ u # a => task'[u].state = task[u].state
  BY DEF SameBut
<1>6. Called(task)'
  <2> SUFFICES ASSUME NEW u \in Task, task'[u] # Free, task'[u].caller # NoTask
               PROVE  LET d == task'[u].caller
                      IN  /\ task'[d] # Free /\ task'[d].tool \in Agent \cup {"workflow"}
                          /\ task'[d].store = task'[u].store
                          /\ task'[d].tool = "workflow" => task'[u].tool = "task"
                          /\ task'[u].tool # "turn"
    BY DEF Called
  <2>1. CASE u = t
    BY <1>2, <1>3, <2>1
  <2>2. CASE u # t
    <3>1. task[u] # Free /\ task[u].caller \in Task \ {t} /\ task'[u].caller = task[u].caller
      BY <1>4, <1>5, <2>2
    <3> QED BY <1>5, <2>2, <3>1 DEF Tree, Called
  <2> QED BY <2>1, <2>2
<1>7. Awaited(task)'
  <2>1. /\ Awaits(task', t) /\ task'[t].caller = a
        /\ \A u \in Task \ {t} : /\ Awaits(task', u) <=> Awaits(task, u)
                                 /\ Awaits(task, u) => task'[u].caller = task[u].caller
    BY <1>1, <1>2, <1>5 DEF Awaits
  <2>2. \A u \in Task : Awaits(task, u) => task[u].caller \in Task \ {a, t}
    BY <1>4 DEF Awaits, Tree, Awaited
  <2>3. ASSUME NEW u \in Task, Awaits(task', u)
        PROVE  task'[u].caller # NoTask /\ task'[task'[u].caller].state = "call"
    <3>1. CASE u = t
      BY <1>1, <1>3, <2>1, <3>1
    <3>2. CASE u # t
      <4>1. Awaits(task, u) /\ task'[u].caller = task[u].caller /\ task[u].caller \in Task \ {a, t}
        BY <2>1, <2>2, <2>3, <3>2
      <4>2. /\ task[u].caller # NoTask /\ task[task[u].caller].state = "call"
            /\ task[task[u].caller] # Free
        BY <4>1 DEF Tree, Awaited, Called, Awaits
      <4> QED BY <1>5, <4>1, <4>2
    <3> QED BY <3>1, <3>2
  <2>4. \A u \in Task : task'[u] # Free /\ task'[u].tool = "task" => Awaits(task', u)
    BY <1>5, <2>1 DEF Tree, Awaited
  <2>5. \A u, v \in Task : Awaits(task', u) /\ Awaits(task', v) /\ task'[u].caller = task'[v].caller => u = v
    BY <2>1, <2>2 DEF Tree, Awaited
  <2>6. ASSUME NEW b \in Task, task'[b] # Free, task'[b].state = "call"
        PROVE  \E u \in Task : Awaits(task', u) /\ task'[u].caller = b
    <3>1. CASE b = a
      BY <2>1, <3>1
    <3>2. CASE b # a
      <4>1. b # t /\ task[b] # Free /\ task[b].state = "call"
        BY <1>2, <1>5, <2>6, <3>2
      <4>2. PICK u \in Task : Awaits(task, u) /\ task[u].caller = b
        BY <4>1 DEF Tree, Awaited
      <4>3. u # t
        BY <4>2 DEF Awaits
      <4> QED BY <2>1, <4>2, <4>3
    <3> QED BY <3>1, <3>2
  <2> QED BY <2>3, <2>4, <2>5, <2>6 DEF Awaited
<1> QED BY <1>6, <1>7 DEF Tree

\* Steps that change nothing of this but states, none from or to a call
LEMMA SameTree ==
    ASSUME Typed, Tree,
           \A u \in Task :
              /\ task'[u] = Free <=> task[u] = Free
              /\ task[u] # Free =>
                   /\ task'[u].caller = task[u].caller /\ task'[u].awaited = task[u].awaited
                   /\ task'[u].store = task[u].store /\ task'[u].tool = task[u].tool
                   /\ task'[u].state = "call" <=> task[u].state = "call"
    PROVE  Tree'
<1>1. \A u \in Task : task[u] # Free => task[u].caller \in Task \cup {NoTask}
  BY CallerType
<1>2. Called(task)'
  BY <1>1 DEF Tree, Called
<1>3. \A u \in Task : /\ Awaits(task', u) <=> Awaits(task, u)
                      /\ Awaits(task, u) => /\ task'[u].caller = task[u].caller
                                            /\ task[u].caller \in Task
                                            /\ task[task[u].caller] # Free
  BY <1>1 DEF Awaits, Tree, Awaited, Called
<1>4. Awaited(task)'
  <2>1. \A u \in Task : Awaits(task', u) => task'[u].caller # NoTask /\ task'[task'[u].caller].state = "call"
    BY <1>3 DEF Tree, Awaited
  <2>2. \A u \in Task : task'[u] # Free /\ task'[u].tool = "task" => Awaits(task', u)
    BY <1>3 DEF Tree, Awaited
  <2>3. \A u, v \in Task : Awaits(task', u) /\ Awaits(task', v) /\ task'[u].caller = task'[v].caller => u = v
    BY <1>3 DEF Tree, Awaited
  <2>4. \A a \in Task : task'[a] # Free /\ task'[a].state = "call" =>
           \E u \in Task : Awaits(task', u) /\ task'[u].caller = a
    BY <1>3 DEF Tree, Awaited
  <2> QED BY <2>1, <2>2, <2>3, <2>4 DEF Awaited
<1> QED BY <1>2, <1>4 DEF Tree

\* The state of one task changes.
LEMMA StateTree ==
    ASSUME Typed, Tree, NEW t \in Task, task[t] # Free, task[t].state # "call",
           NEW s \in States \ {"call"}, task' = [task EXCEPT ![t].state = s]
    PROVE  Tree'
<1>1. task[t] \in Record /\ task[t].tool # "none"
  BY Kinds
<1>2. task'[t] = [task[t] EXCEPT !.state = s] /\ \A u \in Task \ {t} : task'[u] = task[u]
  BY DEF Typed
<1>3. /\ task'[t].caller = task[t].caller /\ task'[t].awaited = task[t].awaited
      /\ task'[t].store = task[t].store /\ task'[t].tool = task[t].tool
      /\ task'[t].state = s
  BY <1>1, <1>2 DEF Record
<1>4. task'[t] # Free
  BY <1>1, <1>3 DEF Free
<1> QED BY <1>2, <1>3, <1>4, SameTree

\* A call that timed out is not awaited, and its caller goes on.
LEMMA TimesOutTree ==
    ASSUME Typed, Tree, NEW t \in Task, TimesOut(t)
    PROVE  Tree'
<1> DEFINE c == task[t].caller
           late == [task EXCEPT ![t].awaited = FALSE]
<1>1. task[t] \in Record /\ task[t] # Free /\ task[t].awaited /\ task[t].tool # "task"
  BY Kinds DEF TimesOut, IsFree
<1>2. c \in Task \ {NoTask} /\ task[c] # Free /\ task[c].state = "call"
  BY <1>1, CallerType, TaskAssumption DEF Tree, Called, Awaited, Awaits
<1>3. /\ task' = [late EXCEPT ![c].state = "ready"]
      /\ \A u \in Task : late[u] = IF u = t THEN [task[t] EXCEPT !.awaited = FALSE] ELSE task[u]
      /\ DOMAIN late = Task
  BY DEF TimesOut, Typed
<1>4. \A u \in Task : task[u] # Free => task[u] \in Record /\ task[u].tool # "none"
  BY Kinds
<1> HIDE DEF late
<1>5. /\ late[t].caller = c /\ late[t].awaited = FALSE /\ late[t].store = task[t].store
      /\ late[t].tool = task[t].tool /\ late[t].state = task[t].state /\ late[t] \in Record
  BY <1>1, <1>3 DEF Record
<1>6. /\ late[c] \in Record /\ late[c].tool # "none"
      /\ late[c].caller = task[c].caller /\ late[c].store = task[c].store
      /\ late[c].tool = task[c].tool /\ late[c].awaited = IF c = t THEN FALSE ELSE task[c].awaited
  BY <1>2, <1>3, <1>4, <1>5
<1>7. \A u \in Task : task'[u] = IF u = c THEN [late[c] EXCEPT !.state = "ready"] ELSE late[u]
  BY <1>2, <1>3
<1>8. /\ task'[c].caller = task[c].caller /\ task'[c].store = task[c].store
      /\ task'[c].tool = task[c].tool /\ task'[c].state = "ready" /\ task'[c].tool # "none"
      /\ task'[c].awaited = IF c = t THEN FALSE ELSE task[c].awaited
  BY <1>2, <1>6, <1>7 DEF Record
<1>9. \A u \in Task :
         /\ task'[u] = Free <=> task[u] = Free
         /\ task[u] # Free =>
              /\ task'[u].caller = task[u].caller /\ task'[u].store = task[u].store
              /\ task'[u].tool = task[u].tool
              /\ task'[u].awaited = IF u = t THEN FALSE ELSE task[u].awaited
              /\ task'[u].state = IF u = c THEN "ready" ELSE task[u].state
  <2> SUFFICES ASSUME NEW u \in Task
               PROVE  /\ task'[u] = Free <=> task[u] = Free
                      /\ task[u] # Free =>
                           /\ task'[u].caller = task[u].caller /\ task'[u].store = task[u].store
                           /\ task'[u].tool = task[u].tool
                           /\ task'[u].awaited = IF u = t THEN FALSE ELSE task[u].awaited
                           /\ task'[u].state = IF u = c THEN "ready" ELSE task[u].state
    OBVIOUS
  <2>1. CASE u = c
    <3>1. task'[c] # Free
      BY <1>8 DEF Free
    <3> QED BY <1>2, <1>8, <2>1, <3>1
  <2>2. CASE u # c /\ u = t
    <3>1. task'[t] = late[t]
      BY <1>7, <2>2
    <3>2. late[t] # Free
      BY <1>1, <1>4, <1>5 DEF Free
    <3> QED BY <1>1, <1>5, <2>2, <3>1, <3>2
  <2>3. CASE u # c /\ u # t
    BY <1>3, <1>7, <2>3
  <2> QED BY <2>1, <2>2, <2>3
<1>10. \A u \in Task : task[u] # Free => task[u].caller \in Task \cup {NoTask}
  BY CallerType
<1> HIDE DEF c
<1>11. Called(task)'
  <2> SUFFICES ASSUME NEW u \in Task, task'[u] # Free, task'[u].caller # NoTask
               PROVE  LET d == task'[u].caller
                      IN  /\ task'[d] # Free /\ task'[d].tool \in Agent \cup {"workflow"}
                          /\ task'[d].store = task'[u].store
                          /\ task'[d].tool = "workflow" => task'[u].tool = "task"
                          /\ task'[u].tool # "turn"
    BY DEF Called
  <2>1. task[u] # Free /\ task'[u].caller = task[u].caller /\ task[u].caller \in Task
    BY <1>9, <1>10
  <2>2. LET d == task[u].caller
        IN  /\ task[d] # Free /\ task[d].tool \in Agent \cup {"workflow"}
            /\ task[d].store = task[u].store
            /\ task[d].tool = "workflow" => task[u].tool = "task"
            /\ task[u].tool # "turn"
    BY <2>1 DEF Tree, Called
  <2> DEFINE d == task[u].caller
  <2>3. d \in Task /\ task[d] # Free
    BY <2>1, <2>2
  <2>4. /\ task'[d] # Free /\ task'[d].tool = task[d].tool /\ task'[d].store = task[d].store
        /\ task'[u].tool = task[u].tool /\ task'[u].store = task[u].store
    BY <1>9, <2>1, <2>3
  <2>5. task'[u].caller = d
    BY <2>1
  <2>6. /\ task[d].tool \in Agent \cup {"workflow"}
        /\ task[d].store = task[u].store
        /\ task[d].tool = "workflow" => task[u].tool = "task"
        /\ task[u].tool # "turn"
    BY <2>2
  <2> HIDE DEF d
  <2> QED BY <2>4, <2>5, <2>6
<1>12. /\ \A u \in Task : Awaits(task', u) <=> u # t /\ Awaits(task, u)
       /\ \A u \in Task : Awaits(task, u) => /\ task'[u].caller = task[u].caller
                                             /\ task[u].caller \in Task
                                             /\ task[task[u].caller] # Free
  <2>1. \A u \in Task : Awaits(task', u) <=> u # t /\ Awaits(task, u)
    BY <1>1, <1>9 DEF Awaits
  <2>2. \A u \in Task : Awaits(task, u) => task[u].caller # NoTask /\ task[u].caller \in Task
    BY <1>10 DEF Awaits, Tree, Awaited
  <2>3. \A u \in Task : Awaits(task, u) => task[task[u].caller] # Free
    BY <2>2 DEF Awaits, Tree, Called
  <2>4. \A u \in Task : Awaits(task, u) => task'[u].caller = task[u].caller
    BY <1>9 DEF Awaits
  <2> QED BY <2>1, <2>2, <2>3, <2>4
<1>13. \A u \in Task : Awaits(task, u) /\ task[u].caller = c => u = t
  BY <1>1 DEF Tree, Awaited, Awaits, c
<1>14. Awaited(task)'
  <2>1. ASSUME NEW u \in Task, Awaits(task', u)
        PROVE  task'[u].caller # NoTask /\ task'[task'[u].caller].state = "call"
    <3>1. /\ Awaits(task, u) /\ task[u].caller # c /\ task[u].caller \in Task
          /\ task'[u].caller = task[u].caller /\ task[task[u].caller] # Free
      BY <1>12, <1>13, <2>1
    <3>2. task[u].caller # NoTask /\ task[task[u].caller].state = "call"
      BY <3>1 DEF Tree, Awaited
    <3> QED BY <1>9, <3>1, <3>2
  <2>2. ASSUME NEW u \in Task, task'[u] # Free, task'[u].tool = "task"
        PROVE  Awaits(task', u)
    <3>1. u # t /\ task[u] # Free /\ task[u].tool = "task"
      BY <1>1, <1>9, <2>2
    <3>2. Awaits(task, u)
      BY <3>1 DEF Tree, Awaited
    <3> QED BY <1>12, <3>1, <3>2
  <2>3. \A u, v \in Task : Awaits(task', u) /\ Awaits(task', v) /\ task'[u].caller = task'[v].caller => u = v
    BY <1>12 DEF Tree, Awaited
  <2>4. ASSUME NEW a \in Task, task'[a] # Free, task'[a].state = "call"
        PROVE  \E u \in Task : Awaits(task', u) /\ task'[u].caller = a
    <3>1. a # c /\ task[a] # Free /\ task[a].state = "call"
      BY <1>9, <2>4
    <3>2. PICK u \in Task : Awaits(task, u) /\ task[u].caller = a
      BY <3>1 DEF Tree, Awaited
    <3>3. u # t
      BY <3>1, <3>2 DEF c
    <3> QED BY <1>12, <3>2, <3>3
  <2> QED BY <2>1, <2>2, <2>3, <2>4 DEF Awaited
<1> QED BY <1>11, <1>14 DEF Tree

\* A task without a caller begins, or the turn of one ends.
LEMMA StartTurnTree ==
    ASSUME Typed, Tree, NEW t \in Task, NEW s \in Store, StartTurn(t, s)
    PROVE  Tree'
<1>1. task[t] = Free /\ \A u \in Task : task[u] # Free => task[u].caller \in Task \cup {NoTask}
  BY CallerType DEF StartTurn, IsFree
<1>2. /\ task'[t].tool = "turn" /\ task'[t].caller = NoTask /\ task'[t].awaited = FALSE
      /\ task'[t].state = "ready"
      /\ \A u \in Task \ {t} : task'[u] = task[u]
  BY DEF StartTurn, Typed
<1>3. \A u \in Task : task[u] # Free => task[u].caller # t
  BY <1>1, TaskAssumption DEF Tree, Called
<1>4. Called(task)'
  BY <1>1, <1>2, <1>3 DEF Tree, Called
<1>5. \A u \in Task : Awaits(task', u) <=> u # t /\ Awaits(task, u)
  BY <1>1, <1>2 DEF Awaits
<1>6. \A u \in Task : Awaits(task, u) => u # t /\ task[u].caller \in Task \ {t}
  BY <1>1, <1>3 DEF Awaits, Tree, Awaited
<1>7. Awaited(task)'
  <2>1. \A u \in Task : Awaits(task', u) => task'[u].caller # NoTask /\ task'[task'[u].caller].state = "call"
    BY <1>2, <1>5, <1>6 DEF Tree, Awaited
  <2>2. \A u \in Task : task'[u] # Free /\ task'[u].tool = "task" => Awaits(task', u)
    BY <1>2, <1>5 DEF Tree, Awaited
  <2>3. \A u, v \in Task : Awaits(task', u) /\ Awaits(task', v) /\ task'[u].caller = task'[v].caller => u = v
    BY <1>2, <1>5 DEF Tree, Awaited
  <2>4. \A a \in Task : task'[a] # Free /\ task'[a].state = "call" =>
           \E u \in Task : Awaits(task', u) /\ task'[u].caller = a
    BY <1>2, <1>5, <1>6 DEF Tree, Awaited
  <2> QED BY <2>1, <2>2, <2>3, <2>4 DEF Awaited
<1> QED BY <1>4, <1>7 DEF Tree

\* What a turn leaves running has no caller.
LEMMA EndTurnTree ==
    ASSUME Typed, Tree, NEW a \in Task, EndTurn(a)
    PROVE  Tree'
<1>1. task[a] # Free /\ task[a].state = "ready"
  BY DEF EndTurn, At, IsFree
<1>2. \A u \in Task : task[u] # Free =>
         task[u] \in Record /\ task[u].tool # "none" /\ task[u].caller \in Task \cup {NoTask}
  BY CallerType, Kinds
<1>3. \A u \in Task : task'[u] = IF u = a THEN Free
                                 ELSE IF task[u] # Free /\ task[u].caller = a
                                      THEN [task[u] EXCEPT !.caller = NoTask]
                                      ELSE task[u]
  BY DEF EndTurn, CalledBy, IsFree
<1>4. ASSUME NEW u \in Task, u # a
      PROVE  /\ task'[u] = Free <=> task[u] = Free
             /\ task[u] # Free =>
                  /\ task'[u].caller = IF task[u].caller = a THEN NoTask ELSE task[u].caller
                  /\ task'[u].awaited = task[u].awaited /\ task'[u].store = task[u].store
                  /\ task'[u].tool = task[u].tool /\ task'[u].state = task[u].state
  <2>1. CASE task[u] # Free /\ task[u].caller = a
    <3>1. task[u] \in Record /\ task'[u] = [task[u] EXCEPT !.caller = NoTask]
      BY <1>2, <1>3, <1>4, <2>1
    <3>2. /\ task'[u].caller = NoTask /\ task'[u].awaited = task[u].awaited
          /\ task'[u].store = task[u].store /\ task'[u].tool = task[u].tool
          /\ task'[u].state = task[u].state
      BY <3>1 DEF Record
    <3>3. task'[u] # Free
      BY <1>2, <2>1, <3>2 DEF Free
    <3> QED BY <2>1, <3>2, <3>3
  <2>2. CASE ~(task[u] # Free /\ task[u].caller = a)
    BY <1>3, <1>4, <2>2
  <2> QED BY <2>1, <2>2
<1>5. task'[a] = Free
  BY <1>3
<1>6. Called(task)'
  <2> SUFFICES ASSUME NEW u \in Task, task'[u] # Free, task'[u].caller # NoTask
               PROVE  LET d == task'[u].caller
                      IN  /\ task'[d] # Free /\ task'[d].tool \in Agent \cup {"workflow"}
                          /\ task'[d].store = task'[u].store
                          /\ task'[d].tool = "workflow" => task'[u].tool = "task"
                          /\ task'[u].tool # "turn"
    BY DEF Called
  <2>1. u # a /\ task[u] # Free /\ task'[u].caller = task[u].caller /\ task[u].caller \in Task \ {a}
    BY <1>2, <1>4, <1>5
  <2>2. LET d == task[u].caller
        IN  /\ task[d] # Free /\ task[d].tool \in Agent \cup {"workflow"}
            /\ task[d].store = task[u].store
            /\ task[d].tool = "workflow" => task[u].tool = "task"
            /\ task[u].tool # "turn"
    BY <2>1, TaskAssumption DEF Tree, Called
  <2> QED BY <1>4, <2>1, <2>2
<1>7. \A u \in Task : Awaits(task, u) => task[u].caller \in Task \ {a} /\ task[task[u].caller] # Free
  BY <1>1, <1>2 DEF Awaits, Tree, Awaited, Called
<1>8. \A u \in Task : Awaits(task', u) <=> u # a /\ Awaits(task, u)
  BY <1>4, <1>5 DEF Awaits
<1>9. \A u \in Task : Awaits(task', u) => task'[u].caller = task[u].caller /\ task[u].caller \in Task \ {a}
  BY <1>4, <1>7, <1>8 DEF Awaits
<1>10. Awaited(task)'
  <2>1. ASSUME NEW u \in Task, Awaits(task', u)
        PROVE  task'[u].caller # NoTask /\ task'[task'[u].caller].state = "call"
    <3>1. task[u].caller # NoTask /\ task[task[u].caller].state = "call" /\ task[task[u].caller] # Free
      BY <1>7, <1>8, <2>1 DEF Tree, Awaited
    <3> QED BY <1>4, <1>9, <2>1, <3>1
  <2>2. \A u \in Task : task'[u] # Free /\ task'[u].tool = "task" => Awaits(task', u)
    BY <1>4, <1>5, <1>8 DEF Tree, Awaited
  <2>3. \A u, v \in Task : Awaits(task', u) /\ Awaits(task', v) /\ task'[u].caller = task'[v].caller => u = v
    BY <1>8, <1>9 DEF Tree, Awaited
  <2>4. ASSUME NEW b \in Task, task'[b] # Free, task'[b].state = "call"
        PROVE  \E u \in Task : Awaits(task', u) /\ task'[u].caller = b
    <3>1. b # a /\ task[b] # Free /\ task[b].state = "call"
      BY <1>4, <1>5, <2>4
    <3>2. PICK u \in Task : Awaits(task, u) /\ task[u].caller = b
      BY <3>1 DEF Tree, Awaited
    <3>3. u # a
      <4>1. task[a].tool = "turn"
        BY DEF EndTurn, At
      <4>2. task[u].tool # "turn"
        BY <3>2 DEF Awaits, Tree, Called, Awaited
      <4> QED BY <4>1, <4>2
    <3> QED BY <1>8, <1>9, <3>2, <3>3
  <2> QED BY <2>1, <2>2, <2>3, <2>4 DEF Awaited
<1> QED BY <1>6, <1>10 DEF Tree

\* A tool has no callees, and a workflow that awaits none has none at all.
LEMMA NoCallees ==
    ASSUME Tree, NEW t \in Task,
           task[t].tool \notin Agent,
           task[t].tool = "workflow" => task[t].state # "call"
    PROVE  CalledBy(t) = {}
<1> SUFFICES ASSUME NEW u \in CalledBy(t) PROVE FALSE
  OBVIOUS
<1>1. u \in Task /\ task[u] # Free /\ task[u].caller = t /\ t # NoTask
  BY TaskAssumption DEF CalledBy, IsFree
<1>2. task[t].tool = "workflow" /\ task[u].tool = "task"
  BY <1>1 DEF Tree, Called
<1>3. Awaits(task, u)
  BY <1>1, <1>2 DEF Tree, Awaited
<1> QED BY <1>1, <1>2, <1>3 DEF Tree, Awaited

\* A call is a new child of its agent.
LEMMA CallTree ==
    ASSUME IInv, Tree, NEW a \in Task, NEW t \in Task, NEW tool \in Builtin \cup Delegation,
           Call(a, t, tool)
    PROVE  Tree'
<1> DEFINE new == Started(tool, a)
<1>1. /\ Typed /\ task[t] = Free /\ task[a] # Free /\ task[a] \in Record /\ a # t
      /\ task[a].tool \in Agent /\ task[a].state = "ready"
  BY Kinds DEF Call, AgentAt, IsFree, IInv
<1>2. new \in Record
  BY <1>1 DEF Started, Record, States
<1>3. /\ new.caller = a /\ new.awaited = TRUE /\ new.state # "call"
      /\ new.store = task[a].store /\ new.tool = tool
  BY DEF Started
<1>4. task[a].tool # "workflow" /\ tool # "turn"
  BY <1>1 DEF Agent, Builtin, Delegation
<1>5. SameBut(task', a, t) /\ task'[t] = new /\ task'[a].state = "call"
  <2>1. task' = [task EXCEPT ![a].state = "call", ![t] = new]
    BY DEF Call
  <2> HIDE DEF new
  <2> QED BY <1>1, <1>2, <2>1, SpawnSame
<1> HIDE DEF new
<1> QED BY <1>1, <1>2, <1>3, <1>4, <1>5, SpawnTree

\* A task is a new child of its workflow.
LEMMA StartTaskTree ==
    ASSUME IInv, Tree, NEW w \in Task, NEW t \in Task, StartTask(w, t)
    PROVE  Tree'
<1> DEFINE new == [tool |-> "task", caller |-> w, awaited |-> TRUE,
                   state |-> "ready", store |-> task[w].store,
                   key |-> NoKey, val |-> 0, nested |-> task[w].nested + 1]
<1>1. /\ Typed /\ task[t] = Free /\ task[w] # Free /\ task[w] \in Record /\ w # t
      /\ task[w].tool = "workflow" /\ task[w].state \in {"start", "ready"}
  BY Kinds DEF StartTask, At, IsFree, IInv
<1>2. new \in Record
  BY <1>1 DEF Record, States, Agent
<1>3. /\ new.caller = w /\ new.awaited = TRUE /\ new.state # "call"
      /\ new.store = task[w].store /\ new.tool = "task"
  OBVIOUS
<1>4. SameBut(task', w, t) /\ task'[t] = new /\ task'[w].state = "call"
  <2>1. task' = [task EXCEPT ![w].state = "call", ![t] = new]
    BY DEF StartTask
  <2> HIDE DEF new
  <2> QED BY <1>1, <1>2, <2>1, SpawnSame
<1> HIDE DEF new
<1> QED BY <1>1, <1>2, <1>3, <1>4, SpawnTree

\* A write notes its key and its number as well.
LEMMA WriteTree ==
    ASSUME Typed, Tree, NEW t \in Task, Write(t)
    PROVE  Tree'
<1>1. PICK k \in Key :
         task' = [task EXCEPT ![t].state = "owes", ![t].key = k, ![t].val = writes']
  BY DEF Write
<1>2. task[t] \in Record /\ task[t] # Free /\ task[t].tool = "memory_write" /\ task[t].state = "start"
  BY Kinds DEF Write, At, IsFree
<1>3. /\ task'[t] = [task[t] EXCEPT !.state = "owes", !.key = k, !.val = writes']
      /\ \A u \in Task \ {t} : task'[u] = task[u]
  BY <1>1 DEF Typed
<1>4. /\ task'[t].caller = task[t].caller /\ task'[t].awaited = task[t].awaited
      /\ task'[t].store = task[t].store /\ task'[t].tool = task[t].tool
      /\ task'[t].state = "owes"
  BY <1>2, <1>3 DEF Record
<1>5. task'[t] # Free
  BY <1>2, <1>4 DEF Free
<1> QED BY <1>2, <1>3, <1>4, <1>5, SameTree

\* Every step keeps it.
LEMMA NextTree == IInv /\ Tree /\ [Next]_vars => Tree'
<1> SUFFICES ASSUME IInv, Tree, [Next]_vars PROVE Tree'
  OBVIOUS
<1>1. Typed
  BY DEF IInv
<1>2. ASSUME NEW t \in Task, NEW s \in Store, StartTurn(t, s) PROVE Tree'
  BY <1>1, <1>2, StartTurnTree
<1>3. ASSUME NEW t \in Task, TimesOut(t) PROVE Tree'
  BY <1>1, <1>3, TimesOutTree
<1>4. ASSUME NEW t \in Task, EndTurn(t) PROVE Tree'
  BY <1>1, <1>4, EndTurnTree
<1>5. ASSUME NEW t \in Task, EndAgent(t) PROVE Tree'
  BY <1>1, <1>5, StateTree DEF EndAgent, AgentAt, IsFree, States
<1>6. ASSUME NEW t \in Task, Leave(t) PROVE Tree'
  BY <1>6, EndTree DEF Leave, AgentAt
<1>7. ASSUME NEW t \in Task, EndWorkflow(t) PROVE Tree'
  <2>1. ~IsFree(t) /\ task[t].tool = "workflow" /\ task[t].state = "ready" /\ End(t)
    BY <1>7 DEF EndWorkflow, At
  <2>2. CalledBy(t) = {}
    BY <2>1, NoCallees DEF Agent
  <2> QED BY <2>1, <2>2, EndTree
<1>8. ASSUME NEW t \in Task, ToolStep(t) PROVE Tree'
  <2>1. CASE Write(t)
    BY <1>1, <2>1, WriteTree
  <2>2. CASE Read(t)
    BY <1>1, <2>2, StateTree DEF Read, At, IsFree, States
  <2>3. CASE Persist(t)
    <3>1. /\ task[t] # Free /\ task[t].state = "owes"
          /\ task' = [task EXCEPT ![t].state = "writes"]
      BY <2>3 DEF Persist, BuiltinAt, IsFree
    <3> QED BY <1>1, <3>1, StateTree DEF States
  <2>4. CASE Persisted(t) \/ PersistFails(t) \/ EndReader(t)
    <3>1. ~IsFree(t) /\ task[t].tool \in Builtin /\ End(t)
      BY <2>4 DEF Persisted, PersistFails, EndReader, BuiltinAt, At, Builtin
    <3>2. CalledBy(t) = {}
      BY <3>1, NoCallees DEF Agent, Builtin
    <3> QED BY <3>1, <3>2, EndTree
  <2> QED BY <1>8, <2>1, <2>2, <2>3, <2>4 DEF ToolStep
<1>9. CASE Crash
  <2>1. \A t \in Task : task'[t] = Free
    BY <1>9 DEF Crash
  <2> QED BY <2>1 DEF Tree, Called, Awaited, Awaits
<1>10. CASE UNCHANGED vars
  BY <1>10 DEF vars, Tree, Called, Awaited, Awaits
<1> QED BY <1>2, <1>3, <1>4, <1>5, <1>6, <1>7, <1>8, <1>9, <1>10, CallTree, StartTaskTree DEF Next

\* It holds at every step.
LEMMA TreeAlways == Spec => []Tree
<1>1. Init => Tree
  BY DEF Init, Tree, Called, Awaited, Awaits
<1> QED BY <1>1, InvAlways, NextTree, PTL DEF Spec

\* execute_checked: an agent that waits for the result of a call gets the result
\* of this one: it is the only one it awaits, and after a timeout nothing is.
THEOREM AnswersMatch == Spec => []OneAnswer
<1>1. IInv /\ Tree => OneAnswer
  <2> SUFFICES ASSUME IInv, Tree, NEW a \in Live
               PROVE  Cardinality({t \in CalledBy(a) : task[t].awaited}) =
                         IF task[a].state = "call" THEN 1 ELSE 0
    BY DEF OneAnswer
  <2> DEFINE awaited == {t \in CalledBy(a) : task[t].awaited}
  <2>1. a \in Task /\ task[a] # Free /\ awaited = {t \in Task : Awaits(task, t) /\ task[t].caller = a}
    BY DEF Live, IsFree, CalledBy, Awaits
  <2>2. CASE task[a].state = "call"
    <3>1. PICK t \in Task : Awaits(task, t) /\ task[t].caller = a
      BY <2>1, <2>2 DEF Tree, Awaited
    <3>2. awaited = {t}
      BY <2>1, <3>1 DEF Tree, Awaited
    <3> QED BY <2>2, <3>2, FS_Singleton
  <2>3. CASE task[a].state # "call"
    <3>1. awaited = {}
      BY <2>1, <2>3 DEF Tree, Awaited
    <3> QED BY <2>3, <3>1, FS_EmptySet
  <2> QED BY <2>2, <2>3
<1> QED BY <1>1, InvAlways, TreeAlways, PTL

\* subagent.rs and tools/workflow.rs: an agent that has returned has left
\* nothing running, whatever timed out under it.
THEOREM ChildrenGone == Spec => []NothingLeftBehind
<1>1. IInv /\ Tree => NothingLeftBehind
  BY DEF NothingLeftBehind, Live, IsFree, Tree, Called
<1> QED BY <1>1, InvAlways, TreeAlways, PTL

-----------------------------------------------------------------------------
(* The ledger: what is kept of the memory                                  *)

\* The entries of a store or of the file: one per key, no more than allowed
Neat(es) ==
    /\ Len(es) <= MaxEntries
    /\ \A i, j \in DOMAIN es : es[i].key = es[j].key => i = j

\* What write v of key k left in them: it or a later one is there, or entries
\* used since fill them.
Holding(es, k, v) ==
    \/ \E i \in DOMAIN es : es[i].key = k /\ es[i].val >= v
    \/ Len(es) = MaxEntries /\ \A i \in DOMAIN es : es[i].key # k

\* A task that writes the file
AtFile(r) == r # Free /\ r.tool \in Builtin /\ r.state = "writes"

\* A write that has not returned
Wrote(r) == r # Free /\ r.tool = "memory_write" /\ r.state \in {"owes", "writes"}

\* The memory by itself
MemTidy ==
    /\ MemTypeOK
    /\ Neat(file) /\ \A s \in Store : Neat(entries[s])
    /\ kept \in [Key -> 0 .. writes]
    /\ \A t \in Task : task[t] # Free => task[t].val \in 0 .. writes

\* A store is locked by the one task that writes the file.
Locks ==
    /\ \A s \in writing : \E t \in Task : AtFile(task[t]) /\ task[t].store = s
    /\ \A t \in Task : AtFile(task[t]) => task[t].store \in writing
    /\ \A t, u \in Task :
          AtFile(task[t]) /\ AtFile(task[u]) /\ task[t].store = task[u].store => t = u

\* A write that has not returned is in its store.
Stored ==
    \A t \in Task : Wrote(task[t]) =>
       /\ task[t].key \in Key
       /\ Holding(entries[task[t].store], task[t].key, task[t].val)

\* What is kept is in the file and in the store, the only one in use.
Keeps ==
    \A k \in Key : kept[k] # 0 =>
       /\ \A t, u \in Task : task[t] # Free /\ task[u] # Free => task[t].store = task[u].store
       /\ \A t \in Task : task[t] # Free => Holding(entries[task[t].store], k, kept[k])
       /\ writing = {} => Holding(file, k, kept[k])

\* What is inductive of the memory, given IInv and Tree
Ledger == MemTidy /\ Locks /\ Stored /\ Keeps

-----------------------------------------------------------------------------
(* Neat entries                                                            *)

\* Entry i is the one of key k, or i is after the last and there is none.
Place(es, k, i) ==
    /\ i \in 1 .. Len(es) + 1
    /\ \A n \in 1 .. Len(es) : es[n].key = k <=> n = i

\* Neat entries have a place for every key.
LEMMA PlaceOf ==
    ASSUME NEW es \in Seq(Item), Neat(es), NEW k
    PROVE  \E i : Place(es, k, i)
  <1>0. DOMAIN es = 1 .. Len(es) /\ Len(es) \in Nat
    OBVIOUS
  <1>1. CASE \E i \in 1 .. Len(es) : es[i].key = k
    <2>1. PICK i \in 1 .. Len(es) : es[i].key = k
      BY <1>1
    <2>2. \A n \in 1 .. Len(es) : es[n].key = k <=> n = i
      BY <1>0, <2>1 DEF Neat
    <2>3. i \in 1 .. Len(es) + 1
      BY <1>0
    <2> QED BY <2>2, <2>3 DEF Place
  <1>2. CASE ~\E i \in 1 .. Len(es) : es[i].key = k
    <2>1. \A n \in 1 .. Len(es) : n # Len(es) + 1
      BY <1>0
    <2>2. Len(es) + 1 \in 1 .. Len(es) + 1
      BY <1>0
    <2> QED BY <1>2, <2>1, <2>2 DEF Place
  <1> QED BY <1>1, <1>2

\* What the two filters find there
LEMMA Filters ==
    ASSUME NEW es \in Seq(Item), NEW k, NEW i, Place(es, k, i)
    PROVE  LET a == Others(es, k)
               m == ItemsOf(es, k)
           IN  /\ a \in Seq(Item)
               /\ Len(a) = IF i <= Len(es) THEN Len(es) - 1 ELSE Len(es)
               /\ \A j \in 1 .. Len(a) : a[j] = IF j < i THEN es[j] ELSE es[j + 1]
               /\ m = IF i <= Len(es) THEN <<es[i]>> ELSE <<>>
  <1> DEFINE I == {n \in DOMAIN es : es[n].key = k}
             J == {n \in DOMAIN es : es[n].key # k}
  <1>1. /\ \A n \in 1 .. Len(es) : n \in I <=> n = i
        /\ \A n \in 1 .. Len(es) : n \in J <=> n # i
        /\ DOMAIN es = 1 .. Len(es) /\ Len(es) \in Nat /\ i \in 1 .. Len(es) + 1
    BY DEF Place
  <1>2. ItemsOf(es, k) = Picked(es, I) /\ Others(es, k) = Picked(es, J)
    BY DEF ItemsOf, Others
  <1> HIDE DEF I, J
  <1>3. Picked(es, I) = IF i <= Len(es) THEN <<es[i]>> ELSE <<>>
    <2>1. CASE i <= Len(es)
      <3>1. i \in 1 .. Len(es)
        BY <1>1, <2>1
      <3>2. Picked(es, I) = <<es[i]>>
        BY <1>1, <3>1, PickedOne
      <3> QED BY <2>1, <3>2
    <2>2. CASE ~(i <= Len(es))
      <3>1. \A n \in DOMAIN es : n \notin I
        BY <1>1, <2>2
      <3>2. Picked(es, I) = <<>>
        BY <3>1, PickedNone
      <3> QED BY <2>2, <3>2
    <2> QED BY <2>1, <2>2
  <1> DEFINE a == Picked(es, J)
  <1>4. /\ a \in Seq(Item)
        /\ Len(a) = IF i <= Len(es) THEN Len(es) - 1 ELSE Len(es)
        /\ \A j \in 1 .. Len(a) : a[j] = IF j < i THEN es[j] ELSE es[j + 1]
    BY <1>1, PickedBut
  <1> QED BY <1>2, <1>3, <1>4

\* The found entry of Remembered
LEMMA Found ==
    ASSUME NEW es \in Seq(Item), Neat(es), NEW k, NEW v, Holding(es, k, v)
    PROVE  LET found == ItemsOf(es, k)
           IN  IF found = <<>> THEN Len(es) = MaxEntries ELSE found[1].val >= v
  <1>1. PICK i : Place(es, k, i)
    BY PlaceOf
  <1>2. ItemsOf(es, k) = IF i <= Len(es) THEN <<es[i]>> ELSE <<>>
    BY <1>1, Filters
  <1>3. /\ i \in 1 .. Len(es) + 1 /\ Len(es) \in Nat /\ DOMAIN es = 1 .. Len(es)
        /\ \A n \in 1 .. Len(es) : es[n].key = k <=> n = i
    BY <1>1 DEF Place
  <1>4. CASE i <= Len(es)
    <2>1. es[i].key = k /\ i \in DOMAIN es
      BY <1>3, <1>4
    <2>2. PICK n \in DOMAIN es : es[n].key = k /\ es[n].val >= v
      BY <2>1 DEF Holding
    <2>3. n = i
      BY <1>3, <2>2
    <2>4. <<es[i]>> # <<>> /\ <<es[i]>>[1] = es[i]
      OBVIOUS
    <2> QED BY <1>2, <1>4, <2>2, <2>3, <2>4
  <1>5. CASE ~(i <= Len(es))
    <2>1. \A n \in DOMAIN es : es[n].key # k
      BY <1>3, <1>5
    <2> QED BY <1>2, <1>5, <2>1 DEF Holding
  <1> QED BY <1>4, <1>5

\* An entry that is read becomes the latest.
LEMMA TouchKeeps ==
    ASSUME NEW es \in Seq(Item), Neat(es), NEW k, ItemsOf(es, k) # <<>>
    PROVE  LET new == Others(es, k) \o ItemsOf(es, k)
           IN  /\ new \in Seq(Item) /\ Neat(new)
               /\ \A x, v : Holding(es, x, v) => Holding(new, x, v)
  <1> DEFINE a == Others(es, k)
             new == a \o ItemsOf(es, k)
             N == Len(es)
  <1>1. PICK i : Place(es, k, i)
    BY PlaceOf
  <1>2. /\ a \in Seq(Item)
        /\ Len(a) = IF i <= N THEN N - 1 ELSE N
        /\ \A j \in 1 .. Len(a) : a[j] = IF j < i THEN es[j] ELSE es[j + 1]
        /\ ItemsOf(es, k) = IF i <= N THEN <<es[i]>> ELSE <<>>
    BY <1>1, Filters
  <1>3. i \in 1 .. N /\ N \in Nat /\ DOMAIN es = 1 .. N
    BY <1>1, <1>2 DEF Place
  <1> HIDE DEF a
  <1>4. es[i] \in Item /\ Len(a) = N - 1 /\ ItemsOf(es, k) = <<es[i]>>
    BY <1>2, <1>3
  <1>5. /\ new \in Seq(Item) /\ Len(new) = N
        /\ \A j \in 1 .. N - 1 : new[j] = a[j]
        /\ new[N] = es[i]
    <2>1. new = Append(a, es[i])
      BY <1>2, <1>4
    <2> HIDE DEF new
    <2> QED BY <1>2, <1>3, <1>4, <2>1
  <1> HIDE DEF new
  <1> DEFINE at(j) == IF j = N THEN i ELSE IF j < i THEN j ELSE j + 1
             to(j) == IF j = i THEN N ELSE IF j < i THEN j ELSE j - 1
  <1>n. N \in Nat /\ i \in Nat /\ 0 < i /\ i <= N
    BY <1>3
  <1>6. \A j \in 1 .. N : /\ at(j) \in 1 .. N /\ to(j) \in 1 .. N
                          /\ at(to(j)) = j /\ to(at(j)) = j
    <2> HIDE DEF N
    <2> TAKE j \in 1 .. N
    <2>1. at(j) \in 1 .. N /\ to(j) \in 1 .. N
      BY <1>n
    <2>2. at(to(j)) = j
      BY <1>n
    <2>3. to(at(j)) = j
      BY <1>n
    <2> QED BY <2>1, <2>2, <2>3
  <1>7. \A j \in 1 .. N : new[j] = es[at(j)]
    <2> TAKE j \in 1 .. N
    <2>1. CASE j = N
      BY <1>5, <2>1
    <2>2. CASE j # N
      <3>1. j \in 1 .. N - 1 /\ j \in 1 .. Len(a)
        <4>1. Len(a) = N - 1
          BY <1>4
        <4> HIDE DEF N
        <4> QED BY <1>n, <2>2, <4>1
      <3> QED BY <1>2, <1>5, <2>2, <3>1
    <2> QED BY <2>1, <2>2
  <1> HIDE DEF N, at, to
  <1>8. DOMAIN new = 1 .. N
    BY <1>5
  <1>9. Neat(new)
    <2>1. Len(new) <= MaxEntries
      BY <1>5 DEF Neat, N
    <2>2. ASSUME NEW j \in 1 .. N, NEW n \in 1 .. N, new[j].key = new[n].key
          PROVE  j = n
      <3>1. at(j) \in DOMAIN es /\ at(n) \in DOMAIN es
        BY <1>3, <1>6
      <3>2. at(j) = at(n)
        BY <1>7, <2>2, <3>1 DEF Neat
      <3> QED BY <1>6, <3>2
    <2> QED BY <1>8, <2>1, <2>2 DEF Neat
  <1>10. ASSUME NEW x, NEW v, Holding(es, x, v)
         PROVE  Holding(new, x, v)
    <2>1. CASE \E j \in DOMAIN es : es[j].key = x /\ es[j].val >= v
      <3>1. PICK j \in 1 .. N : es[j].key = x /\ es[j].val >= v
        BY <1>3, <2>1
      <3>2. to(j) \in 1 .. N /\ new[to(j)] = es[j]
        BY <1>6, <1>7
      <3> QED BY <1>8, <3>1, <3>2 DEF Holding
    <2>2. CASE Len(es) = MaxEntries /\ \A j \in DOMAIN es : es[j].key # x
      <3>1. \A j \in 1 .. N : new[j].key # x
        BY <1>3, <1>6, <1>7, <2>2
      <3> QED BY <1>5, <1>8, <2>2, <3>1 DEF Holding, N
    <2> QED BY <1>10, <2>1, <2>2 DEF Holding
  <1> QED BY <1>5, <1>9, <1>10 DEF new, a

\* b is es with item as its latest entry, and perhaps one too many.
Latest(es, k, item, b) ==
    /\ b \in Seq(Item)
    /\ Len(b) \in Nat /\ Len(b) # 0 /\ Len(b) <= MaxEntries + 1
    /\ Len(es) = MaxEntries => Len(b) >= MaxEntries
    /\ \A i, j \in DOMAIN b : b[i].key = b[j].key => i = j
    /\ b[Len(b)] = item
    /\ \A n \in DOMAIN es : es[n].key # k => \E j \in DOMAIN b : b[j] = es[n]
    /\ \A j \in DOMAIN b : b[j].key # k => \E n \in DOMAIN es : b[j] = es[n]

\* A new write takes the place of the older one of its key and is the latest.
LEMMA AppendKeeps ==
    ASSUME NEW es \in Seq(Item), Neat(es), NEW k, NEW item \in Item, item.key = k
    PROVE  Latest(es, k, item, Append(Others(es, k), item))
  <1> DEFINE a == Others(es, k)
             N == Len(es)
             M == Len(a)
             b == Append(a, item)
  <1>1. PICK i : Place(es, k, i)
    BY PlaceOf
  <1>2. /\ a \in Seq(Item)
        /\ M = IF i <= N THEN N - 1 ELSE N
        /\ \A j \in 1 .. M : a[j] = IF j < i THEN es[j] ELSE es[j + 1]
    BY <1>1, Filters
  <1>3. /\ i \in 1 .. N + 1 /\ N \in Nat /\ DOMAIN es = 1 .. N
        /\ \A n \in 1 .. N : es[n].key = k <=> n = i
    BY <1>1 DEF Place
  <1> HIDE DEF a
  <1>4. /\ b \in Seq(Item) /\ Len(b) = M + 1 /\ DOMAIN b = 1 .. M + 1 /\ M \in Nat
        /\ \A j \in 1 .. M : b[j] = a[j]
        /\ b[M + 1] = item
    BY <1>2
  <1> DEFINE at(j) == IF j < i THEN j ELSE j + 1
             to(n) == IF n < i THEN n ELSE n - 1
  <1> HIDE DEF b
  <1>5. \A j \in 1 .. M : b[j] = es[at(j)]
    BY <1>2, <1>4
  <1>6. /\ N \in Nat /\ i \in Nat /\ 0 < i /\ i <= N + 1
        /\ M = IF i <= N THEN N - 1 ELSE N
    <2>1. i \in 1 .. N + 1 /\ N \in Nat /\ M = IF i <= N THEN N - 1 ELSE N
      BY <1>2, <1>3
    <2> HIDE DEF N, M
    <2> QED BY <2>1
  <1> HIDE DEF N, M
  <1>7. \A j \in 1 .. M : at(j) \in 1 .. N /\ at(j) # i /\ to(at(j)) = j
    <2> TAKE j \in 1 .. M
    <2>1. at(j) \in 1 .. N /\ at(j) # i
      BY <1>6
    <2>2. to(at(j)) = j
      BY <1>6
    <2> QED BY <2>1, <2>2
  <1>8. \A n \in 1 .. N : n # i => to(n) \in 1 .. M /\ at(to(n)) = n
    <2> SUFFICES ASSUME NEW n \in 1 .. N, n # i
                 PROVE  to(n) \in 1 .. M /\ at(to(n)) = n
      OBVIOUS
    <2>1. to(n) \in 1 .. M
      BY <1>6
    <2>2. at(to(n)) = n
      BY <1>6
    <2> QED BY <2>1, <2>2
  <1> HIDE DEF at, to
  <1>9. \A j \in 1 .. M : b[j].key # k
    BY <1>3, <1>5, <1>7
  <1>10. \A j \in 1 .. M + 1 : j \in 1 .. M \/ j = M + 1
    BY <1>4
  <1>11. ASSUME NEW j \in DOMAIN b, NEW n \in DOMAIN b, b[j].key = b[n].key
         PROVE  j = n
    <2>1. CASE j \in 1 .. M /\ n \in 1 .. M
      <3>1. at(j) = at(n)
        BY <1>3, <1>5, <1>7, <1>11, <2>1 DEF Neat
      <3> QED BY <1>7, <2>1, <3>1
    <2>2. CASE j = M + 1 \/ n = M + 1
      <3>1. j = M + 1 /\ n = M + 1
        BY <1>4, <1>9, <1>10, <1>11, <2>2
      <3> QED BY <3>1
    <2> QED BY <1>4, <1>10, <2>1, <2>2
  <1>12. ASSUME NEW n \in DOMAIN es, es[n].key # k
         PROVE  \E j \in DOMAIN b : b[j] = es[n]
    <2>1. n \in 1 .. N /\ n # i
      BY <1>3, <1>12
    <2>2. to(n) \in 1 .. M /\ at(to(n)) = n
      BY <1>8, <2>1
    <2>3. b[to(n)] = es[n]
      BY <1>5, <2>2
    <2>4. to(n) \in DOMAIN b
      BY <1>4, <2>2
    <2> QED BY <2>3, <2>4
  <1>13. ASSUME NEW j \in DOMAIN b, b[j].key # k
         PROVE  \E n \in DOMAIN es : b[j] = es[n]
    <2>1. j \in 1 .. M
      BY <1>4, <1>10, <1>13
    <2> QED BY <1>3, <1>5, <1>7, <2>1
  <1>14. /\ Len(b) \in Nat /\ Len(b) # 0 /\ Len(b) <= MaxEntries + 1
         /\ N = MaxEntries => Len(b) >= MaxEntries
    <2>1. N <= MaxEntries /\ MaxEntries \in Nat
      BY EntriesAssumption DEF Neat, N
    <2> QED BY <1>4, <1>6, <2>1
  <1> QED BY <1>4, <1>11, <1>12, <1>13, <1>14 DEF Latest, a, b, N

\* After a trim every other key is as safe as it was.
LEMMA InsertKeeps ==
    ASSUME NEW es \in Seq(Item), Neat(es), NEW k \in Key, NEW w \in 1 .. MaxWrites
    PROVE  LET new == Trimmed(Append(Others(es, k), [key |-> k, val |-> w]))
           IN  /\ new \in Seq(Item) /\ Neat(new)
               /\ Holding(new, k, w)
               /\ \A x : \A v \in 0 .. w : Holding(es, x, v) => Holding(new, x, v)
  <1> DEFINE item == [key |-> k, val |-> w]
             b == Append(Others(es, k), item)
             new == Trimmed(b)
             L == Len(b)
  <1>1. item \in Item /\ item.key = k /\ item.val = w
    BY DEF Item
  <1> HIDE DEF item
  <1>2. /\ b \in Seq(Item)
        /\ L \in Nat /\ L # 0 /\ L <= MaxEntries + 1
        /\ Len(es) = MaxEntries => L >= MaxEntries
        /\ \A i, j \in DOMAIN b : b[i].key = b[j].key => i = j
        /\ b[L] = item
        /\ \A n \in DOMAIN es : es[n].key # k => \E j \in DOMAIN b : b[j] = es[n]
        /\ \A j \in DOMAIN b : b[j].key # k => \E n \in DOMAIN es : b[j] = es[n]
    <2>1. Latest(es, k, item, b)
      BY <1>1, AppendKeeps
    <2> HIDE DEF b
    <2> QED BY <2>1 DEF Latest
  <1> HIDE DEF b
  <1>3. DOMAIN b = 1 .. L /\ MaxEntries \in Nat /\ MaxEntries # 0
    BY <1>2, EntriesAssumption
  <1> DEFINE d == IF L > MaxEntries THEN 1 ELSE 0
             K == L - d
  <1>4. d \in {0, 1} /\ K \in Nat /\ K # 0 /\ K <= MaxEntries /\ d + K = L
        /\ (d = 1 => K = MaxEntries)
        /\ (Len(es) = MaxEntries => K = MaxEntries)
    <2>1. Len(es) = MaxEntries => L >= MaxEntries
      BY <1>2
    <2>2. L \in Nat /\ L # 0 /\ L <= MaxEntries + 1
      BY <1>2
    <2> HIDE DEF L
    <2> QED BY <1>3, <2>1, <2>2
  <1>5. new \in Seq(Item) /\ Len(new) = K /\ \A j \in 1 .. K : new[j] = b[j + d]
    <2>1. CASE L > MaxEntries
      <3>1. new = SubSeq(b, 2, L) /\ K = L - 1 /\ d = 1
        <4>1. L - MaxEntries + 1 = 2
          BY <1>2, <1>3, <2>1
        <4> QED BY <2>1, <4>1 DEF Trimmed
      <3>2. \A j \in 2 .. L : b[j] \in Item
        BY <1>2, <1>3
      <3>3. /\ SubSeq(b, 2, L) \in Seq(Item)
            /\ Len(SubSeq(b, 2, L)) = IF 2 <= L THEN L - 2 + 1 ELSE 0
            /\ \A j \in 1 .. L - 2 + 1 : SubSeq(b, 2, L)[j] = b[2 + j - 1]
        BY <1>2, <3>2, SubSeqProperties
      <3>4. 2 <= L /\ L - 2 + 1 = L - 1 /\ \A j \in 1 .. L - 1 : 2 + j - 1 = j + 1
        BY <1>2, <1>3, <2>1
      <3> HIDE DEF new, L, d, K
      <3> QED BY <3>1, <3>3, <3>4
    <2>2. CASE ~(L > MaxEntries)
      <3>1. new = b /\ K = L /\ d = 0
        BY <1>2, <2>2 DEF Trimmed
      <3>2. \A j \in 1 .. L : j + 0 = j
        OBVIOUS
      <3> HIDE DEF new, d, K
      <3> QED BY <1>2, <3>1, <3>2
    <2> QED BY <2>1, <2>2
  <1> HIDE DEF new, K, d, L
  <1>6. DOMAIN new = 1 .. K
    BY <1>5
  <1>7. \A j \in 1 .. K : j + d \in 1 .. L
    BY <1>2, <1>4
  <1>8. \A j \in 1 .. L : (j = 1 /\ d = 1) \/ (j - d \in 1 .. K /\ (j - d) + d = j)
    BY <1>2, <1>4
  <1>9. Neat(new)
    <2>1. ASSUME NEW i \in 1 .. K, NEW j \in 1 .. K, new[i].key = new[j].key
          PROVE  i = j
      <3>1. i + d = j + d
        <4>1. i + d \in DOMAIN b /\ j + d \in DOMAIN b /\ b[i + d].key = b[j + d].key
          BY <1>3, <1>5, <1>7, <2>1
        <4> QED BY <1>2, <4>1
      <3> QED BY <1>4, <3>1
    <2> QED BY <1>4, <1>5, <1>6, <2>1 DEF Neat
  <1>10. Holding(new, k, w)
    <2>1. K \in 1 .. K /\ K + d = L
      BY <1>4
    <2>2. new[K] = item
      BY <1>2, <1>5, <2>1
    <2>3. w >= w
      OBVIOUS
    <2> QED BY <1>1, <1>6, <2>1, <2>2, <2>3 DEF Holding
  <1>11. ASSUME NEW x, NEW v \in 0 .. w, Holding(es, x, v)
         PROVE  Holding(new, x, v)
    <2>1. CASE x = k
      <3>1. K \in 1 .. K /\ K + d = L
        BY <1>4
      <3>2. new[K] = item
        BY <1>2, <1>5, <3>1
      <3>3. w >= v
        OBVIOUS
      <3> QED BY <1>1, <1>6, <2>1, <3>1, <3>2, <3>3 DEF Holding
    <2>2. CASE x # k /\ \E n \in DOMAIN es : es[n].key = x /\ es[n].val >= v
      <3>1. PICK n \in DOMAIN es : es[n].key = x /\ es[n].val >= v
        BY <2>2
      <3>2. PICK j \in DOMAIN b : b[j] = es[n]
        BY <1>2, <2>2, <3>1
      <3>3. CASE j - d \in 1 .. K /\ (j - d) + d = j
        <4>1. new[j - d] = es[n]
          BY <1>5, <3>2, <3>3
        <4> QED BY <1>6, <3>1, <3>3, <4>1 DEF Holding
      <3>4. CASE j = 1 /\ d = 1
        <4>1. \A i \in 1 .. K : new[i].key # x
          <5> TAKE i \in 1 .. K
          <5>1. i + d # j /\ i + d \in DOMAIN b
            BY <1>3, <1>7, <3>4
          <5>2. b[i + d].key # b[j].key
            BY <1>2, <5>1
          <5> QED BY <1>5, <3>1, <3>2, <5>2
        <4> QED BY <1>4, <1>5, <1>6, <3>4, <4>1 DEF Holding
      <3> QED BY <1>3, <1>8, <3>3, <3>4
    <2>3. CASE x # k /\ Len(es) = MaxEntries /\ \A n \in DOMAIN es : es[n].key # x
      <3>1. \A i \in 1 .. K : new[i].key # x
        <4> TAKE i \in 1 .. K
        <4>1. i + d \in DOMAIN b /\ new[i] = b[i + d]
          BY <1>3, <1>5, <1>7
        <4> QED BY <1>2, <2>3, <4>1
      <3> QED BY <1>4, <1>5, <1>6, <2>3, <3>1 DEF Holding
    <2> QED BY <1>11, <2>1, <2>2, <2>3 DEF Holding
  <1> QED BY <1>5, <1>9, <1>10, <1>11 DEF new, b, item

-----------------------------------------------------------------------------
(* The steps that leave the memory alone                                   *)

\* A task that stays what it is, except that it may wait or be waited for, or
\* one that ends without being at the file
Kin(r, q) ==
    IF q = Free THEN ~AtFile(r)
    ELSE /\ r # Free
         /\ q.tool = r.tool /\ q.store = r.store /\ q.key = r.key /\ q.val = r.val
         /\ \/ q.state = r.state
            \/ q.state \notin {"owes", "writes"} /\ r.state \notin {"owes", "writes"}

\* A new task, which shares a store that is in use
Fresh(r, q) ==
    /\ r = Free /\ q # Free
    /\ q.val = 0 /\ q.state \notin {"owes", "writes"}
    /\ \E w \in Task : task[w] # Free /\ task[w].store = q.store

\* The steps that leave the memory alone
LEMMA Calm ==
    ASSUME IInv, IInv', Ledger, writing' = writing, file' = file, writes' = writes, kept' = kept,
           entries' = entries \/ DropUnused(StoresOf(task')),
           \A u \in Task : Kin(task[u], task'[u]) \/ Fresh(task[u], task'[u])
    PROVE  Ledger'
  <1>0. /\ writes \in Nat /\ MaxEntries \in Nat
        /\ \A u \in Task : task'[u] # Free => task'[u].store \in Store
    BY Kinds, EntriesAssumption DEF IInv, Typed, Record
  <1>1. ASSUME NEW u \in Task, task'[u] # Free
        PROVE  /\ \E w \in Task : task[w] # Free /\ task[w].store = task'[u].store
               /\ task'[u].val \in 0 .. writes
               /\ AtFile(task'[u]) => AtFile(task[u]) /\ task'[u].store = task[u].store
               /\ Wrote(task'[u]) => /\ Wrote(task[u]) /\ task'[u].store = task[u].store
                                     /\ task'[u].key = task[u].key /\ task'[u].val = task[u].val
    <2>1. CASE Kin(task[u], task'[u])
      BY <1>1, <2>1 DEF Kin, AtFile, Wrote, Ledger, MemTidy
    <2>2. CASE Fresh(task[u], task'[u])
      BY <1>0, <2>2 DEF Fresh, AtFile, Wrote
    <2> QED BY <2>1, <2>2
  <1>2. \A u \in Task : AtFile(task[u]) => AtFile(task'[u]) /\ task'[u].store = task[u].store
    <2> TAKE u \in Task
    <2>1. CASE Kin(task[u], task'[u])
      BY <2>1 DEF Kin, AtFile
    <2>2. CASE Fresh(task[u], task'[u])
      BY <2>2 DEF Fresh, AtFile
    <2> QED BY <2>1, <2>2
  <1>3. \A u \in Task : AtFile(task'[u]) => AtFile(task[u]) /\ task'[u].store = task[u].store
    BY <1>1 DEF AtFile
  <1>4. /\ entries' \in [Store -> Seq(Item)]
        /\ \A s \in Store : Neat(entries'[s])
        /\ \A u \in Task : task'[u] # Free => entries'[task'[u].store] = entries[task'[u].store]
    <2>1. CASE entries' = entries
      BY <2>1 DEF Ledger, MemTidy, MemTypeOK
    <2>2. CASE DropUnused(StoresOf(task'))
      <3>1. entries' = [s \in Store |-> IF s \in StoresOf(task') THEN entries[s] ELSE <<>>]
        BY <2>2 DEF DropUnused
      <3>2. Neat(<<>>) /\ <<>> \in Seq(Item)
        BY <1>0 DEF Neat
      <3>3. \A u \in Task : task'[u] # Free => task'[u].store \in StoresOf(task')
        BY DEF StoresOf
      <3> QED BY <1>0, <3>1, <3>2, <3>3 DEF Ledger, MemTidy, MemTypeOK
    <2> QED BY <2>1, <2>2
  <1>5. MemTidy'
    BY <1>1, <1>4 DEF Ledger, MemTidy, MemTypeOK
  <1>6. Locks'
    BY <1>2, <1>3 DEF Ledger, Locks
  <1>7. Stored'
    <2> SUFFICES ASSUME NEW u \in Task, Wrote(task'[u])
                 PROVE  /\ task'[u].key \in Key
                        /\ Holding(entries'[task'[u].store], task'[u].key, task'[u].val)
      BY DEF Stored
    <2>1. task'[u] # Free
      BY DEF Wrote
    <2> QED BY <1>1, <1>4, <2>1 DEF Ledger, Stored
  <1>8. Keeps'
    <2> SUFFICES ASSUME NEW k \in Key, kept[k] # 0
                 PROVE  /\ \A t, u \in Task : task'[t] # Free /\ task'[u] # Free
                              => task'[t].store = task'[u].store
                        /\ \A t \in Task : task'[t] # Free
                              => Holding(entries'[task'[t].store], k, kept[k])
                        /\ writing = {} => Holding(file, k, kept[k])
      BY DEF Keeps
    <2>1. /\ \A t, u \in Task : task[t] # Free /\ task[u] # Free => task[t].store = task[u].store
          /\ \A t \in Task : task[t] # Free => Holding(entries[task[t].store], k, kept[k])
          /\ writing = {} => Holding(file, k, kept[k])
      BY DEF Ledger, Keeps
    <2>2. \A t, u \in Task : task'[t] # Free /\ task'[u] # Free
                              => task'[t].store = task'[u].store
      BY <1>1, <2>1
    <2>3. ASSUME NEW t \in Task, task'[t] # Free
          PROVE  Holding(entries'[task'[t].store], k, kept[k])
      <3>1. PICK w \in Task : task[w] # Free /\ task[w].store = task'[t].store
        BY <1>1, <2>3
      <3>2. Holding(entries[task'[t].store], k, kept[k])
        BY <2>1, <3>1
      <3> QED BY <1>4, <2>3, <3>2
    <2> QED BY <2>1, <2>2, <2>3
  <1> QED BY <1>5, <1>6, <1>7, <1>8 DEF Ledger

\* The end of a task: its caller goes on.
LEMMA EndKin ==
    ASSUME IInv, Tree, NEW t \in Task, task[t] # Free, End(t)
    PROVE  /\ task'[t] = Free
           /\ DropUnused(StoresOf(task'))
           /\ \A u \in Task : u # t => Kin(task[u], task'[u])
           /\ \A u \in Task : u # t /\ task'[u] = Free => task[u] = Free
  <1>1. /\ DropUnused(StoresOf(task'))
        /\ \A u \in Task : task'[u] = IF u = t THEN Free
                                      ELSE IF task[t].awaited /\ u = task[t].caller
                                           THEN [task[u] EXCEPT !.state = "ready"]
                                           ELSE task[u]
    BY DEF End
  <1>2. ASSUME NEW u \in Task, u # t
        PROVE  Kin(task[u], task'[u]) /\ (task'[u] = Free => task[u] = Free)
    <2>1. CASE task[t].awaited /\ u = task[t].caller
      <3>1. Awaits(task, t)
        BY <2>1 DEF Awaits
      <3>2. task[u] # Free /\ task[u].state = "call"
        BY <2>1, <3>1, CallerType, TaskAssumption DEF Tree, Awaited, Called, IInv
      <3>3. task[u] \in Record /\ task'[u] = [task[u] EXCEPT !.state = "ready"]
        BY <1>1, <1>2, <2>1, <3>2, Kinds DEF IInv
      <3>4. /\ task'[u].state = "ready" /\ task'[u].tool = task[u].tool
            /\ task'[u].store = task[u].store /\ task'[u].key = task[u].key
            /\ task'[u].val = task[u].val
        BY <3>3 DEF Record
      <3>5. task'[u] # Free
        BY <3>2, <3>4, Kinds DEF Free, IInv
      <3> QED BY <3>2, <3>4, <3>5 DEF Kin
    <2>2. CASE ~(task[t].awaited /\ u = task[t].caller)
      <3>1. task'[u] = task[u]
        BY <1>1, <1>2, <2>2
      <3> QED BY <3>1 DEF Kin, AtFile
    <2> QED BY <2>1, <2>2
  <1> QED BY <1>1, <1>2

-----------------------------------------------------------------------------
(* Turns, writes and reads                                                 *)

\* A turn opens its store.
LEMMA StartTurnLedger ==
    ASSUME IInv, IInv', Ledger, NEW t \in Task, NEW s \in Store, StartTurn(t, s)
    PROVE  Ledger'
  <1>1. /\ task[t] = Free /\ s \notin InUse
        /\ entries' = [entries EXCEPT ![s] = file]
        /\ writing' = writing /\ file' = file /\ writes' = writes
        /\ kept' = IF InUse = {} THEN kept ELSE NothingKept
    BY DEF StartTurn, IsFree, Open
  <1>2. /\ task'[t] # Free /\ task'[t].tool = "turn" /\ task'[t].state = "ready"
        /\ task'[t].store = s /\ task'[t].val = 0
        /\ \A u \in Task : u # t => task'[u] = task[u]
    BY DEF StartTurn, IInv, Typed, Free
  <1>3. \A u \in Task : task[u] # Free => task[u].store \in InUse
    BY DEF InUse, StoresOf
  <1>4. entries'[s] = file /\ \A x \in Store : x # s => entries'[x] = entries[x]
    BY <1>1 DEF Ledger, MemTidy, MemTypeOK
  <1>5. ~AtFile(task'[t]) /\ ~Wrote(task'[t]) /\ ~AtFile(task[t])
    BY <1>1, <1>2 DEF AtFile, Wrote
  <1>6. \A u \in Task : task[u] # Free => task[u].store \in Store /\ task[u].store # s
    BY <1>1, <1>3, Kinds DEF IInv, Record
  <1>7. MemTidy'
    <2>1. entries' \in [Store -> Seq(Item)] /\ \A x \in Store : Neat(entries'[x])
      BY <1>1, <1>4 DEF Ledger, MemTidy, MemTypeOK
    <2>2. kept' \in [Key -> 0 .. writes]
      <3>1. writes \in Nat
        BY DEF IInv, Typed
      <3> QED BY <1>1, <3>1 DEF Ledger, MemTidy, NothingKept
    <2>3. \A u \in Task : task'[u] # Free => task'[u].val \in 0 .. writes
      <3>1. 0 \in 0 .. writes
        BY DEF IInv, Typed
      <3> QED BY <1>2, <3>1 DEF Ledger, MemTidy
    <2> QED BY <1>1, <2>1, <2>2, <2>3 DEF Ledger, MemTidy, MemTypeOK
  <1>8. Locks'
    <2>1. \A u \in Task : AtFile(task'[u]) <=> AtFile(task[u])
      BY <1>2, <1>5
    <2>2. \A u \in Task : AtFile(task[u]) => task'[u] = task[u]
      BY <1>2, <1>5
    <2> QED BY <1>1, <2>1, <2>2 DEF Ledger, Locks
  <1>9. Stored'
    <2> SUFFICES ASSUME NEW u \in Task, Wrote(task'[u])
                 PROVE  /\ task'[u].key \in Key
                        /\ Holding(entries'[task'[u].store], task'[u].key, task'[u].val)
      BY DEF Stored
    <2>1. task'[u] = task[u] /\ task[u] # Free
      BY <1>2, <1>5 DEF Wrote
    <2>2. entries'[task[u].store] = entries[task[u].store]
      BY <1>4, <1>6, <2>1
    <2> QED BY <2>1, <2>2 DEF Ledger, Stored
  <1>10. Keeps'
    <2> SUFFICES ASSUME NEW k \in Key, kept'[k] # 0
                 PROVE  /\ \A v, u \in Task : task'[v] # Free /\ task'[u] # Free
                              => task'[v].store = task'[u].store
                        /\ \A u \in Task : task'[u] # Free
                              => Holding(entries'[task'[u].store], k, kept'[k])
                        /\ writing' = {} => Holding(file', k, kept'[k])
      BY DEF Keeps
    <2>1. InUse = {} /\ kept' = kept
      BY <1>1 DEF NothingKept
    <2>2. \A u \in Task : task[u] = Free
      BY <1>3, <2>1
    <2>3. writing = {}
      BY <2>2 DEF Ledger, Locks, AtFile
    <2>4. Holding(file, k, kept[k])
      BY <2>1, <2>3 DEF Ledger, Keeps
    <2>5. \A u \in Task : task'[u] # Free => u = t
      BY <1>2, <2>2
    <2> QED BY <1>1, <1>2, <1>4, <2>1, <2>4, <2>5
  <1> QED BY <1>7, <1>8, <1>9, <1>10 DEF Ledger

\* Task t changes store s to es, and what any write left in it stays.
Changes(t, s, es) ==
    /\ s \in Store /\ es \in Seq(Item) /\ Neat(es)
    /\ entries' = [entries EXCEPT ![s] = es]
    /\ writing' = writing /\ file' = file /\ kept' = kept
    /\ writes' \in writes .. MaxWrites
    /\ \A k : \A v \in 0 .. writes : Holding(entries[s], k, v) => Holding(es, k, v)
    /\ task[t] # Free /\ ~AtFile(task[t]) /\ task[t].store = s
    /\ task'[t] # Free /\ ~AtFile(task'[t]) /\ task'[t].store = s
    /\ task'[t].val \in 0 .. writes'
    /\ Wrote(task'[t]) => task'[t].key \in Key /\ Holding(es, task'[t].key, task'[t].val)
    /\ \A u \in Task : u # t => task'[u] = task[u]

\* The ledger then stays right.
LEMMA StoreChanges ==
    ASSUME IInv, IInv', Ledger, NEW t \in Task, NEW s, NEW es, Changes(t, s, es)
    PROVE  Ledger'
  <1> USE DEF Changes
  <1>1. entries'[s] = es /\ \A x \in Store : x # s => entries'[x] = entries[x]
    BY DEF Ledger, MemTidy, MemTypeOK
  <1>2. \A u \in Task : task[u] # Free => task[u].store \in Store /\ task[u].val \in 0 .. writes
    BY Kinds DEF IInv, Record, Ledger, MemTidy
  <1>3. /\ writes \in Nat /\ writes' \in Nat /\ MaxWrites \in Nat
        /\ \A v \in 0 .. writes : v \in 0 .. writes'
    BY EntriesAssumption DEF IInv, Typed
  <1>4. \A x \in Store : \A k : \A v \in 0 .. writes :
           Holding(entries[x], k, v) => Holding(entries'[x], k, v)
    BY <1>1
  <1>5. MemTidy'
    <2>1. entries' \in [Store -> Seq(Item)] /\ \A x \in Store : Neat(entries'[x])
      BY <1>1 DEF Ledger, MemTidy, MemTypeOK
    <2>2. kept' \in [Key -> 0 .. writes'] /\ writes' \in 0 .. MaxWrites
      BY <1>3 DEF Ledger, MemTidy
    <2>3. \A u \in Task : task'[u] # Free => task'[u].val \in 0 .. writes'
      BY <1>2, <1>3
    <2> QED BY <2>1, <2>2, <2>3 DEF Ledger, MemTidy, MemTypeOK
  <1>6. Locks'
    <2>1. \A u \in Task : AtFile(task'[u]) <=> AtFile(task[u])
      OBVIOUS
    <2>2. \A u \in Task : AtFile(task[u]) => task'[u] = task[u]
      OBVIOUS
    <2> QED BY <2>1, <2>2 DEF Ledger, Locks
  <1>7. Stored'
    <2> SUFFICES ASSUME NEW u \in Task, Wrote(task'[u])
                 PROVE  /\ task'[u].key \in Key
                        /\ Holding(entries'[task'[u].store], task'[u].key, task'[u].val)
      BY DEF Stored
    <2>1. CASE u = t
      BY <1>1, <2>1
    <2>2. CASE u # t
      <3>1. task'[u] = task[u] /\ Wrote(task[u]) /\ task[u] # Free
        BY <2>2 DEF Wrote
      <3> QED BY <1>2, <1>4, <3>1 DEF Ledger, Stored
    <2> QED BY <2>1, <2>2
  <1>8. Keeps'
    <2> SUFFICES ASSUME NEW k \in Key, kept[k] # 0
                 PROVE  /\ \A v, u \in Task : task'[v] # Free /\ task'[u] # Free
                              => task'[v].store = task'[u].store
                        /\ \A u \in Task : task'[u] # Free
                              => Holding(entries'[task'[u].store], k, kept[k])
                        /\ writing = {} => Holding(file, k, kept[k])
      BY DEF Keeps
    <2>1. \A u \in Task : /\ task'[u] # Free <=> task[u] # Free
                          /\ task[u] # Free => task'[u].store = task[u].store
      OBVIOUS
    <2>2. kept[k] \in 0 .. writes
      BY DEF Ledger, MemTidy
    <2>3. /\ \A v, u \in Task : task[v] # Free /\ task[u] # Free => task[v].store = task[u].store
          /\ \A u \in Task : task[u] # Free => Holding(entries[task[u].store], k, kept[k])
          /\ writing = {} => Holding(file, k, kept[k])
      BY DEF Ledger, Keeps
    <2> QED BY <1>2, <1>4, <2>1, <2>2, <2>3
  <1> QED BY <1>5, <1>6, <1>7, <1>8 DEF Ledger

\* write and read under the lock of the store
LEMMA WriteLedger ==
    ASSUME IInv, IInv', Ledger, NEW t \in Task, Write(t)
    PROVE  Ledger'
  <1>1. PICK k \in Key :
           /\ Insert(task[t].store, k)
           /\ task' = [task EXCEPT ![t].state = "owes", ![t].key = k, ![t].val = writes']
    BY DEF Write
  <1> DEFINE s == task[t].store
             es == Trimmed(Append(Others(entries[s], k), [key |-> k, val |-> writes']))
  <1>2. /\ task[t] # Free /\ task[t].tool = "memory_write" /\ task[t].state = "start"
        /\ task[t] \in Record
    BY Kinds DEF Write, At, IsFree, IInv
  <1>3. /\ task'[t] = [task[t] EXCEPT !.state = "owes", !.key = k, !.val = writes']
        /\ \A u \in Task : u # t => task'[u] = task[u]
    BY <1>1 DEF IInv, Typed
  <1>4. /\ task'[t].store = s /\ task'[t].key = k /\ task'[t].val = writes'
        /\ task'[t].state = "owes" /\ task'[t].tool = "memory_write"
    BY <1>2, <1>3 DEF Record
  <1>5. /\ writes < MaxWrites /\ writes' = writes + 1
        /\ entries' = [entries EXCEPT ![s] = es]
        /\ writing' = writing /\ file' = file
    BY <1>1, <1>2 DEF Insert, Ledger, MemTidy, MemTypeOK, Record
  <1>6. /\ writes \in Nat /\ MaxWrites \in Nat /\ s \in Store
        /\ entries[s] \in Seq(Item) /\ Neat(entries[s])
    BY <1>2, EntriesAssumption DEF Ledger, MemTidy, MemTypeOK, Record
  <1>7. /\ writes' \in 1 .. MaxWrites /\ writes' \in writes .. MaxWrites
        /\ writes' \in 0 .. writes'
        /\ \A v \in 0 .. writes : v \in 0 .. writes'
    BY <1>5, <1>6
  <1> HIDE DEF s
  <1>8. /\ es \in Seq(Item) /\ Neat(es) /\ Holding(es, k, writes')
        /\ \A x : \A v \in 0 .. writes' : Holding(entries[s], x, v) => Holding(es, x, v)
    BY <1>6, <1>7, InsertKeeps
  <1> HIDE DEF es
  <1>9. task'[t] # Free /\ ~AtFile(task'[t]) /\ ~AtFile(task[t])
    BY <1>2, <1>4 DEF Free, AtFile
  <1>10. kept' = kept
    BY DEF Write
  <1>11. \A x : \A v \in 0 .. writes : Holding(entries[s], x, v) => Holding(es, x, v)
    BY <1>7, <1>8
  <1>12. task[t].store = s
    BY DEF s
  <1>13. /\ task'[t].store = s /\ task'[t].val \in 0 .. writes'
         /\ task'[t].key \in Key /\ Holding(es, task'[t].key, task'[t].val)
    BY <1>4, <1>7, <1>8
  <1>14. writes' \in writes .. MaxWrites
    BY <1>7
  <1>15. task[t] # Free /\ s \in Store /\ es \in Seq(Item) /\ Neat(es)
    BY <1>2, <1>6, <1>8
  <1>16. Changes(t, s, es)
    BY <1>3, <1>5, <1>9, <1>10, <1>11, <1>12, <1>13, <1>14, <1>15 DEF Changes
  <1> QED BY <1>16, StoreChanges

\* The entry that is read becomes the latest.
LEMMA ReadLedger ==
    ASSUME IInv, IInv', Ledger, NEW t \in Task, Read(t)
    PROVE  Ledger'
  <1> DEFINE s == task[t].store
  <1>1. PICK k \in Key : Touch(s, k)
    BY DEF Read
  <1> DEFINE es == Others(entries[s], k) \o ItemsOf(entries[s], k)
  <1>2. /\ task[t] # Free /\ task[t].tool = "reader" /\ task[t].state = "start"
        /\ task[t] \in Record /\ task' = [task EXCEPT ![t].state = "owes"]
        /\ kept' = kept
    BY Kinds DEF Read, At, IsFree, IInv
  <1>3. /\ task'[t] = [task[t] EXCEPT !.state = "owes"]
        /\ \A u \in Task : u # t => task'[u] = task[u]
    BY <1>2 DEF IInv, Typed
  <1>4. /\ task'[t].store = s /\ task'[t].val = task[t].val
        /\ task'[t].state = "owes" /\ task'[t].tool = "reader"
    BY <1>2, <1>3 DEF Record
  <1>5. /\ ItemsOf(entries[s], k) # <<>> /\ writes' = writes
        /\ entries' = [entries EXCEPT ![s] = es]
        /\ writing' = writing /\ file' = file
    BY <1>1, <1>2 DEF Touch, Holds, Ledger, MemTidy, MemTypeOK, Record
  <1>6. /\ writes \in Nat /\ writes <= MaxWrites /\ MaxWrites \in Nat /\ s \in Store
        /\ entries[s] \in Seq(Item) /\ Neat(entries[s]) /\ task[t].val \in 0 .. writes
    BY <1>2, EntriesAssumption DEF Ledger, MemTidy, MemTypeOK, Record
  <1>7. writes' \in writes .. MaxWrites
    BY <1>5, <1>6
  <1> HIDE DEF s
  <1>8. /\ es \in Seq(Item) /\ Neat(es)
        /\ \A x, v : Holding(entries[s], x, v) => Holding(es, x, v)
    BY <1>5, <1>6, TouchKeeps
  <1> HIDE DEF es
  <1>9. task'[t] # Free /\ ~AtFile(task'[t]) /\ ~AtFile(task[t]) /\ ~Wrote(task'[t])
    BY <1>2, <1>4 DEF Free, AtFile, Wrote
  <1>10. task[t].store = s
    BY DEF s
  <1>11. task'[t].val \in 0 .. writes'
    BY <1>4, <1>5, <1>6
  <1>12. \A x : \A v \in 0 .. writes : Holding(entries[s], x, v) => Holding(es, x, v)
    BY <1>8
  <1>13. Changes(t, s, es)
    BY <1>2, <1>3, <1>4, <1>5, <1>6, <1>7, <1>8, <1>9, <1>10, <1>11, <1>12 DEF Changes
  <1> QED BY <1>13, StoreChanges

-----------------------------------------------------------------------------
(* The file                                                                *)

\* persist takes the lock and cuts the file off.
LEMMA PersistLedger ==
    ASSUME IInv, IInv', Ledger, NEW t \in Task, Persist(t)
    PROVE  Ledger'
  <1> DEFINE s == task[t].store
  <1>1. /\ task[t] # Free /\ task[t].tool \in Builtin /\ task[t].state = "owes"
        /\ task[t] \in Record /\ task' = [task EXCEPT ![t].state = "writes"]
        /\ s \notin writing /\ writing' = writing \cup {s} /\ file' = <<>>
        /\ entries' = entries /\ writes' = writes /\ kept' = kept
    BY Kinds DEF Persist, BuiltinAt, IsFree, IInv, BeginPersist
  <1>2. /\ task'[t] = [task[t] EXCEPT !.state = "writes"]
        /\ \A u \in Task : u # t => task'[u] = task[u]
    BY <1>1 DEF IInv, Typed
  <1>3. /\ task'[t].store = s /\ task'[t].val = task[t].val /\ task'[t].key = task[t].key
        /\ task'[t].state = "writes" /\ task'[t].tool = task[t].tool
    BY <1>1, <1>2 DEF Record
  <1>4. task'[t] # Free /\ s \in Store
    BY <1>1, <1>3, Kinds DEF IInv, Free, Record, Builtin
  <1> HIDE DEF s
  <1>5. AtFile(task'[t]) /\ (Wrote(task'[t]) => Wrote(task[t]))
    BY <1>1, <1>3, <1>4 DEF AtFile, Wrote
  <1>6. MemTidy'
    <2>1. Neat(<<>>) /\ <<>> \in Seq(Item)
      BY EntriesAssumption DEF Neat
    <2> QED BY <1>1, <1>2, <1>3, <1>4, <2>1 DEF Ledger, MemTidy, MemTypeOK
  <1>7. Locks'
    <2>1. \A u \in Task : AtFile(task[u]) => u # t /\ task[u].store # s
      BY <1>1 DEF Ledger, Locks, AtFile
    <2>2. \A u \in Task : AtFile(task'[u]) <=> u = t \/ AtFile(task[u])
      BY <1>2, <1>5, <2>1
    <2>3. \A x \in writing : \E u \in Task : AtFile(task[u]) /\ task[u].store = x
      BY DEF Ledger, Locks
    <2> QED BY <1>1, <1>2, <1>3, <1>5, <2>1, <2>2, <2>3 DEF Ledger, Locks
  <1>8. Stored'
    BY <1>1, <1>2, <1>3, <1>5 DEF Ledger, Stored, s
  <1>9. Keeps'
    <2>1. writing' # {}
      BY <1>1
    <2>2. \A u \in Task : /\ task'[u] # Free <=> task[u] # Free
                          /\ task'[u].store = task[u].store
      BY <1>1, <1>2, <1>3, <1>4 DEF s
    <2> QED BY <1>1, <2>1, <2>2 DEF Ledger, Keeps
  <1> QED BY <1>6, <1>7, <1>8, <1>9 DEF Ledger

\* What the end of a task that wrote the file does to the locks and stores
LEMMA AwayFromFile ==
    ASSUME IInv, IInv', Tree, Ledger, NEW t \in Task, AtFile(task[t]), End(t),
           writing' = writing \ {task[t].store}, writes' = writes
    PROVE  /\ task'[t] = Free
           /\ entries' \in [Store -> Seq(Item)] /\ \A s \in Store : Neat(entries'[s])
           /\ \A u \in Task : task'[u] # Free =>
                 /\ task[u] # Free /\ task'[u].store = task[u].store
                 /\ task'[u].val = task[u].val
                 /\ entries'[task'[u].store] = entries[task'[u].store]
           /\ Locks' /\ Stored'
  <1>1. /\ task'[t] = Free /\ DropUnused(StoresOf(task'))
        /\ \A u \in Task : u # t => Kin(task[u], task'[u])
    BY EndKin DEF AtFile
  <1>2. ASSUME NEW u \in Task, task'[u] # Free
        PROVE  /\ u # t /\ task[u] # Free /\ task'[u].store = task[u].store
               /\ task'[u].val = task[u].val /\ task'[u].key = task[u].key
               /\ Wrote(task'[u]) => Wrote(task[u])
               /\ AtFile(task'[u]) => AtFile(task[u])
    BY <1>1, <1>2 DEF Kin, AtFile, Wrote
  <1>3. ASSUME NEW u \in Task, u # t, AtFile(task[u])
        PROVE  AtFile(task'[u]) /\ task'[u].store = task[u].store
    BY <1>1, <1>3 DEF Kin, AtFile
  <1>4. /\ entries' \in [Store -> Seq(Item)]
        /\ \A s \in Store : Neat(entries'[s])
        /\ \A u \in Task : task'[u] # Free => entries'[task'[u].store] = entries[task'[u].store]
    <2>1. entries' = [s \in Store |-> IF s \in StoresOf(task') THEN entries[s] ELSE <<>>]
      BY <1>1 DEF DropUnused
    <2>2. Neat(<<>>) /\ <<>> \in Seq(Item)
      BY EntriesAssumption DEF Neat
    <2>3. \A u \in Task : task'[u] # Free => task'[u].store \in StoresOf(task')
      BY DEF StoresOf
    <2>4. \A u \in Task : task'[u] # Free => task'[u].store \in Store
      BY Kinds DEF IInv, Typed, Record
    <2> QED BY <2>1, <2>2, <2>3, <2>4 DEF Ledger, MemTidy, MemTypeOK
  <1>5. Locks'
    <2>1. \A u \in Task : u # t /\ AtFile(task[u]) => task[u].store # task[t].store
      BY DEF Ledger, Locks
    <2>2. \A u \in Task : AtFile(task'[u]) => u # t /\ AtFile(task[u]) /\ task'[u].store = task[u].store
      BY <1>2 DEF AtFile
    <2>3. ASSUME NEW x \in writing'
          PROVE  \E u \in Task : AtFile(task'[u]) /\ task'[u].store = x
      <3>1. x \in writing /\ x # task[t].store
        BY <2>3
      <3>2. PICK u \in Task : AtFile(task[u]) /\ task[u].store = x
        BY <3>1 DEF Ledger, Locks
      <3> QED BY <1>3, <3>1, <3>2
    <2>4. \A u \in Task : AtFile(task'[u]) => task'[u].store \in writing'
      BY <2>1, <2>2 DEF Ledger, Locks
    <2>5. \A u, v \in Task : AtFile(task'[u]) /\ AtFile(task'[v]) /\ task'[u].store = task'[v].store
                               => u = v
      BY <2>2 DEF Ledger, Locks
    <2> QED BY <2>3, <2>4, <2>5 DEF Locks
  <1>6. Stored'
    <2> SUFFICES ASSUME NEW u \in Task, Wrote(task'[u])
                 PROVE  /\ task'[u].key \in Key
                        /\ Holding(entries'[task'[u].store], task'[u].key, task'[u].val)
      BY DEF Stored
    <2>1. task'[u] # Free
      BY DEF Wrote
    <2> QED BY <1>2, <1>4, <2>1 DEF Ledger, Stored
  <1> QED BY <1>1, <1>2, <1>4, <1>5, <1>6

\* The file is written, and the tool returns.
LEMMA PersistedLedger ==
    ASSUME IInv, IInv', Tree, Ledger, NEW t \in Task, Persisted(t)
    PROVE  Ledger'
  <1> DEFINE s == task[t].store
  <1>1. /\ task[t] # Free /\ task[t] \in Record /\ task[t].tool \in Builtin /\ AtFile(task[t])
        /\ task[t].state = "writes"
        /\ End(t) /\ file' = entries[s] /\ writing' = writing \ {s} /\ writes' = writes
        /\ kept' = KeptWith(t)
    BY Kinds DEF Persisted, BuiltinAt, IsFree, IInv, EndPersist, AtFile
  <1>2. /\ task'[t] = Free
        /\ entries' \in [Store -> Seq(Item)] /\ \A x \in Store : Neat(entries'[x])
        /\ \A u \in Task : task'[u] # Free =>
              /\ task[u] # Free /\ task'[u].store = task[u].store
              /\ task'[u].val = task[u].val
              /\ entries'[task'[u].store] = entries[task'[u].store]
        /\ Locks' /\ Stored'
    BY <1>1, AwayFromFile
  <1>3. s \in Store /\ entries[s] \in Seq(Item) /\ Neat(entries[s]) /\ writes \in Nat
        /\ task[t].val \in 0 .. writes
    BY <1>1 DEF Record, Ledger, MemTidy, MemTypeOK, IInv, Typed
  <1> HIDE DEF s
  <1>4. \A k \in Key : kept'[k] # kept[k] =>
           /\ task[t].tool = "memory_write" /\ InUse = {s}
           /\ k = task[t].key /\ kept'[k] = task[t].val
    BY <1>1 DEF KeptWith, Ledger, MemTidy, s
  <1>5. MemTidy'
    <2>1. kept' \in [Key -> 0 .. writes]
      BY <1>1, <1>3 DEF KeptWith, Ledger, MemTidy
    <2> QED BY <1>1, <1>2, <1>3, <2>1 DEF Ledger, MemTidy, MemTypeOK
  <1>6. Keeps'
    <2> SUFFICES ASSUME NEW k \in Key, kept'[k] # 0
                 PROVE  /\ \A v, u \in Task : task[v] # Free /\ task[u] # Free
                              => task[v].store = task[u].store
                        /\ Holding(entries[s], k, kept'[k])
      <3>1. task[t].store = s
        BY DEF s
      <3> QED BY <1>1, <1>2, <3>1 DEF Keeps
    <2>1. CASE kept'[k] = kept[k]
      <3>1. kept[k] # 0
        BY <2>1
      <3>2. task[t].store = s
        BY DEF s
      <3> QED BY <1>1, <2>1, <3>1, <3>2 DEF Ledger, Keeps
    <2>2. CASE kept'[k] # kept[k]
      <3>1. \A u \in Task : task[u] # Free => task[u].store = s
        BY <1>4, <2>2 DEF InUse, StoresOf
      <3>2. Holding(entries[s], task[t].key, task[t].val)
        BY <1>1, <1>4, <2>2 DEF Ledger, Stored, Wrote, s
      <3> QED BY <1>4, <2>2, <3>1, <3>2
    <2> QED BY <2>1, <2>2
  <1> QED BY <1>2, <1>5, <1>6 DEF Ledger

\* The file cannot be opened, or is left torn.
LEMMA PersistFailsLedger ==
    ASSUME IInv, IInv', Tree, Ledger, NEW t \in Task, PersistFails(t)
    PROVE  Ledger'
  <1>1. CASE BuiltinAt(t, "owes") /\ UNCHANGED <<writing, file, writes, kept>>
    <2>1. task[t] # Free /\ ~AtFile(task[t]) /\ End(t)
      BY <1>1 DEF PersistFails, BuiltinAt, IsFree, AtFile
    <2>2. /\ task'[t] = Free /\ DropUnused(StoresOf(task'))
          /\ \A u \in Task : u # t => Kin(task[u], task'[u])
      BY <2>1, EndKin
    <2>3. \A u \in Task : Kin(task[u], task'[u])
      BY <2>1, <2>2 DEF Kin
    <2> QED BY <1>1, <2>2, <2>3, Calm
  <1>2. CASE BuiltinAt(t, "writes") /\ BreakPersist(task[t].store) /\ kept' = NothingKept
    <2>1. /\ AtFile(task[t]) /\ End(t) /\ writing' = writing \ {task[t].store}
          /\ file' = file /\ writes' = writes /\ kept' = NothingKept
      BY <1>2 DEF PersistFails, BuiltinAt, IsFree, AtFile, BreakPersist
    <2>2. /\ task'[t] = Free
          /\ entries' \in [Store -> Seq(Item)] /\ \A x \in Store : Neat(entries'[x])
          /\ \A u \in Task : task'[u] # Free =>
                /\ task[u] # Free /\ task'[u].store = task[u].store
                /\ task'[u].val = task[u].val
                /\ entries'[task'[u].store] = entries[task'[u].store]
          /\ Locks' /\ Stored'
      BY <2>1, AwayFromFile
    <2>3. MemTidy'
      <3>1. writes \in Nat
        BY DEF IInv, Typed
      <3>2. kept' \in [Key -> 0 .. writes]
        BY <2>1, <3>1 DEF NothingKept
      <3> QED BY <2>1, <2>2, <3>2 DEF Ledger, MemTidy, MemTypeOK
    <2>4. Keeps'
      BY <2>1 DEF Keeps, NothingKept
    <2> QED BY <2>2, <2>3, <2>4 DEF Ledger
  <1> QED BY <1>1, <1>2 DEF PersistFails

-----------------------------------------------------------------------------
(* Every step                                                              *)

\* A task that has used its store and not yet written the file
Owes(r) == r # Free /\ r.tool \in Builtin /\ r.state \in {"owes", "writes"}

\* A step that leaves the memory alone and ends no task that owes a write
Quiet ==
    /\ UNCHANGED <<writing, file, writes, kept>>
    /\ entries' = entries \/ DropUnused(StoresOf(task'))
    /\ \A u \in Task : Kin(task[u], task'[u]) \/ Fresh(task[u], task'[u])
    /\ \A u \in Task : task'[u] = Free => ~Owes(task[u])

\* A tool that is called, or a task of a workflow, is new and shares the store
\* of its caller, which only changes its state.
LEMMA CallQuiet ==
    ASSUME IInv, NEW a \in Task, NEW t \in Task, NEW new,
           task[a] # Free, task[a].state \notin {"owes", "writes"}, task[t] = Free,
           task' = [task EXCEPT ![a].state = "call", ![t] = new],
           new # Free, new.store = task[a].store, new.val = 0,
           new.state \notin {"owes", "writes"},
           UNCHANGED <<memVars, kept>>
    PROVE  Quiet
  <1>1. /\ a # t /\ task[a] \in Record
        /\ task'[a] = [task[a] EXCEPT !.state = "call"] /\ task'[t] = new
        /\ \A u \in Task : u \notin {a, t} => task'[u] = task[u]
    BY Kinds DEF IInv, Typed
  <1>2. /\ task'[a].state = "call" /\ task'[a].tool = task[a].tool
        /\ task'[a].store = task[a].store /\ task'[a].key = task[a].key
        /\ task'[a].val = task[a].val
    BY <1>1 DEF Record
  <1>3. Kin(task[a], task'[a])
    BY <1>2 DEF Kin, AtFile
  <1>4. Fresh(task[t], task'[t])
    BY <1>1 DEF Fresh
  <1>5. \A u \in Task : u \notin {a, t} => Kin(task[u], task'[u])
    BY <1>1 DEF Kin, AtFile
  <1>6. \A u \in Task : Kin(task[u], task'[u]) \/ Fresh(task[u], task'[u])
    BY <1>3, <1>4, <1>5
  <1>7. entries' = entries /\ writing' = writing /\ file' = file /\ writes' = writes /\ kept' = kept
    BY DEF memVars
  <1>8. \A u \in Task : task'[u] = Free => ~Owes(task[u])
    BY <1>1 DEF Owes
  <1> QED BY <1>6, <1>7, <1>8 DEF Quiet

\* The caller goes on, the call of its own.
LEMMA TimesOutQuiet ==
    ASSUME IInv, Tree, NEW t \in Task, TimesOut(t)
    PROVE  Quiet
  <1> DEFINE c == task[t].caller
             late == [task EXCEPT ![t].awaited = FALSE]
  <1>1. task[t] \in Record /\ task[t] # Free /\ task[t].awaited
    BY Kinds DEF TimesOut, IsFree, IInv
  <1>2. c \in Task /\ task[c] # Free /\ task[c].state = "call" /\ task[c] \in Record
    <2>1. c \in Task \cup {NoTask} /\ c # NoTask
      BY <1>1, CallerType DEF Tree, Awaited, Awaits, IInv
    <2> QED BY <1>1, <2>1, Kinds DEF Tree, Called, Awaited, Awaits, IInv
  <1>3. /\ task' = [late EXCEPT ![c].state = "ready"]
        /\ \A u \in Task : late[u] = IF u = t THEN [task[t] EXCEPT !.awaited = FALSE] ELSE task[u]
        /\ DOMAIN late = Task
    BY DEF TimesOut, IInv, Typed
  <1> HIDE DEF late
  <1>4. \A u \in Task : task'[u] = IF u = c THEN [late[u] EXCEPT !.state = "ready"] ELSE late[u]
    BY <1>2, <1>3
  <1>5. /\ late[t] \in Record /\ late[t].tool = task[t].tool /\ late[t].store = task[t].store
        /\ late[t].key = task[t].key /\ late[t].val = task[t].val /\ late[t].state = task[t].state
    BY <1>1, <1>3 DEF Record
  <1>6. /\ late[c] \in Record /\ late[c].tool = task[c].tool /\ late[c].store = task[c].store
        /\ late[c].key = task[c].key /\ late[c].val = task[c].val
    BY <1>2, <1>3, <1>5
  <1>7. /\ task'[c].tool = task[c].tool /\ task'[c].store = task[c].store
        /\ task'[c].key = task[c].key /\ task'[c].val = task[c].val /\ task'[c].state = "ready"
    BY <1>2, <1>4, <1>6 DEF Record
  <1>8. Kin(task[c], task'[c])
    BY <1>2, <1>7 DEF Kin, AtFile
  <1>9. t # c => Kin(task[t], task'[t])
    <2>1. late[t] # Free
      BY <1>1, <1>5, Kinds DEF Free, IInv
    <2> QED BY <1>1, <1>4, <1>5, <2>1 DEF Kin
  <1>10. \A u \in Task : u \notin {c, t} => Kin(task[u], task'[u])
    BY <1>3, <1>4 DEF Kin, AtFile
  <1>11. \A u \in Task : Kin(task[u], task'[u])
    BY <1>8, <1>9, <1>10
  <1>12. entries' = entries /\ writing' = writing /\ file' = file /\ writes' = writes /\ kept' = kept
    BY DEF TimesOut, memVars
  <1>13. \A u \in Task : task'[u] = Free => task[u] = Free
    <2>1. task'[c] # Free
      BY <1>2, <1>7, Kinds DEF Free, IInv
    <2>2. t # c => task'[t] # Free
      <3>1. late[t] # Free
        BY <1>1, <1>5, Kinds DEF Free, IInv
      <3> QED BY <1>4, <3>1
    <2> QED BY <1>3, <1>4, <2>1, <2>2
  <1> QED BY <1>11, <1>12, <1>13 DEF Quiet, Owes

\* A turn ends, and what it called has no caller any more.
LEMMA EndTurnQuiet ==
    ASSUME IInv, NEW a \in Task, EndTurn(a)
    PROVE  Quiet
  <1>1. task[a] # Free /\ task[a].state = "ready"
    BY DEF EndTurn, At, IsFree
  <1>2. \A u \in Task : task'[u] = IF u = a THEN Free
                                   ELSE IF u \in CalledBy(a) THEN [task[u] EXCEPT !.caller = NoTask]
                                   ELSE task[u]
    BY DEF EndTurn
  <1>3. Kin(task[a], task'[a])
    BY <1>1, <1>2 DEF Kin, AtFile
  <1>4. ASSUME NEW u \in Task, u # a, u \in CalledBy(a) PROVE Kin(task[u], task'[u])
    <2>1. task[u] # Free /\ task[u] \in Record
      BY <1>4, Kinds DEF CalledBy, IsFree, IInv
    <2>2. /\ task'[u].tool = task[u].tool /\ task'[u].store = task[u].store
          /\ task'[u].key = task[u].key /\ task'[u].val = task[u].val
          /\ task'[u].state = task[u].state
      BY <1>2, <1>4, <2>1 DEF Record
    <2>3. task'[u] # Free
      BY <2>1, <2>2, Kinds DEF Free, IInv
    <2> QED BY <2>1, <2>2, <2>3 DEF Kin
  <1>5. ASSUME NEW u \in Task, u # a, u \notin CalledBy(a) PROVE Kin(task[u], task'[u])
    BY <1>2, <1>5 DEF Kin, AtFile
  <1>6. \A u \in Task : Kin(task[u], task'[u])
    BY <1>3, <1>4, <1>5
  <1>8. ASSUME NEW u \in Task, task'[u] = Free PROVE ~Owes(task[u])
    <2>1. CASE u = a
      BY <1>1, <2>1 DEF Owes
    <2>2. CASE u # a /\ u \in CalledBy(a)
      <3>1. task[u] # Free /\ task[u] \in Record
        BY <2>2, Kinds DEF CalledBy, IsFree, IInv
      <3>2. task'[u].tool = task[u].tool
        BY <1>2, <2>2, <3>1 DEF Record
      <3> QED BY <1>8, <3>1, <3>2, Kinds DEF Free, IInv
    <2>3. CASE u # a /\ u \notin CalledBy(a)
      BY <1>2, <1>8, <2>3 DEF Owes
    <2> QED BY <2>1, <2>2, <2>3
  <1>7. /\ DropUnused(StoresOf(task')) /\ writing' = writing /\ file' = file
        /\ writes' = writes /\ kept' = kept
    BY DEF EndTurn
  <1> QED BY <1>6, <1>7, <1>8 DEF Quiet

\* The end of a task that has not used its store
LEMMA EndQuiet ==
    ASSUME IInv, Tree, NEW t \in Task, task[t] # Free, ~Owes(task[t]), End(t),
           UNCHANGED <<writing, file, writes, kept>>
    PROVE  Quiet
  <1>1. /\ task'[t] = Free /\ DropUnused(StoresOf(task'))
        /\ \A u \in Task : u # t => Kin(task[u], task'[u])
        /\ \A u \in Task : u # t /\ task'[u] = Free => task[u] = Free
    BY EndKin
  <1>2. \A u \in Task : Kin(task[u], task'[u])
    BY <1>1 DEF Kin, Owes, AtFile
  <1>3. \A u \in Task : task'[u] = Free => ~Owes(task[u])
    BY <1>1 DEF Owes
  <1> QED BY <1>1, <1>2, <1>3 DEF Quiet

\* An agent whose turn is over stays what it is.
LEMMA EndAgentQuiet ==
    ASSUME IInv, NEW t \in Task, EndAgent(t)
    PROVE  Quiet
  <1>1. /\ task[t] # Free /\ task[t].state = "ready" /\ task[t] \in Record
        /\ task'[t] = [task[t] EXCEPT !.state = "leave"]
        /\ \A u \in Task : u # t => task'[u] = task[u]
    BY Kinds DEF EndAgent, AgentAt, IsFree, IInv, Typed
  <1>2. /\ task'[t].tool = task[t].tool /\ task'[t].store = task[t].store
        /\ task'[t].key = task[t].key /\ task'[t].val = task[t].val
        /\ task'[t].state = "leave"
    BY <1>1 DEF Record
  <1>3. Kin(task[t], task'[t])
    BY <1>1, <1>2 DEF Kin, AtFile
  <1>4. \A u \in Task : Kin(task[u], task'[u])
    BY <1>1, <1>3 DEF Kin, AtFile
  <1>5. entries' = entries /\ writing' = writing /\ file' = file /\ writes' = writes /\ kept' = kept
    BY DEF EndAgent, memVars
  <1>6. \A u \in Task : task'[u] = Free => ~Owes(task[u])
    BY <1>1 DEF Owes
  <1> QED BY <1>4, <1>5, <1>6 DEF Quiet

\* What a crash leaves
LEMMA CrashLedger ==
    ASSUME IInv, Ledger, Crash
    PROVE  Ledger'
  <1>1. /\ \A t \in Task : task'[t] = Free
        /\ entries' = [s \in Store |-> <<>>] /\ writing' = {}
        /\ kept' = (IF writing = {} THEN kept ELSE NothingKept)
        /\ file' = file /\ writes' = writes
    BY DEF Crash
  <1>2. Neat(<<>>) /\ <<>> \in Seq(Item) /\ writes \in Nat
    BY EntriesAssumption DEF Neat, IInv, Typed
  <1>3. kept' \in [Key -> 0 .. writes]
    BY <1>1, <1>2 DEF NothingKept, Ledger, MemTidy
  <1>4. MemTidy'
    BY <1>1, <1>2, <1>3 DEF Ledger, MemTidy, MemTypeOK
  <1>5. Locks' /\ Stored'
    BY <1>1 DEF Locks, Stored, AtFile, Wrote
  <1>6. ASSUME NEW k \in Key, kept'[k] # 0 PROVE Holding(file, k, kept'[k])
    <2>1. writing = {} /\ kept' = kept
      BY <1>1, <1>6 DEF NothingKept
    <2> QED BY <1>6, <2>1 DEF Ledger, Keeps
  <1>7. Keeps'
    BY <1>1, <1>6 DEF Keeps
  <1> QED BY <1>4, <1>5, <1>7 DEF Ledger

\* The steps that do something to the memory
Loud ==
    \/ Crash
    \/ \E t \in Task :
          \/ \E s \in Store : StartTurn(t, s)
          \/ Write(t) \/ Read(t) \/ Persist(t) \/ Persisted(t) \/ PersistFails(t)

\* All others leave it alone.
LEMMA LoudOrQuiet == IInv /\ Tree /\ [Next]_vars => Loud \/ Quiet
  <1> SUFFICES ASSUME IInv, Tree, [Next]_vars PROVE Loud \/ Quiet
    OBVIOUS
  <1>1. ASSUME NEW t \in Task, TimesOut(t) PROVE Quiet
    BY <1>1, TimesOutQuiet
  <1>2. ASSUME NEW t \in Task, EndTurn(t) PROVE Quiet
    BY <1>2, EndTurnQuiet
  <1>3. ASSUME NEW t \in Task, EndAgent(t) PROVE Quiet
    BY <1>3, EndAgentQuiet
  <1>4. ASSUME NEW t \in Task, Leave(t) PROVE Quiet
    BY <1>4, EndQuiet DEF Leave, AgentAt, IsFree, Owes
  <1>5. ASSUME NEW t \in Task, EndWorkflow(t) PROVE Quiet
    BY <1>5, EndQuiet DEF EndWorkflow, At, IsFree, Owes
  <1>6. ASSUME NEW t \in Task, EndReader(t) PROVE Quiet
    BY <1>6, EndQuiet DEF EndReader, At, IsFree, Owes
  <1>7. ASSUME NEW a \in Task, NEW t \in Task, NEW tool \in Builtin \cup Delegation, Call(a, t, tool)
        PROVE  Quiet
    <2> DEFINE new == Started(tool, a)
    <2>1. /\ task[a] # Free /\ task[a].state = "ready" /\ task[t] = Free
          /\ task' = [task EXCEPT ![a].state = "call", ![t] = new]
          /\ UNCHANGED <<memVars, kept>>
      BY <1>7 DEF Call, AgentAt, IsFree
    <2>2. /\ new.store = task[a].store /\ new.val = 0
          /\ new.state \notin {"owes", "writes"} /\ new.tool = tool
      BY DEF Started
    <2>3. new # Free
      BY <2>2 DEF Free, Builtin, Delegation
    <2> HIDE DEF new
    <2> QED BY <2>1, <2>2, <2>3, CallQuiet
  <1>8. ASSUME NEW a \in Task, NEW t \in Task, StartTask(a, t) PROVE Quiet
    <2> DEFINE new == [tool |-> "task", caller |-> a, awaited |-> TRUE,
                       state |-> "ready", store |-> task[a].store,
                       key |-> NoKey, val |-> 0,
                       nested |-> task[a].nested + 1]
    <2>1. /\ task[a] # Free /\ task[a].state \in {"start", "ready"} /\ task[t] = Free
          /\ task' = [task EXCEPT ![a].state = "call", ![t] = new]
          /\ UNCHANGED <<memVars, kept>>
      BY <1>8 DEF StartTask, At, IsFree
    <2>2. /\ new.store = task[a].store /\ new.val = 0
          /\ new.state \notin {"owes", "writes"} /\ new.tool = "task"
      OBVIOUS
    <2>3. new # Free
      BY <2>2 DEF Free
    <2> HIDE DEF new
    <2> QED BY <2>1, <2>2, <2>3, CallQuiet
  <1>9. CASE UNCHANGED vars
    BY <1>9 DEF vars, memVars, Quiet, Kin, AtFile, Owes
  <1>10. ASSUME NEW t \in Task, ToolStep(t) PROVE Loud \/ Quiet
    BY <1>6, <1>10 DEF ToolStep, Loud
  <1> QED BY <1>1, <1>2, <1>3, <1>4, <1>5, <1>7, <1>8, <1>9, <1>10 DEF Next, Loud

\* Every step keeps the ledger.
LEMMA NextLedger == IInv /\ IInv' /\ Tree /\ Ledger /\ [Next]_vars => Ledger'
  <1> SUFFICES ASSUME IInv, IInv', Tree, Ledger, [Next]_vars PROVE Ledger'
    OBVIOUS
  <1>1. CASE Quiet
    BY <1>1, Calm DEF Quiet
  <1>2. CASE Loud
    BY <1>2, CrashLedger, StartTurnLedger, WriteLedger, ReadLedger, PersistLedger,
       PersistedLedger, PersistFailsLedger DEF Loud
  <1> QED BY <1>1, <1>2, LoudOrQuiet

\* It holds at every step.
LEMMA LedgerAlways == Spec => []Ledger
  <1>1. Init => Ledger
    <2> SUFFICES ASSUME Init PROVE Ledger
      OBVIOUS
    <2>1. /\ \A t \in Task : task[t] = Free
          /\ entries = [s \in Store |-> <<>>] /\ writing = {} /\ file = <<>> /\ writes = 0
          /\ kept = NothingKept
      BY DEF Init, MemInit
    <2>2. Neat(<<>>) /\ <<>> \in Seq(Item) /\ 0 \in 0 .. MaxWrites /\ 0 \in 0 .. 0
      BY EntriesAssumption DEF Neat
    <2>3. kept \in [Key -> 0 .. 0]
      BY <2>1 DEF NothingKept
    <2>4. MemTidy
      BY <2>1, <2>2, <2>3 DEF MemTidy, MemTypeOK
    <2>5. Locks /\ Stored /\ Keeps
      BY <2>1 DEF Locks, Stored, Keeps, AtFile, Wrote, NothingKept
    <2> QED BY <2>4, <2>5 DEF Ledger
  <1> QED BY <1>1, InvAlways, TreeAlways, NextLedger, PTL DEF Spec

\* Whatever the bounds: no thread counts deeper than MAX_DEPTH, no write has a
\* number beyond the last one, and the stores and the file hold entries.
THEOREM TypeCorrect == Spec => []TypeOK
  <1>1. IInv /\ Ledger => TypeOK
    <2> SUFFICES ASSUME IInv, Ledger PROVE TypeOK
      OBVIOUS
    <2>0. writes \in 0 .. MaxWrites /\ MaxWrites \in Nat /\ MaxDepth \in Nat \ {0, 1}
      BY EntriesAssumption, TaskAssumption DEF Ledger, MemTidy, MemTypeOK
    <2>1. MemTypeOK
      BY DEF Ledger, MemTidy
    <2>2. \A t \in Task : task[t] \in Busy \cup {Free}
      <3> TAKE t \in Task
      <3>1. CASE task[t] # Free
        <4>1. task[t] \in Record /\ task[t].val \in 0 .. writes
          BY <3>1, Kinds DEF IInv, Ledger, MemTidy
        <4>2. task[t].val \in 0 .. MaxWrites
          BY <2>0, <4>1
        <4> QED BY <4>1, <4>2 DEF Record, Busy
      <3> QED BY <3>1
    <2>3. task \in [Task -> Busy \cup {Free}]
      BY <2>2 DEF IInv, Typed
    <2>4. depth \in [Task -> [Delegation -> 0 .. MaxDepth]]
      <3>1. \A t \in Task : \A d \in Delegation : depth[t][d] \in 0 .. MaxDepth
        BY <2>0 DEF IInv, Counts
      <3> QED BY <3>1 DEF IInv, Typed
    <2>5. kept \in [Key -> 0 .. MaxWrites]
      <3>1. kept \in [Key -> 0 .. writes]
        BY DEF Ledger, MemTidy
      <3>2. \A k \in Key : kept[k] \in 0 .. MaxWrites
        BY <2>0, <3>1
      <3> QED BY <3>1, <3>2
    <2> QED BY <2>1, <2>3, <2>4, <2>5 DEF TypeOK
  <1> QED BY <1>1, InvAlways, LedgerAlways, PTL

\* memory_write: "persists across sessions".  What a write stored and wrote
\* to the file is still in it, or a later write of its key, or the file is
\* full of entries used since, with any number of tools on the store at once,
\* timed out or not.
THEOREM WritesRemembered == Spec => []Remembered
  <1>1. Ledger => Remembered
    <2> SUFFICES ASSUME Ledger, writing = {}, NEW k \in Key, kept[k] # 0
                 PROVE  LET found == ItemsOf(file, k)
                        IN  IF found = <<>> THEN Len(file) = MaxEntries
                            ELSE found[1].val >= kept[k]
      BY DEF Remembered
    <2>1. Holding(file, k, kept[k])
      BY DEF Ledger, Keeps
    <2>2. file \in Seq(Item) /\ Neat(file)
      BY DEF Ledger, MemTidy, MemTypeOK
    <2> QED BY <2>1, <2>2, Found
  <1> QED BY <1>1, LedgerAlways, PTL

-----------------------------------------------------------------------------
(* Entries as a map with an order                                          *)

\* Entries of different keys, though perhaps one too many
Distinct(es) == \A i, j \in DOMAIN es : es[i].key = es[j].key => i = j

\* There is an entry of key x.
Has(es, x) == \E i \in DOMAIN es : es[i].key = x

\* What is told of a key is in its entry, if it has one.
LEMMA ToldIs ==
    ASSUME NEW es \in Seq(Item), Distinct(es), NEW x
    PROVE  /\ ~Has(es, x) => Told(es, x) = 0
           /\ \A i \in DOMAIN es : es[i].key = x => Told(es, x) = es[i].val
           /\ Has(es, x) <=> Told(es, x) # 0
  <1>0. DOMAIN es = 1 .. Len(es) /\ Len(es) \in Nat
    OBVIOUS
  <1>1. CASE ~Has(es, x)
    <2>1. \A n \in 1 .. Len(es) : es[n].key # x /\ n # Len(es) + 1
      BY <1>0, <1>1 DEF Has
    <2>2. Len(es) + 1 \in 1 .. Len(es) + 1 /\ ~(Len(es) + 1 <= Len(es))
      BY <1>0
    <2>3. Place(es, x, Len(es) + 1)
      BY <2>1, <2>2 DEF Place
    <2>4. ItemsOf(es, x) = <<>>
      BY <2>2, <2>3, Filters
    <2> QED BY <1>0, <1>1, <2>4 DEF Told, Has
  <1>2. ASSUME NEW i \in DOMAIN es, es[i].key = x
        PROVE  Told(es, x) = es[i].val /\ es[i].val # 0
    <2>1. \A n \in 1 .. Len(es) : es[n].key = x <=> n = i
      BY <1>0, <1>2 DEF Distinct
    <2>2. i \in 1 .. Len(es) + 1 /\ i <= Len(es)
      BY <1>0
    <2>3. Place(es, x, i)
      BY <2>1, <2>2 DEF Place
    <2>4. ItemsOf(es, x) = <<es[i]>>
      BY <2>2, <2>3, Filters
    <2>5. <<es[i]>> # <<>> /\ <<es[i]>>[1] = es[i]
      OBVIOUS
    <2>6. es[i] \in Item
      OBVIOUS
    <2>7. es[i].val # 0
      BY <2>6 DEF Item
    <2> QED BY <2>4, <2>5, <2>7 DEF Told
  <1> QED BY <1>1, <1>2 DEF Has

\* b is es with item as its latest entry.
MovedLast(es, k, item, b) ==
    /\ b \in Seq(Item) /\ Distinct(b)
    /\ Len(b) <= Len(es) + 1 /\ (Has(es, k) => Len(b) = Len(es))
    /\ \A x : Has(b, x) <=> Has(es, x) \/ x = k
    /\ Told(b, k) = item.val
    /\ \A x : x # k => Told(b, x) = Told(es, x)
    /\ \A x, y : Before(b, x, y) <=>
                    \/ Before(es, x, y) /\ x # k /\ y # k
                    \/ Has(es, x) /\ x # k /\ y = k

\* An entry that is written or read is the latest.
LEMMA MoveLast ==
    ASSUME NEW es \in Seq(Item), Distinct(es), NEW k, NEW item \in Item, item.key = k
    PROVE  MovedLast(es, k, item, Append(Others(es, k), item))
  <1> DEFINE a == Others(es, k)
             N == Len(es)
             M == Len(a)
             b == Append(a, item)
  <1>0. DOMAIN es = 1 .. N /\ N \in Nat
    OBVIOUS
  <1>1. PICK i \in 1 .. N + 1 : Place(es, k, i)
    <2>1. CASE Has(es, k)
      <3>1. PICK i \in 1 .. N : es[i].key = k
        BY <1>0, <2>1 DEF Has
      <3>2. \A n \in 1 .. N : es[n].key = k <=> n = i
        BY <1>0, <3>1 DEF Distinct
      <3>3. i \in 1 .. N + 1
        BY <1>0
      <3> QED BY <3>2, <3>3 DEF Place
    <2>2. CASE ~Has(es, k)
      <3>1. N + 1 \in 1 .. N + 1 /\ \A n \in 1 .. N : n # N + 1
        BY <1>0
      <3>2. Place(es, k, N + 1)
        BY <1>0, <2>2, <3>1 DEF Place, Has
      <3> QED BY <3>1, <3>2
    <2> QED BY <2>1, <2>2
  <1>2. /\ a \in Seq(Item)
        /\ M = IF i <= N THEN N - 1 ELSE N
        /\ \A j \in 1 .. M : a[j] = IF j < i THEN es[j] ELSE es[j + 1]
    BY <1>1, Filters
  <1>3. \A n \in 1 .. N : es[n].key = k <=> n = i
    BY <1>1 DEF Place
  <1> HIDE DEF a
  <1>4. /\ b \in Seq(Item) /\ Len(b) = M + 1 /\ DOMAIN b = 1 .. M + 1 /\ M \in Nat
        /\ \A j \in 1 .. M : b[j] = a[j]
        /\ b[M + 1] = item
    BY <1>2
  <1> HIDE DEF b
  <1> DEFINE at(j) == IF j < i THEN j ELSE j + 1
             to(n) == IF n < i THEN n ELSE n - 1
  <1>5. \A j \in 1 .. M : b[j] = es[at(j)]
    BY <1>2, <1>4
  <1>6. \A j \in 1 .. M : at(j) \in 1 .. N /\ at(j) # i
    <2> HIDE DEF M, N
    <2> QED BY <1>0, <1>1, <1>2, <1>4
  <1>7. \A n \in 1 .. N : n # i => to(n) \in 1 .. M /\ at(to(n)) = n
    <2> HIDE DEF M, N
    <2> QED BY <1>0, <1>1, <1>2, <1>4
  <1>8. \A j, n \in 1 .. M : j < n <=> at(j) < at(n)
    <2> HIDE DEF M, N
    <2> QED BY <1>0, <1>1, <1>4
  <1>9. \A j \in 1 .. M + 1 : j \in 1 .. M \/ j = M + 1
    BY <1>4
  <1>10. Has(es, k) <=> i \in 1 .. N
    BY <1>0, <1>3 DEF Has
  <1> HIDE DEF M, N, at, to
  <1>11. \A j \in 1 .. M : b[j].key # k
    BY <1>3, <1>5, <1>6
  <1>12. Distinct(b)
    <2>1. ASSUME NEW j \in 1 .. M, NEW n \in 1 .. M, b[j].key = b[n].key
          PROVE  j = n
      <3>1. at(j) = at(n)
        BY <1>0, <1>5, <1>6, <2>1 DEF Distinct
      <3>2. ~(j < n) /\ ~(n < j)
        <4>1. at(j) \in Int /\ at(n) \in Int
          BY <1>6
        <4>2. ~(at(j) < at(n)) /\ ~(at(n) < at(j))
          BY <3>1, <4>1
        <4> QED BY <1>8, <4>2
      <3> QED BY <1>4, <3>2
    <2> QED BY <1>4, <1>9, <1>11, <2>1 DEF Distinct
  <1>13. ASSUME NEW x
         PROVE  Has(b, x) <=> Has(es, x) \/ x = k
    <2>1. CASE x = k
      <3>1. M + 1 \in DOMAIN b
        BY <1>4
      <3> QED BY <1>4, <2>1, <3>1 DEF Has
    <2>2. ASSUME x # k, Has(es, x)
          PROVE  Has(b, x)
      <3>1. PICK n \in 1 .. N : es[n].key = x
        BY <1>0, <2>2 DEF Has
      <3>2. to(n) \in 1 .. M /\ at(to(n)) = n
        BY <1>3, <1>7, <2>2, <3>1
      <3>3. to(n) \in DOMAIN b /\ b[to(n)].key = x
        BY <1>4, <1>5, <3>1, <3>2
      <3> QED BY <3>3 DEF Has
    <2>3. ASSUME x # k, Has(b, x)
          PROVE  Has(es, x)
      <3>1. PICK j \in 1 .. M : b[j].key = x
        BY <1>4, <1>9, <2>3 DEF Has
      <3>2. at(j) \in DOMAIN es /\ es[at(j)].key = x
        BY <1>0, <1>5, <1>6, <3>1
      <3> QED BY <3>2 DEF Has
    <2> QED BY <2>1, <2>2, <2>3
  <1>14. Told(b, k) = item.val
    <2>1. M + 1 \in DOMAIN b
      BY <1>4
    <2> QED BY <1>4, <1>12, <2>1, ToldIs
  <1>15. ASSUME NEW x, x # k
         PROVE  Told(b, x) = Told(es, x)
    <2>1. CASE ~Has(es, x)
      <3>1. ~Has(b, x)
        BY <1>13, <1>15, <2>1
      <3> QED BY <1>4, <1>12, <2>1, <3>1, ToldIs
    <2>2. CASE Has(es, x)
      <3>1. PICK n \in DOMAIN es : es[n].key = x
        BY <2>2 DEF Has
      <3>2. to(n) \in 1 .. M /\ at(to(n)) = n
        BY <1>0, <1>3, <1>7, <1>15, <3>1
      <3>3. to(n) \in DOMAIN b /\ b[to(n)] = es[n]
        BY <1>4, <1>5, <3>2
      <3>4. Told(es, x) = es[n].val
        BY <3>1, ToldIs
      <3>5. Told(b, x) = b[to(n)].val
        BY <1>4, <1>12, <3>1, <3>3, ToldIs
      <3> QED BY <3>3, <3>4, <3>5
    <2> QED BY <2>1, <2>2
  <1>16. ASSUME NEW x, NEW y
         PROVE  Before(b, x, y) <=> \/ Before(es, x, y) /\ x # k /\ y # k
                                    \/ Has(es, x) /\ x # k /\ y = k
    <2>1. ASSUME Before(b, x, y)
          PROVE  \/ Before(es, x, y) /\ x # k /\ y # k
                 \/ Has(es, x) /\ x # k /\ y = k
      <3>1. PICK j \in 1 .. M + 1, n \in 1 .. M + 1 : j < n /\ b[j].key = x /\ b[n].key = y
        BY <1>4, <2>1 DEF Before
      <3>2. j \in 1 .. M
        BY <1>4, <3>1
      <3>3. x # k /\ at(j) \in DOMAIN es /\ es[at(j)].key = x
        BY <1>0, <1>5, <1>6, <1>11, <3>1, <3>2
      <3>4. CASE n = M + 1
        BY <1>4, <3>1, <3>3, <3>4 DEF Has
      <3>5. CASE n \in 1 .. M
        <4>1. at(n) \in DOMAIN es /\ es[at(n)].key = y /\ y # k
          BY <1>0, <1>5, <1>6, <1>11, <3>1, <3>5
        <4>2. at(j) < at(n)
          BY <1>8, <3>1, <3>2, <3>5
        <4> QED BY <3>3, <4>1, <4>2 DEF Before
      <3> QED BY <1>9, <3>4, <3>5
    <2>2. ASSUME Before(es, x, y), x # k, y # k
          PROVE  Before(b, x, y)
      <3>1. PICK j \in 1 .. N, n \in 1 .. N : j < n /\ es[j].key = x /\ es[n].key = y
        BY <1>0, <2>2 DEF Before
      <3>2. /\ to(j) \in 1 .. M /\ at(to(j)) = j
            /\ to(n) \in 1 .. M /\ at(to(n)) = n
        BY <1>3, <1>7, <2>2, <3>1
      <3>3. to(j) < to(n)
        BY <1>8, <3>1, <3>2
      <3>4. /\ to(j) \in DOMAIN b /\ b[to(j)].key = x
            /\ to(n) \in DOMAIN b /\ b[to(n)].key = y
        BY <1>4, <1>5, <3>1, <3>2
      <3> QED BY <3>3, <3>4 DEF Before
    <2>3. ASSUME Has(es, x), x # k, y = k
          PROVE  Before(b, x, y)
      <3>1. PICK n \in 1 .. N : es[n].key = x
        BY <1>0, <2>3 DEF Has
      <3>2. to(n) \in 1 .. M /\ at(to(n)) = n
        BY <1>3, <1>7, <2>3, <3>1
      <3>3. to(n) \in DOMAIN b /\ b[to(n)].key = x
        BY <1>4, <1>5, <3>1, <3>2
      <3>4. M + 1 \in DOMAIN b /\ to(n) < M + 1 /\ b[M + 1].key = k
        BY <1>4, <3>2
      <3> QED BY <2>3, <3>3, <3>4 DEF Before
    <2> QED BY <2>1, <2>2, <2>3
  <1>17. Len(b) <= Len(es) + 1 /\ (Has(es, k) => Len(b) = Len(es))
    <2>1. i \in 1 .. N => i <= N
      BY <1>0
    <2>2. Len(b) <= N + 1 /\ (Has(es, k) => Len(b) = N)
      BY <1>0, <1>2, <1>4, <1>10, <2>1
    <2> QED BY <2>2 DEF N
  <1> QED BY <1>4, <1>12, <1>13, <1>14, <1>15, <1>16, <1>17 DEF MovedLast, b, a

\* c is b without its first entry.
Shortened(b, c) ==
    /\ \A x : x # b[1].key => Told(c, x) = Told(b, x)
    /\ Told(c, b[1].key) = 0
    /\ \A x, y : Before(c, x, y) <=> Before(b, x, y) /\ x # b[1].key

\* The first entry can be left out.
LEMMA DropFirst ==
    ASSUME NEW b \in Seq(Item), Distinct(b), b # <<>>
    PROVE  Shortened(b, SubSeq(b, 2, Len(b)))
  <1> DEFINE L == Len(b)
             c == SubSeq(b, 2, L)
  <1>1. L \in Nat \ {0} /\ DOMAIN b = 1 .. L
    OBVIOUS
  <1>2. \A j \in 2 .. L : b[j] \in Item
    BY <1>1
  <1>3. /\ c \in Seq(Item)
        /\ Len(c) = IF 2 <= L THEN L - 2 + 1 ELSE 0
        /\ \A j \in 1 .. L - 2 + 1 : c[j] = b[2 + j - 1]
    <2>1. 2 \in Int /\ L \in Int
      BY <1>1
    <2> HIDE DEF L
    <2> QED BY <1>2, <2>1, SubSeqProperties
  <1> HIDE DEF c
  <1>4. /\ Len(c) = L - 1 /\ DOMAIN c = 1 .. L - 1
        /\ \A j \in 1 .. L - 1 : c[j] = b[j + 1]
    <2>1. Len(c) = L - 1 /\ L - 2 + 1 = L - 1
      <3> HIDE DEF L
      <3> QED BY <1>1, <1>3
    <2>2. \A j \in 1 .. L - 1 : 2 + j - 1 = j + 1
      BY <1>1
    <2> HIDE DEF L
    <2> QED BY <1>3, <2>1, <2>2
  <1> HIDE DEF L
  <1>5. \A j \in 1 .. L - 1 : j + 1 \in 1 .. L /\ j + 1 # 1
    BY <1>1
  <1>6. \A n \in 1 .. L : n # 1 => n - 1 \in 1 .. L - 1 /\ (n - 1) + 1 = n
    BY <1>1
  <1>7. \A n \in 1 .. L : b[n].key = b[1].key <=> n = 1
    <2>1. 1 \in 1 .. L
      BY <1>1
    <2> QED BY <1>1, <2>1 DEF Distinct
  <1>8. Distinct(c)
    <2> SUFFICES ASSUME NEW i \in 1 .. L - 1, NEW j \in 1 .. L - 1, c[i].key = c[j].key
                 PROVE  i = j
      BY <1>4 DEF Distinct
    <2>1. b[i + 1].key = b[j + 1].key
      BY <1>4
    <2>2. i + 1 \in DOMAIN b /\ j + 1 \in DOMAIN b
      BY <1>1, <1>5
    <2>3. i + 1 = j + 1
      BY <2>1, <2>2 DEF Distinct
    <2>4. i \in Int /\ j \in Int
      OBVIOUS
    <2> QED BY <2>3, <2>4
  <1>9. ASSUME NEW x, x # b[1].key
        PROVE  Told(c, x) = Told(b, x)
    <2>1. CASE ~Has(b, x)
      <3>1. ~Has(c, x)
        BY <1>1, <1>4, <1>5, <2>1 DEF Has
      <3> QED BY <1>3, <1>8, <2>1, <3>1, ToldIs
    <2>2. CASE Has(b, x)
      <3>1. PICK n \in 1 .. L : b[n].key = x
        BY <1>1, <2>2 DEF Has
      <3>2. n - 1 \in DOMAIN c /\ c[n - 1] = b[n]
        BY <1>4, <1>6, <1>9, <3>1
      <3>3. Told(b, x) = b[n].val
        BY <1>1, <3>1, ToldIs
      <3>4. Told(c, x) = c[n - 1].val
        BY <1>3, <1>8, <3>1, <3>2, ToldIs
      <3> QED BY <3>2, <3>3, <3>4
    <2> QED BY <2>1, <2>2
  <1>10. Told(c, b[1].key) = 0
    <2>1. ~Has(c, b[1].key)
      BY <1>4, <1>5, <1>7 DEF Has
    <2> QED BY <1>3, <1>8, <2>1, ToldIs
  <1>11. ASSUME NEW x, NEW y
         PROVE  Before(c, x, y) <=> Before(b, x, y) /\ x # b[1].key
    <2>1. ASSUME Before(c, x, y)
          PROVE  Before(b, x, y) /\ x # b[1].key
      <3>1. PICK i \in 1 .. L - 1, j \in 1 .. L - 1 : i < j /\ c[i].key = x /\ c[j].key = y
        BY <1>4, <2>1 DEF Before
      <3>2. i + 1 < j + 1 /\ b[i + 1].key = x /\ b[j + 1].key = y
        BY <1>4, <3>1
      <3> QED BY <1>1, <1>5, <1>7, <3>2 DEF Before
    <2>2. ASSUME Before(b, x, y), x # b[1].key
          PROVE  Before(c, x, y)
      <3>1. PICK i \in 1 .. L, j \in 1 .. L : i < j /\ b[i].key = x /\ b[j].key = y
        BY <1>1, <2>2 DEF Before
      <3>2. i # 1 /\ j # 1
        BY <2>2, <3>1
      <3>3. i - 1 \in 1 .. L - 1 /\ j - 1 \in 1 .. L - 1 /\ i - 1 < j - 1
        BY <1>6, <3>1, <3>2
      <3>4. c[i - 1].key = x /\ c[j - 1].key = y
        BY <1>4, <1>6, <3>1, <3>2, <3>3
      <3> QED BY <1>4, <3>3, <3>4 DEF Before
    <2> QED BY <2>1, <2>2
  <1> QED BY <1>9, <1>10, <1>11 DEF Shortened, c, L

\* As many keys are behind an entry as there are entries behind it.
LEMMA KeysBehind ==
    ASSUME NEW b \in Seq(Item), Distinct(b), NEW n \in 1 .. Len(b)
    PROVE  Cardinality({x \in Key : Before(b, b[n].key, x)}) = Len(b) - n
  <1> DEFINE L == Len(b)
             S == n + 1 .. L
             T == {x \in Key : Before(b, b[n].key, x)}
             f == [j \in S |-> b[j].key]
  <1>1. L \in Nat /\ n \in 1 .. L /\ DOMAIN b = 1 .. L /\ \A j \in 1 .. L : b[j].key \in Key
    <2>1. L \in Nat /\ n \in 1 .. L /\ DOMAIN b = 1 .. L /\ \A j \in 1 .. L : b[j] \in Item
      OBVIOUS
    <2> QED BY <2>1 DEF Item
  <1>2. S \subseteq 1 .. L
    BY <1>1
  <1>3. \A j \in S : f[j] \in T
    <2> TAKE j \in S
    <2>1. j \in DOMAIN b /\ n \in DOMAIN b /\ n < j
      BY <1>1
    <2>2. Before(b, b[n].key, b[j].key)
      BY <2>1 DEF Before
    <2> QED BY <1>1, <2>1, <2>2
  <1>4. \A i, j \in S : f[i] = f[j] => i = j
    BY <1>1, <1>2 DEF Distinct
  <1>5. \A x \in T : \E j \in S : f[j] = x
    <2> TAKE x \in T
    <2>1. PICK i \in 1 .. L, j \in 1 .. L : i < j /\ b[i].key = b[n].key /\ b[j].key = x
      BY <1>1 DEF Before
    <2>2. i = n
      BY <1>1, <2>1 DEF Distinct
    <2>3. j \in S
      BY <1>1, <2>1, <2>2
    <2> QED BY <2>1, <2>3
  <1>6. f \in [S -> T]
    BY <1>3
  <1>7. f \in Bijection(S, T)
    BY <1>4, <1>5, <1>6 DEF Bijection, Injection, Surjection, IsInjective
  <1>8. ExistsBijection(S, T)
    BY <1>7 DEF ExistsBijection
  <1>9. IsFiniteSet(S) /\ Cardinality(S) = IF n + 1 > L THEN 0 ELSE L - (n + 1) + 1
    <2>1. n + 1 \in Int /\ L \in Int
      BY <1>1
    <2> HIDE DEF L
    <2> QED BY <2>1, FS_Interval
  <1> HIDE DEF S, T, f
  <1>10. Cardinality(T) = Cardinality(S)
    BY <1>8, <1>9, FS_Bijection
  <1>11. Cardinality(S) = L - n
    <2> HIDE DEF L
    <2> QED BY <1>1, <1>9
  <1> QED BY <1>10, <1>11 DEF T

\* The keys used since x was, in the order of es
Since(es, x) == {y \in Key : Before(es, x, y)}

\* What is used since, once k has been used, in the memory m
UsedSince(es, k, m) == [x \in Key |-> IF x = k \/ m[x] = 0 THEN {} ELSE Since(es, x) \cup {k}]

\* The order in which an entry is the latest
LEMMA SinceLast ==
    ASSUME NEW es \in Seq(Item), Distinct(es), NEW k \in Key, NEW item \in Item, NEW b,
           MovedLast(es, k, item, b), NEW m,
           \A x \in Key : x # k => m[x] = Told(es, x)
    PROVE  [x \in Key |-> Since(b, x)] = UsedSince(es, k, m)
  <1> SUFFICES ASSUME NEW x \in Key
               PROVE  Since(b, x) = IF x = k \/ m[x] = 0 THEN {} ELSE Since(es, x) \cup {k}
    BY Zenon DEF UsedSince
  <1>1. \A y : Before(b, x, y) <=> \/ Before(es, x, y) /\ x # k /\ y # k
                                   \/ Has(es, x) /\ x # k /\ y = k
    BY DEF MovedLast
  <1>2. CASE x = k
    BY <1>1, <1>2 DEF Since
  <1>3. CASE x # k /\ m[x] = 0
    <2>1. ~Has(es, x)
      BY <1>3, ToldIs
    <2>2. \A y : ~Before(es, x, y)
      BY <2>1 DEF Before, Has
    <2> QED BY <1>1, <1>3, <2>1, <2>2 DEF Since
  <1>4. CASE x # k /\ m[x] # 0
    <2>1. Has(es, x)
      BY <1>4, ToldIs
    <2> QED BY <1>1, <1>4, <2>1 DEF Since
  <1> QED BY <1>2, <1>3, <1>4

\* The map of what is told and in which order it was used
ToldMap(es) == [x \in Key |-> Told(es, x)]
SinceMap(es) == [x \in Key |-> Since(es, x)]

\* A write is the abstract one: what it evicts is what the map forgets.
LEMMA InsertMap ==
    ASSUME NEW es \in Seq(Item), Neat(es), NEW k \in Key, NEW item \in Item, item.key = k
    PROVE  LET m == [ToldMap(es) EXCEPT ![k] = item.val]
               used == UsedSince(es, k, m)
               forgotten == {x \in Key : Cardinality(used[x]) >= MaxEntries}
               new == Trimmed(Append(Others(es, k), item))
           IN  /\ ToldMap(new) = [x \in Key |-> IF x \in forgotten THEN 0 ELSE m[x]]
               /\ SinceMap(new) = [x \in Key |-> IF x \in forgotten THEN {} ELSE used[x]]
  <1> DEFINE m == [ToldMap(es) EXCEPT ![k] = item.val]
             used == UsedSince(es, k, m)
             forgotten == {x \in Key : Cardinality(used[x]) >= MaxEntries}
             b == Append(Others(es, k), item)
             new == Trimmed(b)
  <1>1. MaxEntries \in Nat \ {0} /\ Len(es) \in Nat /\ Len(es) <= MaxEntries /\ Distinct(es)
    BY EntriesAssumption DEF Neat, Distinct
  <1>2. MovedLast(es, k, item, b)
    BY <1>1, MoveLast
  <1>3. \A x \in Key : m[x] = IF x = k THEN item.val ELSE Told(es, x)
    BY DEF ToldMap
  <1>4. new = IF Len(b) > MaxEntries THEN SubSeq(b, Len(b) - MaxEntries + 1, Len(b)) ELSE b
    BY DEF Trimmed
  <1> HIDE DEF m, b, new
  <1>5. \A x \in Key : Told(b, x) = m[x]
    BY <1>2, <1>3 DEF MovedLast
  <1>6. SinceMap(b) = used
    BY <1>1, <1>2, <1>3, SinceLast DEF SinceMap
  <1>7. \A x \in Key : used[x] = Since(b, x)
    <2>1. \A x \in Key : SinceMap(b)[x] = Since(b, x)
      BY DEF SinceMap
    <2> HIDE DEF used
    <2> QED BY <1>6, <2>1
  <1> HIDE DEF used
  <1>8. b \in Seq(Item) /\ Distinct(b) /\ Len(b) <= MaxEntries + 1 /\ Len(b) \in Nat
        /\ DOMAIN b = 1 .. Len(b)
    <2>1. b \in Seq(Item) /\ Distinct(b) /\ Len(b) <= Len(es) + 1
      BY <1>2 DEF MovedLast
    <2>2. Len(b) \in Nat /\ DOMAIN b = 1 .. Len(b)
      BY <2>1
    <2> QED BY <1>1, <2>1, <2>2
  <1>9. ASSUME NEW x \in Key, ~Has(b, x)
        PROVE  x \notin forgotten
    <2>1. Since(b, x) = {}
      BY <1>9 DEF Since, Before, Has
    <2>2. Cardinality(used[x]) = 0
      BY <1>7, <2>1, FS_EmptySet
    <2>3. ~(0 >= MaxEntries)
      BY <1>1
    <2> QED BY <2>2, <2>3
  <1>10. ASSUME NEW n \in 1 .. Len(b)
         PROVE  /\ b[n].key \in Key
                /\ b[n].key \in forgotten <=> Len(b) - n >= MaxEntries
    <2>1. Cardinality(Since(b, b[n].key)) = Len(b) - n
      BY <1>8, KeysBehind DEF Since
    <2>2. b[n] \in Item
      BY <1>8
    <2>3. b[n].key \in Key
      BY <2>2 DEF Item
    <2> QED BY <1>7, <2>1, <2>3
  <1> HIDE DEF forgotten
  <1>11. CASE Len(b) <= MaxEntries
    <2>1. new = b
      BY <1>1, <1>4, <1>8, <1>11
    <2>2. \A x \in Key : x \notin forgotten
      <3>1. \A n \in 1 .. Len(b) : ~(Len(b) - n >= MaxEntries)
        BY <1>1, <1>8, <1>11
      <3> QED BY <1>8, <1>9, <1>10, <3>1 DEF Has
    <2>3. \A x \in Key : Told(new, x) = IF x \in forgotten THEN 0 ELSE m[x]
      BY <1>5, <2>1, <2>2
    <2>4. \A x \in Key : Since(new, x) = IF x \in forgotten THEN {} ELSE used[x]
      BY <1>7, <2>1, <2>2
    <2> QED BY <2>3, <2>4, Zenon DEF ToldMap, SinceMap, m, used, forgotten, b, new
  <1>12. CASE Len(b) = MaxEntries + 1
    <2> DEFINE old == b[1].key
    <2>1. new = SubSeq(b, 2, Len(b))
      <3>1. Len(b) > MaxEntries /\ Len(b) - MaxEntries + 1 = 2
        BY <1>1, <1>12
      <3> QED BY <1>4, <3>1
    <2>2. b # <<>> /\ 1 \in 1 .. Len(b)
      BY <1>1, <1>8, <1>12
    <2>3. Shortened(b, new)
      BY <1>8, <2>1, <2>2, DropFirst
    <2>4. \A n \in 1 .. Len(b) : Len(b) - n >= MaxEntries <=> n = 1
      BY <1>1, <1>8, <1>12
    <2>5. \A x \in Key : x \in forgotten <=> x = old
      <3>1. old \in forgotten
        BY <1>10, <2>2, <2>4
      <3>2. ASSUME NEW x \in Key, x # old
            PROVE  x \notin forgotten
        <4>1. CASE Has(b, x)
          <5>1. PICK n \in 1 .. Len(b) : b[n].key = x
            BY <1>8, <4>1 DEF Has
          <5>2. n # 1
            BY <3>2, <5>1
          <5> QED BY <1>10, <2>4, <5>1, <5>2
        <4> QED BY <1>9, <4>1
      <3> QED BY <3>1, <3>2
    <2>6. \A x \in Key : Told(new, x) = IF x \in forgotten THEN 0 ELSE m[x]
      BY <1>5, <2>3, <2>5 DEF Shortened
    <2>7. \A x \in Key : Since(new, x) = IF x \in forgotten THEN {} ELSE used[x]
      BY <1>7, <2>3, <2>5 DEF Shortened, Since
    <2> QED BY <2>6, <2>7, Zenon DEF ToldMap, SinceMap, m, used, forgotten, b, new
  <1>13. Len(b) <= MaxEntries \/ Len(b) = MaxEntries + 1
    <2>1. MaxEntries \in Nat /\ Len(b) \in Nat /\ Len(b) <= MaxEntries + 1
      BY <1>1, <1>8
    <2>2. \A p, q \in Nat : p <= q + 1 => p <= q \/ p = q + 1
      OBVIOUS
    <2> QED BY <2>1, <2>2
  <1> QED BY <1>11, <1>12, <1>13

\* A read is the abstract one: nothing is told otherwise.
LEMMA TouchMap ==
    ASSUME NEW es \in Seq(Item), Neat(es), NEW k \in Key, ItemsOf(es, k) # <<>>
    PROVE  LET new == Others(es, k) \o ItemsOf(es, k)
           IN  /\ ToldMap(es)[k] # 0
               /\ ToldMap(new) = ToldMap(es)
               /\ SinceMap(new) = UsedSince(es, k, ToldMap(es))
  <1> DEFINE new == Others(es, k) \o ItemsOf(es, k)
  <1>1. Distinct(es)
    BY DEF Neat, Distinct
  <1>2. PICK i : Place(es, k, i)
    BY PlaceOf
  <1>3. /\ Others(es, k) \in Seq(Item)
        /\ ItemsOf(es, k) = <<es[i]>> /\ i <= Len(es)
    BY <1>2, Filters
  <1>4. i \in DOMAIN es /\ es[i].key = k /\ es[i] \in Item /\ es[i].val # 0
    <2>1. i \in 1 .. Len(es) /\ DOMAIN es = 1 .. Len(es)
      BY <1>2, <1>3 DEF Place
    <2>2. es[i].key = k /\ es[i] \in Item
      BY <1>2, <2>1 DEF Place
    <2>3. es[i].val # 0
      BY <2>2 DEF Item
    <2> QED BY <2>1, <2>2, <2>3
  <1>5. new = Append(Others(es, k), es[i])
    BY <1>3, <1>4
  <1> HIDE DEF new
  <1>6. MovedLast(es, k, es[i], new)
    BY <1>1, <1>4, <1>5, MoveLast
  <1>7. Told(es, k) = es[i].val
    BY <1>1, <1>4, ToldIs
  <1>8. \A x : Told(new, x) = Told(es, x)
    BY <1>6, <1>7 DEF MovedLast
  <1>9. ToldMap(new) = ToldMap(es) /\ \A x \in Key : ToldMap(es)[x] = Told(es, x)
    BY <1>8 DEF ToldMap
  <1>10. SinceMap(new) = UsedSince(es, k, ToldMap(es))
    BY <1>1, <1>4, <1>6, <1>9, SinceLast DEF SinceMap
  <1> QED BY <1>4, <1>7, <1>9, <1>10 DEF new

-----------------------------------------------------------------------------
(* The one memory                                                          *)

\* What tasks ts find in the stores es, or in the file f
Held(ts, es, f) ==
    IF StoresOf(ts) = {} THEN f ELSE es[CHOOSE s \in StoresOf(ts) : TRUE]

\* Tasks of one store
Alone(ts) == \A t, u \in Task : ts[t] # Free /\ ts[u] # Free => ts[t].store = ts[u].store

\* What is not in the file is about to be written.
Saved(ts, es, f) ==
    \A t \in Task : ts[t] # Free => (\E u \in Task : Owes(ts[u])) \/ es[ts[t].store] = f

\* What is inductive as long as there is no mishap
One == Alone(task) /\ Saved(task, entries, file)

\* It is the entries of the store of any task.
LEMMA HeldIs ==
    ASSUME NEW ts, NEW es, NEW f, Alone(ts)
    PROVE  /\ \A t \in Task : ts[t] # Free => Held(ts, es, f) = es[ts[t].store]
           /\ (\A t \in Task : ts[t] = Free) => Held(ts, es, f) = f
  <1>1. \A t \in Task : ts[t] # Free => ts[t].store \in StoresOf(ts)
    BY DEF StoresOf
  <1>2. \A s \in StoresOf(ts) : \E u \in Task : ts[u] # Free /\ ts[u].store = s
    BY DEF StoresOf
  <1>3. ASSUME NEW t \in Task, ts[t] # Free
        PROVE  Held(ts, es, f) = es[ts[t].store]
    <2> DEFINE s == CHOOSE s \in StoresOf(ts) : TRUE
    <2>1. StoresOf(ts) # {} /\ s \in StoresOf(ts)
      BY <1>1, <1>3
    <2>2. Held(ts, es, f) = es[s]
      BY <2>1 DEF Held
    <2> HIDE DEF s
    <2>3. s = ts[t].store
      BY <1>2, <1>3, <2>1 DEF Alone
    <2> QED BY <2>2, <2>3
  <1>4. ASSUME \A t \in Task : ts[t] = Free
        PROVE  Held(ts, es, f) = f
    <2>1. StoresOf(ts) = {}
      BY <1>2, <1>4
    <2> QED BY <2>1 DEF Held
  <1> QED BY <1>3, <1>4

\* It is what Current is, now and after a step.
LEMMA CurrentHeld ==
    /\ Current = Held(task, entries, file)
    /\ Current' = Held(task', entries', file')
BY DEF Current, InUse, Held

\* What is found after a step
LEMMA FoundAfter ==
    ASSUME Alone(task'), NEW t \in Task, task'[t] # Free
    PROVE  Current' = entries'[task'[t].store]
  <1>1. Held(task', entries', file') = entries'[task'[t].store]
    BY HeldIs
  <1> QED BY <1>1, CurrentHeld

\* A quiet step leaves it as it is.
LEMMA QuietOne ==
    ASSUME IInv', Ledger, One, Quiet
    PROVE  One' /\ Current' = Current
  <1>1. \A u \in Task : task'[u] # Free =>
           \E w \in Task : task[w] # Free /\ task[w].store = task'[u].store
    BY DEF Quiet, Kin, Fresh
  <1>2. \A u \in Task : task'[u] # Free => entries'[task'[u].store] = entries[task'[u].store]
    <2>1. CASE entries' = entries
      BY <2>1
    <2>2. CASE DropUnused(StoresOf(task'))
      <3>1. entries' = [s \in Store |-> IF s \in StoresOf(task') THEN entries[s] ELSE <<>>]
        BY <2>2 DEF DropUnused
      <3>2. \A u \in Task : task'[u] # Free => task'[u].store \in StoresOf(task')
        BY DEF StoresOf
      <3>3. \A u \in Task : task'[u] # Free => task'[u].store \in Store
        BY Kinds DEF IInv, Typed, Record
      <3> QED BY <3>1, <3>2, <3>3
    <2> QED BY <2>1, <2>2 DEF Quiet
  <1>3. ASSUME NEW u \in Task, Owes(task[u])
        PROVE  Owes(task'[u])
    <2>1. task[u] # Free /\ task'[u] # Free
      BY <1>3 DEF Quiet, Owes
    <2>2. Kin(task[u], task'[u])
      BY <2>1 DEF Quiet, Fresh
    <2> QED BY <1>3, <2>1, <2>2 DEF Kin, Owes
  <1>4. Alone(task')
    BY <1>1 DEF One, Alone
  <1>5. file' = file
    BY DEF Quiet
  <1>6. Saved(task', entries', file')
    BY <1>1, <1>2, <1>3, <1>5 DEF One, Saved
  <1>7. Held(task', entries', file) = Held(task, entries, file)
    <2>1. CASE \E t \in Task : task'[t] # Free
      <3>1. PICK t \in Task : task'[t] # Free
        BY <2>1
      <3>2. PICK w \in Task : task[w] # Free /\ task[w].store = task'[t].store
        BY <1>1, <3>1
      <3>3. Held(task', entries', file) = entries'[task'[t].store]
        BY <1>4, <3>1, HeldIs
      <3>4. Held(task, entries, file) = entries[task[w].store]
        BY <3>2, HeldIs DEF One
      <3> QED BY <1>2, <3>1, <3>2, <3>3, <3>4
    <2>2. CASE \A t \in Task : task'[t] = Free
      <3>1. Held(task', entries', file) = file
        BY <1>4, <2>2, HeldIs
      <3>2. \A u \in Task : ~Owes(task[u])
        BY <2>2 DEF Quiet
      <3>3. \A t \in Task : task[t] # Free => entries[task[t].store] = file
        BY <3>2 DEF One, Saved
      <3>4. CASE \E t \in Task : task[t] # Free
        <4>1. PICK t \in Task : task[t] # Free
          BY <3>4
        <4>2. Held(task, entries, file) = entries[task[t].store]
          BY <4>1, HeldIs DEF One
        <4> QED BY <3>1, <3>3, <4>1, <4>2
      <3>5. CASE \A t \in Task : task[t] = Free
        <4>1. Held(task, entries, file) = file
          BY <3>5, HeldIs DEF One
        <4> QED BY <3>1, <4>1
      <3> QED BY <3>4, <3>5
    <2> QED BY <2>1, <2>2
  <1> QED BY <1>4, <1>5, <1>6, <1>7, CurrentHeld DEF One

\* So does the first turn, which reads the file,
LEMMA StartTurnOne ==
    ASSUME IInv, Ledger, One, NEW t \in Task, NEW s \in Store, StartTurn(t, s), InUse = {}
    PROVE  One' /\ Current' = Current
  <1>1. \A u \in Task : task[u] = Free
    BY DEF InUse, StoresOf
  <1>2. /\ entries' = [entries EXCEPT ![s] = file] /\ file' = file
        /\ task'[t] # Free /\ task'[t].store = s
        /\ \A u \in Task : u # t => task'[u] = task[u]
    BY DEF StartTurn, Open, IInv, Typed, Free
  <1>3. entries'[s] = file
    BY <1>2 DEF Ledger, MemTidy, MemTypeOK
  <1>4. Alone(task') /\ Saved(task', entries', file')
    BY <1>1, <1>2, <1>3 DEF Alone, Saved
  <1>5. Current' = file
    <2>1. task'[t] # Free
      BY <1>2
    <2> QED BY <1>2, <1>3, <1>4, <2>1, FoundAfter
  <1>6. Held(task, entries, file) = file
    BY <1>1, HeldIs DEF One
  <1> QED BY <1>4, <1>5, <1>6, CurrentHeld DEF One

\* persist, which cuts the file off,
LEMMA PersistOne ==
    ASSUME IInv, Ledger, One, NEW t \in Task, Persist(t)
    PROVE  One' /\ Current' = Current
  <1>1. /\ task[t] # Free /\ task[t] \in Record /\ task[t].tool \in Builtin
        /\ task' = [task EXCEPT ![t].state = "writes"] /\ entries' = entries
    BY Kinds DEF Persist, BuiltinAt, IsFree, BeginPersist, IInv
  <1>2. /\ task'[t] = [task[t] EXCEPT !.state = "writes"]
        /\ \A u \in Task : u # t => task'[u] = task[u]
    BY <1>1 DEF IInv, Typed
  <1>3. /\ task'[t].tool = task[t].tool /\ task'[t].store = task[t].store
        /\ task'[t].state = "writes"
    BY <1>1, <1>2 DEF Record
  <1>4. task'[t] # Free
    BY <1>1, <1>3, Kinds DEF IInv, Free
  <1>5. Owes(task'[t])
    BY <1>1, <1>3, <1>4 DEF Owes
  <1>6. \A u \in Task : (task'[u] # Free <=> task[u] # Free) /\ task'[u].store = task[u].store
    BY <1>1, <1>2, <1>3, <1>4
  <1>7. Alone(task') /\ Saved(task', entries', file')
    BY <1>5, <1>6 DEF One, Alone, Saved
  <1>8. Held(task', entries', file') = entries'[task'[t].store]
    BY <1>4, <1>7, HeldIs
  <1>9. Held(task, entries, file) = entries[task[t].store]
    BY <1>1, HeldIs DEF One
  <1> QED BY <1>1, <1>3, <1>7, <1>8, <1>9, CurrentHeld DEF One

\* the end of a tool, once the file holds what its store does,
LEMMA PersistedOne ==
    ASSUME IInv, IInv', Tree, Ledger, One, NEW t \in Task, Persisted(t)
    PROVE  One' /\ Current' = Current
  <1> DEFINE s == task[t].store
  <1>1. /\ task[t] # Free /\ AtFile(task[t]) /\ End(t) /\ writes' = writes
        /\ file' = entries[s] /\ writing' = writing \ {s}
    BY DEF Persisted, BuiltinAt, IsFree, EndPersist, AtFile
  <1>2. \A u \in Task : task'[u] # Free =>
           /\ task[u] # Free /\ task'[u].store = task[u].store
           /\ entries'[task'[u].store] = entries[task'[u].store]
    BY <1>1, AwayFromFile
  <1>3. \A u \in Task : task[u] # Free => task[u].store = s
    BY <1>1 DEF One, Alone
  <1>4. \A u \in Task : task'[u] # Free => entries'[task'[u].store] = entries[s]
    BY <1>2, <1>3
  <1>5. Alone(task') /\ Saved(task', entries', file')
    BY <1>1, <1>2, <1>3, <1>4 DEF Alone, Saved
  <1>6. Held(task', entries', file') = entries[s]
    <2>1. CASE \E u \in Task : task'[u] # Free
      BY <1>4, <1>5, <2>1, HeldIs
    <2>2. CASE \A u \in Task : task'[u] = Free
      BY <1>1, <1>5, <2>2, HeldIs
    <2> QED BY <2>1, <2>2
  <1>7. Held(task, entries, file) = entries[s]
    BY <1>1, HeldIs DEF One
  <1> QED BY <1>5, <1>6, <1>7, CurrentHeld DEF One

\* and a crash while no tool owes a write.
LEMMA CrashOne ==
    ASSUME One, Crash, \A t \in Task : ~Owes(task[t])
    PROVE  One' /\ Current' = Current
  <1>1. (\A t \in Task : task'[t] = Free) /\ file' = file
    BY DEF Crash
  <1>2. Alone(task') /\ Saved(task', entries', file')
    BY <1>1 DEF Alone, Saved
  <1>3. Held(task', entries', file') = file
    BY <1>1, <1>2, HeldIs
  <1>4. \A t \in Task : task[t] # Free => entries[task[t].store] = file
    BY DEF One, Saved
  <1>5. Held(task, entries, file) = file
    <2>1. CASE \E t \in Task : task[t] # Free
      BY <1>4, <2>1, HeldIs DEF One
    <2>2. CASE \A t \in Task : task[t] = Free
      BY <2>2, HeldIs DEF One
    <2> QED BY <2>1, <2>2
  <1> QED BY <1>2, <1>3, <1>5, CurrentHeld DEF One

\* The store of t changes, and t owes a write: what is found is what it holds.
LEMMA ChangeOne ==
    ASSUME IInv, Ledger, One, NEW t \in Task, task[t] # Free, NEW es,
           entries' = [entries EXCEPT ![task[t].store] = es],
           Owes(task'[t]), task'[t].store = task[t].store,
           \A u \in Task : u # t => task'[u] = task[u]
    PROVE  One' /\ Current = entries[task[t].store] /\ Current' = es
  <1> DEFINE s == task[t].store
  <1>1. s \in Store
    BY Kinds DEF IInv, Record
  <1>2. entries'[s] = es
    BY <1>1 DEF Ledger, MemTidy, MemTypeOK
  <1>3. task'[t] # Free
    BY DEF Owes
  <1>4. \A u \in Task : (task'[u] # Free <=> task[u] # Free) /\ (task'[u] # Free => task'[u].store = task[u].store)
    BY <1>3
  <1>5. Alone(task')
    BY <1>4 DEF One, Alone
  <1>6. Saved(task', entries', file')
    BY DEF Saved
  <1>7. Held(task, entries, file) = entries[s]
    BY HeldIs DEF One
  <1>8. Current' = entries'[task'[t].store]
    BY <1>3, <1>5, FoundAfter
  <1> QED BY <1>2, <1>5, <1>6, <1>7, <1>8, CurrentHeld DEF One

\* The abstract module counts as this one does.
LEMMA SameCount == \A S : OneMap!Cardinality(S) = Cardinality(S)
BY DEF OneMap!Cardinality, Cardinality

\* What the refinement tells, by its maps
LEMMA Maps ==
    /\ [k \in Key |-> Told(Current, k)] = ToldMap(Current)
    /\ [k \in Key |-> {x \in Key : Before(Current, k, x)}] = SinceMap(Current)
    /\ [k \in Key |-> Told(Current, k)]' = ToldMap(Current')
    /\ [k \in Key |-> {x \in Key : Before(Current, k, x)}]' = SinceMap(Current')
BY DEF ToldMap, SinceMap, Since, Told, Before, ItemsOf

\* A step that leaves what is found leaves the abstract memory.
LEMMA SameMap ==
    ASSUME Current' = Current, writes' = writes
    PROVE  UNCHANGED <<[k \in Key |-> Told(Current, k)],
                       [k \in Key |-> {x \in Key : Before(Current, k, x)}], writes>>
BY Maps

\* A write remembers.
LEMMA WriteOne ==
    ASSUME IInv, Ledger, One, NEW t \in Task, Write(t)
    PROVE  One' /\ \E k \in Key : OneMap!Remember(k)
  <1> DEFINE s == task[t].store
  <1>1. PICK k \in Key :
           /\ Insert(s, k)
           /\ task' = [task EXCEPT ![t].state = "owes", ![t].key = k, ![t].val = writes']
    BY DEF Write
  <1> DEFINE item == [key |-> k, val |-> writes']
             es == Trimmed(Append(Others(entries[s], k), item))
  <1>2. /\ task[t] # Free /\ task[t].tool = "memory_write" /\ task[t] \in Record
        /\ task'[t] = [task[t] EXCEPT !.state = "owes", !.key = k, !.val = writes']
        /\ \A u \in Task : u # t => task'[u] = task[u]
    BY <1>1, Kinds DEF Write, At, IsFree, IInv, Typed
  <1>3. task'[t].store = s /\ task'[t].state = "owes" /\ task'[t].tool = "memory_write"
    BY <1>2 DEF Record
  <1>4. Owes(task'[t])
    BY <1>3 DEF Owes, Free, Builtin
  <1>5. /\ s \in Store /\ entries[s] \in Seq(Item) /\ Neat(entries[s])
        /\ writes \in Nat /\ MaxWrites \in Nat
    BY <1>2, EntriesAssumption DEF Record, Ledger, MemTidy, MemTypeOK
  <1>6. /\ writes < MaxWrites /\ writes' = writes + 1
        /\ entries' = [entries EXCEPT ![s] = es]
    BY <1>1, <1>5 DEF Insert, Ledger, MemTidy, MemTypeOK
  <1>7. item \in Item /\ item.key = k /\ item.val = writes + 1
    <2>1. writes' \in 1 .. MaxWrites
      BY <1>5, <1>6
    <2> QED BY <1>6, <2>1 DEF Item
  <1> HIDE DEF item
  <1>8. One' /\ Current = entries[s] /\ Current' = es
    <2> HIDE DEF es
    <2> QED BY <1>2, <1>3, <1>4, <1>6, ChangeOne
  <1> DEFINE c == entries[s]
             m == [ToldMap(c) EXCEPT ![k] = item.val]
             used == UsedSince(c, k, m)
             forgotten == {x \in Key : Cardinality(used[x]) >= MaxEntries}
  <1>9. /\ ToldMap(es) = [x \in Key |-> IF x \in forgotten THEN 0 ELSE m[x]]
        /\ SinceMap(es) = [x \in Key |-> IF x \in forgotten THEN {} ELSE used[x]]
    <2> HIDE DEF s
    <2> QED BY <1>5, <1>7, InsertMap
  <1>10. [[x \in Key |-> Told(Current, x)] EXCEPT ![k] = writes + 1] = m
    BY <1>7, <1>8, Maps
  <1>11. OneMap!Used(k, m) = used
    <2>1. \A x \in Key : [y \in Key |-> {z \in Key : Before(Current, y, z)}][x] = Since(c, x)
      BY <1>8 DEF Since
    <2> HIDE DEF c, m
    <2> QED BY <2>1 DEF OneMap!Used, UsedSince
  <1>12. {x \in Key : OneMap!Cardinality(used[x]) >= MaxEntries} = forgotten
    BY SameCount
  <1> HIDE DEF es, m, used, forgotten
  <1>13. [x \in Key |-> Told(Current, x)]' = [x \in Key |-> IF x \in forgotten THEN 0 ELSE m[x]]
    BY <1>8, <1>9, Maps
  <1>14. [x \in Key |-> {y \in Key : Before(Current, x, y)}]'
           = [x \in Key |-> IF x \in forgotten THEN {} ELSE used[x]]
    BY <1>8, <1>9, Maps
  <1>15. OneMap!Remember(k)
    BY <1>6, <1>10, <1>11, <1>12, <1>13, <1>14 DEF OneMap!Remember
  <1> QED BY <1>8, <1>15

\* A read recalls.
LEMMA ReadOne ==
    ASSUME IInv, Ledger, One, NEW t \in Task, Read(t)
    PROVE  One' /\ \E k \in Key : OneMap!Recall(k)
  <1> DEFINE s == task[t].store
  <1>1. PICK k \in Key : Touch(s, k)
    BY DEF Read
  <1> DEFINE es == Others(entries[s], k) \o ItemsOf(entries[s], k)
             c == entries[s]
  <1>2. /\ task[t] # Free /\ task[t].tool = "reader" /\ task[t] \in Record
        /\ task' = [task EXCEPT ![t].state = "owes"]
    BY Kinds DEF Read, At, IsFree, IInv
  <1>3. /\ task'[t] = [task[t] EXCEPT !.state = "owes"]
        /\ \A u \in Task : u # t => task'[u] = task[u]
    BY <1>2 DEF IInv, Typed
  <1>4. task'[t].store = s /\ task'[t].state = "owes" /\ task'[t].tool = "reader"
    BY <1>2, <1>3 DEF Record
  <1>5. Owes(task'[t])
    BY <1>4 DEF Owes, Free, Builtin
  <1>6. s \in Store /\ entries[s] \in Seq(Item) /\ Neat(entries[s])
    BY <1>2 DEF Record, Ledger, MemTidy, MemTypeOK
  <1>7. /\ ItemsOf(entries[s], k) # <<>> /\ writes' = writes
        /\ entries' = [entries EXCEPT ![s] = es]
    BY <1>1, <1>6 DEF Touch, Holds, Ledger, MemTidy, MemTypeOK
  <1>8. One' /\ Current = c /\ Current' = es
    <2> HIDE DEF es
    <2> QED BY <1>2, <1>3, <1>4, <1>5, <1>7, ChangeOne
  <1>9. /\ ToldMap(c)[k] # 0
        /\ ToldMap(es) = ToldMap(c)
        /\ SinceMap(es) = UsedSince(c, k, ToldMap(c))
    <2> HIDE DEF s
    <2> QED BY <1>6, <1>7, TouchMap
  <1> HIDE DEF es, c
  <1>10. [x \in Key |-> Told(Current, x)] = ToldMap(c)
    BY <1>8, Maps
  <1>11. OneMap!Used(k, ToldMap(c)) = UsedSince(c, k, ToldMap(c))
    <2>1. \A x \in Key : [y \in Key |-> {z \in Key : Before(Current, y, z)}][x] = Since(c, x)
      BY <1>8 DEF Since
    <2> QED BY <2>1 DEF OneMap!Used, UsedSince
  <1>12. [x \in Key |-> Told(Current, x)]' = ToldMap(c)
    BY <1>8, <1>9, Maps
  <1>13. [x \in Key |-> {y \in Key : Before(Current, x, y)}]' = UsedSince(c, k, ToldMap(c))
    BY <1>8, <1>9, Maps
  <1>14. OneMap!Recall(k)
    BY <1>7, <1>9, <1>10, <1>11, <1>12, <1>13 DEF OneMap!Recall
  <1> QED BY <1>8, <1>14

\* It is what Settled says, in terms of tasks.
LEMMA SettledIs == Settled <=> One
  <1>1. \A t \in Task : t \in Live <=> task[t] # Free
    BY DEF Live, IsFree
  <1>2. \A t \in Task : Owing(t) <=> Owes(task[t])
    BY DEF Owing, Owes, BuiltinAt, IsFree
  <1>3. \A t \in Task : Owes(task[t]) => task[t] # Free
    BY DEF Owes
  <1>4. Live \subseteq Task
    BY DEF Live
  <1> QED BY <1>1, <1>2, <1>3, <1>4 DEF Settled, One, Alone, Saved

\* A step without a mishap is one of the one memory, or leaves it.
LEMMA OneStep ==
    ASSUME IInv, IInv', Tree, Ledger, One, [Next /\ ~Mishap]_vars
    PROVE  One' /\ [OneMap!Next]_(OneMap!vars)
  <1>1. ASSUME Current' = Current, writes' = writes
        PROVE  UNCHANGED OneMap!vars
    BY <1>1, SameMap DEF OneMap!vars
  <1>2. CASE Quiet
    BY <1>1, <1>2, QuietOne DEF Quiet
  <1>3. ASSUME NEW t \in Task, NEW s \in Store, StartTurn(t, s), ~Mishap
        PROVE  One' /\ UNCHANGED OneMap!vars
    <2>1. InUse = {} /\ writes' = writes
      BY <1>3 DEF Mishap, StartTurn, Open
    <2> QED BY <1>1, <1>3, <2>1, StartTurnOne
  <1>4. ASSUME NEW t \in Task, Persist(t)
        PROVE  One' /\ UNCHANGED OneMap!vars
    <2>1. writes' = writes
      BY <1>4 DEF Persist, BeginPersist
    <2> QED BY <1>1, <1>4, <2>1, PersistOne
  <1>5. ASSUME NEW t \in Task, Persisted(t)
        PROVE  One' /\ UNCHANGED OneMap!vars
    <2>1. writes' = writes
      BY <1>5 DEF Persisted, EndPersist
    <2> QED BY <1>1, <1>5, <2>1, PersistedOne
  <1>6. ASSUME Crash, ~Mishap
        PROVE  One' /\ UNCHANGED OneMap!vars
    <2>1. writes' = writes
      BY <1>6 DEF Crash
    <2>2. \A t \in Task : ~Owes(task[t])
      BY <1>6 DEF Mishap, Owing, Owes, BuiltinAt, IsFree
    <2> QED BY <1>1, <1>6, <2>1, <2>2, CrashOne
  <1>7. ASSUME NEW t \in Task, Write(t)
        PROVE  One' /\ OneMap!Next
    BY <1>7, WriteOne DEF OneMap!Next
  <1>8. ASSUME NEW t \in Task, Read(t)
        PROVE  One' /\ OneMap!Next
    BY <1>8, ReadOne DEF OneMap!Next
  <1>9. ASSUME ~Quiet
        PROVE  Loud /\ Next /\ ~Mishap
    <2>1. [Next]_vars /\ (UNCHANGED vars => Quiet)
      BY DEF vars, memVars, Quiet, Kin, AtFile, Owes
    <2> QED BY <1>9, <2>1, LoudOrQuiet
  <1>10. CASE ~Quiet
    <2>1. Loud /\ ~Mishap
      BY <1>9, <1>10
    <2>2. \A t \in Task : ~PersistFails(t)
      BY <2>1 DEF Mishap
    <2> QED BY <1>3, <1>4, <1>5, <1>6, <1>7, <1>8, <2>1, <2>2 DEF Loud
  <1> QED BY <1>2, <1>10

\* memory.rs: "bounded, LRU eviction".  From a settled state and until a mishap,
\* the writes and reads of all tools, of agents within agents or timed out, are
\* those of a single bounded map with LRU eviction, and every other step, ends
\* of turns and crashes included, leaves it as it is.
THEOREM MemoryIsOne == Spec => OneMemory
  <1>1. IInv /\ IInv' /\ Tree /\ Ledger /\ [Next]_vars
          => (Settled /\ ~Mishap => [OneMap!Next]_(OneMap!vars))
    BY SettledIs, OneStep
  <1> QED BY <1>1, InvAlways, TreeAlways, LedgerAlways, PTL DEF Spec, OneMemory

\* Without a mishap the memory of all turns is one map from the first start on:
\* the execution of tools implements Memory (memory_write: "persists across
\* sessions").
THEOREM MemoryImplemented == Steady => OneMap!Spec
  <1>1. Init => OneMap!Init /\ One
    <2> SUFFICES ASSUME Init PROVE OneMap!Init /\ One
      OBVIOUS
    <2>1. (\A t \in Task : task[t] = Free) /\ file = <<>> /\ writes = 0
      BY DEF Init, MemInit
    <2>2. One
      BY <2>1 DEF One, Alone, Saved
    <2>3. Current = <<>>
      BY <2>1, <2>2, HeldIs, CurrentHeld DEF One
    <2>4. \A x : ~Has(<<>>, x)
      BY DEF Has
    <2>5. <<>> \in Seq(Item) /\ Distinct(<<>>)
      BY DEF Distinct
    <2>6. \A x \in Key : Told(Current, x) = 0
      BY <2>3, <2>4, <2>5, ToldIs
    <2>7. \A x \in Key : {y \in Key : Before(Current, x, y)} = {}
      BY <2>3 DEF Before
    <2> QED BY <2>1, <2>2, <2>6, <2>7 DEF OneMap!Init
  <1>2. IInv /\ IInv' /\ Tree /\ Ledger /\ One /\ [Next /\ ~Mishap]_vars
          => One' /\ [OneMap!Next]_(OneMap!vars)
    BY OneStep
  <1>3. Steady => Spec
    <2>1. [Next /\ ~Mishap]_vars => [Next]_vars
      OBVIOUS
    <2> QED BY <2>1, PTL DEF Steady, Spec
  <1> QED BY <1>1, <1>2, <1>3, InvAlways, TreeAlways, LedgerAlways, PTL DEF Steady, OneMap!Spec
=============================================================================
