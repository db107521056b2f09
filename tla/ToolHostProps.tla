--------------------------- MODULE ToolHostProps ----------------------------
(* What the execution of tools promises the agents and their user. *)
EXTENDS ToolHost

Live == {t \in Task : ~IsFree(t)}

\* Delegation has a bottom: no agent is nested deeper than MAX_DEPTH.  The
\* thread-locals cannot see to it, since an agent's calls run on threads that
\* count from 0; the order in which the tools are registered does.
NestingBound == \A t \in Live : task[t].nested <= MaxDepth

\* A thread that is free counts no delegation, however the ones that ran on
\* it ended, so that none is refused for the sake of those that are over.
DepthRestored ==
    \A t \in Task : IsFree(t) => \A d \in Delegation : depth[t][d] = 0

\* An agent that awaits a call awaits one, and one that does not awaits none:
\* the late result of a call that timed out is never taken for the result of
\* the agent's next call.
OneAnswer ==
    \A a \in Live :
       Cardinality({t \in CalledBy(a) : task[t].awaited}) =
          IF task[a].state = "call" THEN 1 ELSE 0

\* A child agent leaves nothing behind: whatever it started, timed out or
\* not, has ended when it returns. Only what a turn started survives it.
NothingLeftBehind ==
    \A t \in Live :
       task[t].caller # NoTask =>
          /\ ~IsFree(task[t].caller)
          /\ task[task[t].caller].tool \in Agent \cup {"workflow"}
          /\ task[task[t].caller].store = task[t].store

\* memory_write: "persists across sessions".  What a write stored stays in
\* the file, or is overwritten by a later write, or leaves a file that is
\* full, whichever tools, timed out or not, use the store at the same time
\* and whatever crashes: as long as no two stores were in use at once, no
\* write of the file failed half way and no crash came in the middle of one.
Remembered ==
    writing = {} =>
       \A k \in {x \in Key : kept[x] # 0} :
          LET found == ItemsOf(file, k)
          IN  IF found = <<>> THEN Len(file) = MaxEntries
              ELSE found[1].val >= kept[k]

-----------------------------------------------------------------------------
(* The memory is one map, however many tools, of agents within agents or    *)
(* timed out, use it at the same time                                       *)

\* A tool that has used the store and not yet written the file
Owing(t) == BuiltinAt(t, "owes") \/ BuiltinAt(t, "writes")

\* What the map does not survive: a file that cannot be written, a crash
\* before it is, and a second store.
Mishap ==
    \/ \E t \in Task : PersistFails(t)
    \/ Crash /\ \E t \in Task : Owing(t)
    \/ InUse # {} /\ \E t \in Task, s \in Store : StartTurn(t, s)

Steady == Init /\ [][Next /\ ~Mishap]_vars

\* The tools at work share one store, and what it holds is in the file unless
\* one of them owes a write of it.
Settled ==
    /\ \A t, u \in Live : task[t].store = task[u].store
    /\ \/ \E t \in Live : Owing(t)
       \/ \A t \in Live : entries[task[t].store] = file

\* The entries a tool finds, now or once a turn has begun
Current == IF InUse = {} THEN file ELSE entries[CHOOSE s \in InUse : TRUE]

Told(es, k) == IF ItemsOf(es, k) = <<>> THEN 0 ELSE ItemsOf(es, k)[1].val
Before(es, x, y) ==
    \E i, j \in DOMAIN es : i < j /\ es[i].key = x /\ es[j].key = y

OneMap == INSTANCE Memory WITH
    told  <- [k \in Key |-> Told(Current, k)],
    since <- [k \in Key |-> {x \in Key : Before(Current, k, x)}]

\* memory.rs: "bounded, LRU eviction".  Reads and writes of the tools are those
\* of one memory, which the end of a turn, the begin of the next, timeouts and
\* crashes in between leave as it is, from any state that is settled and until
\* a mishap.
OneMemory == [][Settled /\ ~Mishap => [OneMap!Next]_(OneMap!vars)]_vars
=============================================================================
