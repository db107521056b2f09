# TLA+ specifications of deepseek-harness-lite

deepseek-harness-lite (`src/`, the crate in `src/src/`) is a small agent
harness: a CLI and an HTTP server that run *turns* of a conversation. A turn
routes the user's message to a skill, then alternates calls of a language model
and calls of tools until the model, the skill's script or the user ends it.
Every conversation is a *session*: an append-only event log in a bounded ring
with a checkpoint file on disk.

This directory models the part of the program that keeps state over several
awaits or threads: the session log and the loop that writes it, the streamed
call of the model, the session registry under the HTTP server, the settings and
the route a chat request runs with, the execution of tools with the agents they
delegate to and the long-term memory, the pool of ssh connections, and the
conditions a workflow's steps depend on. The modules are checked with TLC on
small instances; what can be proved for every instance is proved with TLAPS.
`PROJECT.json` maps every definition to the lines it stands for.

## 1. Inventory

| component | state | operations | works with |
|---|---|---|---|
| session log `session.rs`, `types.rs` | ring of events, turn and step counters, `last_model` | `append`, `begin/end_turn`, `begin/end_step`, `clear`, `derive_messages`, `apply_compaction`, `checkpoint`, `load`, `repair_interrupted_turn` | owned by value by whoever runs a turn, by the session manager between turns |
| agent loop `agent.rs`, strategies | place in the turn, the hook's step index, stream and pending calls, cancellation receiver | `run_turn`, `run_llm_step`, `run_forced_tool`, `run_forced_llm`, `pre_step`, `post_step` | log, LLM client, tool registry, compaction |
| compaction `compaction.rs` | none | `needs_compaction`, `compact` | LLM client; the log it shortens |
| LLM client `llm.rs` | an attempt, the text and calls accumulated so far; a bounded channel to the caller | `stream`, direct or via a proxy; `process_sse` | provider; agent loop, judge step, compaction, router, preheating |
| skill router `router.rs` | none | `route_skill`: rule match, then a call of the model under a timeout of 8 s | LLM client; called by the chat handler |
| settings, model state `main.rs`, `model_state.rs`, `server.rs` | the configuration file, the configuration the server started with, the locked skill, `last-model.json` | `load_or_init_config`, `load_config_file`, `POST /api/config`, `/raw`, `/path`, `/api/skills/active`, `save_last_model`, `load_last_model` | read anew by every chat request; router |
| session manager `session_manager.rs` | index, cache of two logs, active id, checkpoint files, index file | `create`, `switch`, `rename`, `delete`, `take_active`, `return_session`, `checkpoint_active`, `evict_cache`, `save_index`, `load_index` | behind one mutex in the server; files |
| chat server `server.rs` | one slot for a cancellation sender; per chat request the log it holds | `/api/chat`, `/api/chat/cancel`, the session endpoints | session manager, router, dispatcher |
| dispatcher `dispatcher.rs` | the log it is given | `dispatch`, `take_session` | builds hooks and runs the agent loop |
| slash commands `commands.rs` | none | `/clear`, `/new`, `/compact` | the active session's log |
| start-up `main.rs` | none | resume or create a session, preheat, CLI turn | session manager |
| tool registry, policy `tools/mod.rs`, `policy.rs` | registered tools | `execute_checked`: allow list, policy, timeout, truncation | agent loop; tools |
| subagent `subagent.rs`, workflow tool `tools/workflow.rs` | thread-local nesting depth, statuses of tasks | `execute` | an agent loop of their own |
| memory store `memory.rs` | entries of a file | `open`, `write`, `read`, `recall`, `delete`, `persist` | one store per turn over the same file |
| ssh pool `tools/ssh.rs` | open connections, one pool per chat turn | `execute_command`: take or connect, open a channel, read, put back | remote hosts; threads of calls |
| workflow strategy, expressions `strategies/workflow.rs`, `expr.rs` | place in the steps, results by step id | `pre_step`, `post_step`, `evaluate`, `interpolate_str` | agent loop |
| skills `skill.rs`, prompt `prompt.rs` | the list of skills, read once at the start | `load_dir`, `select_by_name`, parsing, text assembly | router, dispatcher |
| file, shell and image tools, web client | none | host I/O | |

**How they interact.** A chat request takes the active session's log out of the
manager, awaits the router, spawns a task that dispatches the turn with the log,
and gives the log back at the end; meanwhile other requests use the manager. The
dispatcher runs the agent loop, which owns the log and awaits the model and the
tools. A call of the model runs `LlmClient::stream` in a task which sends its
events over a bounded channel. A tool runs on a blocking thread, which goes on
when the call times out; a subagent or a task of a workflow runs a whole agent
loop on such a thread, with a runtime of its own. A cancellation is a watch channel whose sender
sits in a slot of the server.

**What is hard here.**

* A log is *moved*, not shared: while a turn holds it, the manager believes that
  the active session's log is wherever `active_id` points, and the id it was
  taken from is forgotten.
* The turn loop has many early returns (an error, a cancellation, a hook that
  stops), each of which has to close the step and the turn it is in.
* The ring evicts in the middle of turns, compaction inserts without evicting,
  and `derive_messages` and the repair scan what is left.
* Callers of a streamed call differ in whether they read the channel or wait for
  the task first, and in when they stop reading.
* A tool outlives its call, its agent's turn and the request; every turn opens
  the memory's file anew, next to the stores of tools that still run.
* A crash or a failed write may come between any two steps, and the index file
  is not written whenever the index changes.
* Every chat reads the settings anew, while others rewrite them and lock another
  skill; a request that awaits the router goes on with what it has read.
* An ssh call that timed out uses its connection on, while the next call for the
  same device takes or makes another, and the pool belongs to whoever of the
  turn, its agents and its threads is left.
* Conditions are searched for operators as text, and the words of an operator
  also stand in quotes and in results; results are replaced in results.

**What makes each component correct.** Log and loop: turns and steps nest, the
log is closed between turns and bounded, the projection loses and reorders
nothing, calls are answered, a cancellation stops further work, turns end.
Stream: an answer has one end, nothing is repeated by a retry, interleaved
fragments become whole calls, callers return. Sessions: what the files hold is
what was said, in the session where it was said; nothing is lost by eviction or
crash; a stop reaches the turn that runs. Tools: a call has one answer,
nesting is bounded, a child agent leaves nothing behind, a memory that was
written is not lost. Connections: one command at a time uses one, no call costs
another its connection, none is left open. Settings: a chat runs with what was
saved before it was asked and is routed as its lock and its words say.
Workflows: a step runs exactly when what its condition means is true.

`PROJECT.json` lists the hazards line by line with the properties that cover
them.

## 2. Modules

```
Subsequences <- SequenceLemmas      (used by the modules with a *)
SessionLog* <- AgentLoop <- AgentLoopProps <- MCAgentLoop
                                           <- AgentLoopProofs*
LlmStream <- LlmStreamProps* <- LlmStreamProofs*
SessionManager <- ChatServer <- ChatServerProps <- MCChatServer
                                 (INSTANCE Conversations)
                                                <- ChatServerProofs
                                                   (INSTANCE Conversations)
MemoryStore* <- ToolHost <- ToolHostProps <- MCToolHost
                            (INSTANCE Memory)
                                          <- ToolHostProofs*
Router <- ChatSettings <- ChatSettingsProps <- MCChatSettings
                                            <- ChatSettingsProofs
SshPool <- SshPoolProps <- SshPoolProofs
Expr <- Workflow <- WorkflowProps <- MCWorkflow
                                  <- WorkflowProofs*
```

`Subsequences` is what the code's filters are written with: `Picked(s, I)` are the
elements of `s` at the indices `I`, in their order, as a recursive function.
`SequenceLemmas` says what it yields, for every sequence and set.

### SessionLog and AgentLoop

`SessionLog` is the log as a data type: every operator is one method of
`SessionLog`. An event keeps its kind, its turn and step, the model of a request
header, the ids of calls and results, and of a user message whether it is the
user's input, the notice of a model switch or a todo's guidance. Texts,
timestamps and `next_seq` (written, never read) are left out, so the token
estimate is a number of messages. `ShownMessages` is the second copy of the
projection's loop, in the handler that shows a client the history.

`AgentLoop` is one session with the loop that drives it. `pc` is the await
`run_turn` is at, and an action is the code between two awaits:

| `pc` | place in the code | actions that leave it |
|---|---|---|
| `idle` | the log is with its owner | `StartTurn`, `ClearCommand`, `CompactCommand` |
| `top` | head of the step loop, agent.rs:213 | `EnterStep`, `AbortAtTop` |
| `pre` | `pre_step` | `PlanProceed`, `TodoProceed`, `ForceTool`, `ForceLlm`, `StopBeforeStep` |
| `compacting` | `compact` awaited | `Compacted` |
| `stream` | the stream is received | `RecvDelta`, `RecvDone`, `RecvError`, `RecvCancelled`, `StreamFailed`, `StreamClosed` |
| `tools`, `tool` | between calls, in a call | `BeginTool`, `EndTool` |
| `forcedTool`, `judge` | the forced steps of a workflow | `EndForcedTool`, `JudgeAnswered`, `JudgeFailed` |
| `post` | `post_step` (also at the end of `tools`) | `NextStep`, `StopAfterStep` |
| `returned` | `run_turn` returned | `ReturnSession` |

`Cancel` may come anywhere in a turn, `Crash` anywhere; a crash loads the
checkpoint file `flash` with eviction and repair. The model and the user are
arbitrary: any answer, any number of calls within the bounds, any result of a
workflow's condition.

### LlmStream

One call: `task` is the await of `LlmClient::stream` (connecting, reading,
sending; `end` when it returned), `chan` the channel, `pc` and `received` the
caller. The five callers are one constant set, and differ in `WaitsFirst` (the
router and the preheating await the task before they read the channel) and in
`StopsReading` (a cancelled agent loop at the next event, the compaction at an
error, the router at either end). Texts are counted, a fragment of a call's
arguments is the number of its chunk, so that a lost, repeated, swapped or
misattributed fragment shows. A connection error is retried up to `Attempts`
times; an error after that is final. The proxy variant of the request reads the
same way and is mapped to the same actions.

### SessionManager, ChatServer, Conversations

`SessionManager` is the registry, one action per method, each being what the
code does under one hold of the mutex. A log is the sequence of the turns it
records. Of time stamps only the order is kept, renumbered densely; with
`SameMillis`, two may be equal. With `DiskFaults`, every write of a checkpoint or
of the index and every removal may fail, and a deletion may be torn by a crash.

`ChatServer` adds the turns: `Chat` (the log is taken, the router awaited),
`Dispatch` (the cancellation sender stored, the task spawned), `Finish` (the turn
has run, the slot is emptied), `Return` (the log is given back); `Disconnect`
drops a request that awaits the router, and `Crash` restarts the process as
`main` does. `Overlaps` says what clients do besides waiting for the answer of a
turn: `"switch"` (use other sessions during a turn), `"chat"` (start a second
turn), `"stop"` (close the connection while the router is awaited), `"boot"`
(chat after a start before any request has opened the session).

`Conversations` is the abstract specification: a session is the sequence of the
turns held in it, and only clearing, compaction and deletion take anything away.
There is no cache, no file and no turn in flight in it. `ChatServer` implements
it under the mapping `talk <- ` what a load of each known session's file yields,
`current <- active_id` (`Promised`).

### MemoryStore, ToolHost, Memory

`MemoryStore` is the long-term memory: the entries of every store, listed from
the least to the most recently used, the stores whose lock `persist` holds, and
the file, which is empty while a write of it is under way (`fs::write` truncates
first). A value is the number of the write it comes from. `write` and `read` are
two holds of the lock, as in the code: `Insert` or `Touch`, later
`BeginPersist` and `EndPersist`.

`ToolHost` is who uses it. A *task* is a turn, an agent a tool has started, or a
tool at work; its record says who called it, whether the caller still waits
(`awaited`), and where it is:

| `state` | place in the code | actions that leave it |
|---|---|---|
| `start` | a tool on its thread, before its effect | `Write`, `Read`, `EndReader`, `StartTask` |
| `ready` | an agent between calls; a workflow between tasks | `Call`, `EndTurn`, `EndAgent`, `StartTask`, `EndWorkflow` |
| `call` | awaits a call, or the thread of a workflow's task | the end of the task it called, `TimesOut` |
| `leave` | `child_rt` is dropped, which waits for its blocking threads | `Leave` |
| `owes`, `writes` | before and in `persist` | `Persist`, `Persisted`, `PersistFails` |

A turn opens a store (`register_builtins` runs per chat request, server.rs:762),
and what it delegates to shares it. The tools an agent has are those that were
registered before the delegation tool it was started by. `depth` are the
thread-locals `DEPTH` and `WF_DEPTH`, one pair per thread; the thread of a task
is the task's id, so that an id used again is a thread of the pool used again.
`nested` counts the agents above a task, which the program does not. What an
agent does between calls, and that a call ends in a result in the log, is
`AgentLoop`; a call the allow list or the policy denies, and a delegation beyond
its limit, are answered at once and change nothing here.

`Memory` is the abstract specification: one map with the last write of every key,
in which a key is forgotten once as many others as the capacity have been used
since. It has no stores, files, threads or locks, and no order but `since`, the keys
used since a key was. `told` and `since` are mapped to what a tool finds, which is
the store in use or, between turns, the file. The map does not survive a `Mishap`: a
file that cannot be written, a crash before a write of it that is due, a second store
next to one in use. `OneMemory` says that every other step is one of `Memory` or
leaves it alone, from any state that is `Settled`, be it after a mishap. `Steady` is
`ToolHost` without mishaps, and implements `Memory` from the start on.

### Router, ChatSettings

`Router` is the choice of a skill as a function of what a request's text mentions
and of the model's reply. A skill is its place in the sorted list; that one name
may stand inside another shows in what texts may mention (`Texts`) and in the
names' lengths.

`ChatSettings` is who writes and who reads what a chat runs with. `file` is the
configuration file, which may be absent or unusable; `startup` is what the server
falls back on; `last` is `last-model.json` of every directory; `lock` the skill a
user has locked. A handler is one action up to its await: `Save`, `SaveRaw`
(which stands for the choice of another file as well), `SwitchSkill`, `Ask` (a
chat up to the router's call) and `Routed` (its end). `Boot` is
`load_or_init_config` and the choice of the skill, `Crash` may tear a write of the
file. Of the settings, the model, `auto_route` and `persist_dir` are kept; every
other one that is read per request behaves as the model does. `saved` and
`lastUsed` are histories of what was promised.

### SshPool

One action per stretch of `execute_command` in which a thread waits for nobody.
A call is a thread, which goes on when its caller has given up:

| `state` | place in the code | actions that leave it |
|---|---|---|
| `take` | before the pool's lock, ssh.rs:106 | `Take` |
| `connect` | connect and authenticate | `Connected`, `ConnectFails` |
| `open` | open a channel, send the command | `Opened`, `OpenFails` |
| `read` | read the output | `ReadEnds` |
| `back` | before the pool's lock, ssh.rs:235 | `PutBack` |

The pool is dropped with the last holder of the turn's tools, be it the turn, an
agent that outlives it or a thread; `turn` says who that is. Whether a connection
outlives the runtime it was made on is a fact about the library and the constant
`Survives`; the run allows both at every connection.

### Expr, Workflow

A text is a sequence of tokens: an operator, a keyword, a quote, a dot, `steps`, a
placeholder, or a fragment of what stands between these. A step id is a text as
well. The code looks for an operator at every byte outside quotes, so that one
inside an id is a token of its own: `contains_err` is `contains` and `_err`, `v1.2`
is `v1`, a dot and `2`, and `Expr` finds the operator and the dot where the code
does. `Expr` is `expr.rs` as functions of such texts, with the search for keywords and
operators, and what is a string to it, as in the code; the code's recursions are
recursive functions, `Evaluate` one over the parts of the text. `Workflow` is the strategy of `AgentLoop`'s workflow skills with its
conditions evaluated and its arguments made, which `AgentLoop` leaves open:
`PreStep` and `NoStepLeft` are the two ends of `pre_step`'s loop, the order of the
two hash maps is arbitrary. A step id and a variable are different names in
`Place`, since `{{steps.x.result}}` and `{{x}}` are different placeholders; a variable
that is itself called `steps.x.result` is excluded (`PlaceAssumption`). `WorkflowProps` says what an author means by a
condition, as a structure with a truth of its own, and how it is written down;
that both agree is the property. It is stated for step ids that are made of
fragments (`Fragment`), tokens which are no word of the language: for others the
code misreads the condition (section 3).

## 3. What is checked

Every run but those of `LlmStream` and `Workflow` checks for deadlock. A call
that is over does nothing more, nor does a workflow that has ended, hence
`CHECK_DEADLOCK FALSE` there.

| run | instance | properties |
|---|---|---|
| `AgentLoop_turns` | two turns, all four kinds of skill, two models, cancellation, `/clear`, crashes | `LogChained`, `IdleClosed`, `CallsAnswered`, `SwitchAnnounced`, `RecoveredClosed`, `CancelStopsWork` |
| `AgentLoop_ring` | ring of 9, compaction over 3 messages, two turns of any skill with three calls, `/clear`, `/compact`, cancellation, crashes, fairness | `RingBound`, `DeriveInOrder`, `KeptOrSummarised`, `CancelEndsTurn`, `ScriptedTurnEnds` |
| `LlmStream_calls` | all callers, channel of 2, three attempts, answers of 3 chunks with up to 2 calls | `EndsOnce`, `JoinsEnded`, `DeltasOnce`, `AnswerWhole`, `RouterReturns`, `CallReturns` |
| `ChatServer_promise` | 3 sessions, 2 turns, equal stamps, clients that wait | `TypeOK`, `StopWorks`, `Promised` |
| `ChatServer_free` | clients that do anything at any time | `NothingUnsaved`, `CacheBound`, `NothingOrphaned`, `CancelTargetRuns` |
| `ChatServer_faults` | failing disk, torn deletions, clients that wait | `TurnsStayHome`, `ActiveInRam` |
| `ToolHost_tools` | 4 tasks, 2 stores, 2 keys, a capacity of 1, 2 writes, timeouts, failures and crashes anywhere | `NestingBound`, `DepthRestored`, `OneAnswer`, `NothingLeftBehind`, `Remembered`, `OneMemory` |
| `ChatSettings_requests` | one request at a time, 2 models, 2 directories, skills `check`, `health-check`, `trace`, saves, restarts, torn writes | `ObeysSaved`, `RoutesAsTold`, `Remembered` |
| `SshPool_commands` | one turn, 2 threads, 2 devices, 3 connections, timeouts and losses anywhere, fairness | `OneOwner`, `StaysOpen`, `Released` |
| `Workflow_conditions` | three steps, every condition of up to three comparisons of a small set, four results | `RunsAsWritten`, `GivenAsWritten` |

Every property is preceded in its module by what it says of the code. Each has a
mutant, a definition named `Bug...` next to the one it replaces, under which TLC
finds it violated.

### Bounds, and why they are enough

* *Ring.* 40 is never filled by two turns, which isolates the loop's own logic;
  9 is less than one turn with two tool calls writes, so that every event is
  evicted in some behaviour and the cut falls at every place in a turn, and
  enough for four messages, which a compaction needs. The program's 512 differs
  from 9 by nothing the code looks at.
* *Turns, calls.* Two turns show what one leaves for the next; in the ring run a
  turn is longer than the ring, so that whole turns are evicted. Two calls in a batch show the order of
  calls and results and a cancellation between them.
* *Skills.* A plan, a todo of two steps, an empty todo, and a workflow with a
  plain, a conditional judge and a conditional tool step: every branch of the
  hooks, including a skipped tail.
* *Models.* Two; the notice only compares.
* *Channel.* Two events, less than an answer of three chunks and its end, so
  that the sender waits in every long answer. The program's 64 is as easily
  exceeded by a real answer.
* *Chunks, ids.* Three chunks over two indices and two ids: a call in two
  fragments interleaved with another, an id that comes late, twice or never.
* *Sessions.* Three against a cache of two: the least number with which an
  eviction has a choice. `Session` ids may come round after a deletion, which a
  fresh id never would, but only once nothing refers to them, so that behaviours
  with ever new ids are covered by a few.
* *Tasks.* Four hold the deepest nesting the program reaches (a turn, a workflow,
  its task, a subagent) and, under the mutant, one more agent than `MaxDepth`
  allows; or two turns with a tool each. `MaxDepth` is 2, the least for which
  the bound holds; the program's 3 is never reached.
* *Memory.* Two keys against a capacity of one make every second write evict; two
  writes let a later one overtake an earlier one; two stores are two overlapping
  turns, or a turn and a tool that an earlier one left running. A capacity of one
  leaves no choice of what is evicted; that it is the key with the most others used
  since is what the proof adds, for any capacity.
* *Requests.* One chat at a time, with saves, raw saves, switches of the lock and
  restarts between its asking and its routing. Chats share nothing but what
  they write at once (`last`); the proofs are for any number. Patches set one
  setting each. Three skills, of which one's name lies in another's, and two are
  equally long.
* *Connections.* Two threads, one of them late, and a device each or the same;
  three connections, so that one lies in the pool while both threads hold one.
  The turns share nothing (every turn has a pool of its own), so that one is
  enough; it can begin anew once nothing of it is left. The proofs are for any
  number.
* *Conditions.* Eight comparisons, negated or not, alone, in pairs with either
  keyword, and a smaller set in threes with both; results and literals hold the
  words `and`, `or` and `contains` and a dot, and the id of the second step has two
  fragments. The third step has the condition, so that it
  depends on an unconditional and on a conditional step, which may have the same
  id.
* *Symmetry* is used for sessions and turns in the `ChatServer` runs and for
  tasks, stores and keys in `ToolHost_tools`, which check no liveness property.

### Fairness

`AgentLoop!Fairness` is weak fairness of the running turn: the runtime polls a
task that can go on, and tools have timeouts. It includes the assumption that
the provider's stream goes on, which nothing in `llm.rs` enforces (no read has a
timeout), and excludes `HangsUp`, a stream that is open when the user cancels:
the code then waits for the end of the stream task and may wait for ever (see
`CancelReturns` below), so that the liveness properties promise an end of the
turn or this state.

`LlmStream!Fairness` is that the runtime polls the task and the caller and that
the router's timer fires; `FairProvider` adds the provider's progress.
`RouterReturns` needs the timer only. `CallReturns` needs the provider.

`SshPool!Fairness` is that a thread which waits for no device goes on, which
includes the timers of 55 and 60 s, and that an agent ends. No device need
answer; `Released` excepts a thread that waits for one for ever.

`ChatServer` states safety and a refinement, `ToolHost`, `ChatSettings` and
`Workflow` safety; their runs need no fairness.

### What the code does not do

Two runs end in a counterexample to a sentence of the repository. Each is a
finding of `PROJECT.json`.

* `LlmStream_cancel` / `CancelReturns`. After a cancellation the loop waits for
  the stream task while it keeps the receiver open and no longer reads; when the
  rest of the answer does not fit the channel, both wait for ever.
* `ChatServer_swap` / `TurnsStayHome`. The log of a turn is returned to the
  session that is active when the turn ends. A user who opens another session
  meanwhile gets that one overwritten.

More of the kind is seen by changing one constant of a passing run, or adding a
property to it, and bounds what the passing runs claim. None of these is checked
by a run.

* `NoDanglingCalls` as an INVARIANT of `AgentLoop_turns` is violated. A
  cancellation between two tool calls leaves an assistant message with calls that
  have no results, and the next turn sends it to the provider. `session.rs:308`
  wants "no dangling tool calls without results", but the repair answers
  `ToolCall` events, which a call gets when it is begun, and only when a log is
  loaded.
* `NoDanglingRecovery` as an INVARIANT of `AgentLoop_turns` is violated, against the
  same sentence: a log saved after the answer with several calls, and before the
  last of them is begun, is loaded with calls of that answer that have no result.
  `RecoveredClosed` says what the repair does: it closes the turn and answers every
  call that was begun, and what it leaves unanswered of the interrupted turn had not
  been begun. Since the program saves a log only between turns, no restart meets
  such a log today.
* `Overlaps = {"boot"}` with `HistoryKept` in `ChatServer_swap`. After a start the
  log of the resumed session has been taken out for a dispatcher which the web
  mode never runs. A chat that arrives first starts on a fresh log, and its end
  overwrites the file.
* `LatestTurnKept` as a PROPERTY of `AgentLoop_ring` is violated:
  `keep_recent_turns` counts messages in `compact` and six times as many events
  in `apply_compaction`, and a turn with several calls is summarised from the
  user's question on. `README.md:80` says that the latest N turns are always
  kept.
* `RecoveredClosed` as an INVARIANT of `AgentLoop_ring` is violated: in a turn
  that is longer than the ring, the `TurnStart` is evicted, `repair_interrupted_turn`
  (session.rs:321) looks for it alone to tell an open turn, takes the log for
  closed and leaves the running call without a result. Since the program saves a
  log only between turns (`FlashClosed`), no restart loads such a log today.
* `Commands = {"compact"}` in `AgentLoop_turns` breaks `SwitchAnnounced`:
  `/compact` forgets `last_model`.
* `Overlaps = {"stop"}` with `HistoryKept`: a client that disconnects while the
  router is awaited drops the log, and the next turn starts on a fresh one. That
  hyper drops the handler's future is an external fact.
* `Overlaps = {"chat"}` in `ChatServer_promise` breaks `StopWorks`: the slot of
  the second turn's sender is emptied by the end of the first.
* `SameMillis = TRUE` in `ChatServer_faults` breaks `ActiveInRam`: `create`
  evicts before it sets `active_id`, and the new session may be the victim of a
  tie. Its log is on disk, so that `Promised` still holds. In `ChatServer_free`
  the same tie breaks `CacheBound`: the turn of the evicted session comes back
  and is inserted as one log more than the capacity.
* `Remembered` promises nothing after two stores were in use at once (two chat
  turns that overlap, or a turn and a memory tool that an earlier turn left
  running), after a crash in the middle of a write, or after a write that failed
  half way: the store that persists last overwrites what the other wrote, and a
  file that was cut off counts as empty. `kept` is where the model says so;
  `memory.rs:10` calls the full rewrite "simple, reliable".
* `Survives = {FALSE}` in `SshPool_commands`: a connection is made on a runtime
  that is dropped before the command runs on a second one (ssh.rs:124-161). Then
  no call finds a usable connection, its own included, and every command fails.
  This is what the code does if, as it seems, the library (russh 0.50) drives a
  connection from a task of the runtime that called `connect`, which is an
  external fact. `README.md:109` and `:137`, `SKILL-GUIDE.md:612` and
  `ssh.rs:3-6` promise connections that stay open between calls. Whatever the
  library does, they stay open within one chat turn only, since every turn
  registers its tools, and the pool with them, anew (server.rs:762).
* `DefaultFollows` as a PROPERTY of `ChatSettings_requests` is violated. The list
  of presets shows the model used last as the default, and the comment at
  `server.rs:419` says that it is; a chat with the default runs with the model of
  the configuration. `load_last_model` has no other user than the list.
* `Skill <- Misnamed` in `Workflow_conditions` breaks `RunsAsWritten`:
  `find_operator` (expr.rs:124-138) finds an operator inside a step id, so that
  `steps.contains_err.result` is the comparison `steps.` contains `_err.result`. So
  does `Skill <- Dotted`: `resolve_reference` (expr.rs:151-154) ends an id at its
  first dot, and `steps.v1.2.result` is the result of a step `v1`. Nothing tells
  the author of a skill; the ids of the run hold neither, which `Documented`
  demands.
* `Skill <- AtLeast` in `Workflow_conditions` breaks `RunsAsWritten`: the operator
  `length >=` is taken for `length >`, which is looked for first and is its
  prefix, and its threshold `= n` for 0.
* `Skill <- SingleQuotes` breaks it as well: only double quotes make a string, and
  the skills' guide (skill-creator.md:103-107) writes single ones.
* `Result <- Nested` breaks `GivenAsWritten`: when the answer of a step holds the
  placeholder of another, whether that is replaced depends on the order of a hash
  map, which differs from run to run. `strategies/workflow.rs:7` has tool steps
  "100% deterministic".
* `ObeysSaved` promises nothing once the file is unusable (a crash in the middle
  of its write, or a raw save of YAML that is no configuration). Chats then run
  with the configuration of the start, `POST /api/config` goes on answering
  "Applied on next chat request", and the last model goes to `.sessions`.
* `DepthRestored` and its proof show that a thread never counts a second
  delegation: the limit `MAX_DEPTH` of `subagent.rs` and `tools/workflow.rs` is
  never reached. What bounds the nesting is that `register_subagent` and
  `register_workflow` share only the tools registered so far.
* The tasks of a workflow run one after the other: `execute` joins the thread of
  each before it starts the next (workflow.rs:242, 388), although the comment
  above it says that they run in parallel, and their times add up to the 300 s
  of the call.

Met while reading, without a model of their own: `read_image` is registered as
"always available" (tools/mod.rs:258) and is in no set that `Policy::from_config`
builds, so that every call of it is denied. `skill.dir`, `skill.active` and
`session.persist_dir` are read at the start only, although `README.md:333` says
that everything but `listen` applies to the next chat; the choice of another
configuration file applies at once, although the endpoint's answer wants a
restart. A configured skill that does not exist locks the name `default`, with
which nothing is ever routed, while the client shows `auto`. A skill with `none`
in its name is never chosen by the router's model. `dsh-lite --skill X "prompt"`
(`README.md:298`) starts the server, since the prompt is taken for the first
argument. The trajectory of a history shows every tool call twice, once from the
assistant's message and once from the call.

## 4. What is proved

| theorem | module | says |
|---|---|---|
| `TypeCorrect` | AgentLoopProofs | `Spec => []TypeOK` |
| `AlwaysChained` | AgentLoopProofs | `Spec => []LogChained` |
| `AlwaysClosed` | AgentLoopProofs | `Spec => []IdleClosed` |
| `AlwaysBounded` | AgentLoopProofs | `Spec => []RingBound` |
| `NextOK` | AgentLoopProofs | `IInv /\ [Next]_vars => IInv'` |
| `CancelStops` | AgentLoopProofs | `Spec => CancelStopsWork` |
| `DerivesRight` | AgentLoopProofs | `Spec => []DeriveInOrder` |
| `AlwaysAnswered` | AgentLoopProofs | `Spec => []CallsAnswered` |
| `AlwaysAnnounced` | AgentLoopProofs | `Spec => []SwitchAnnounced`, if `"compact" \notin Commands` |
| `RecoversClosed` | AgentLoopProofs | `Spec => [](OpeningKept => RecoveredClosed)` |
| `CompactionLosesNothing` | AgentLoopProofs | `Spec => KeptOrSummarised` |
| `TypeCorrect` | LlmStreamProofs | `Spec => []TypeOK` |
| `OneEnd` | LlmStreamProofs | `Spec => []EndsOnce` |
| `NobodyWaits` | LlmStreamProofs | `Spec => []JoinsEnded` |
| `DeltasNotRepeated` | LlmStreamProofs | `Spec => []DeltasOnce` |
| `AnswersWhole` | LlmStreamProofs | `Spec => []AnswerWhole` |
| `DelegationEnds` | ToolHostProofs | `Spec => []NestingBound` |
| `CountersReturn` | ToolHostProofs | `Spec => []DepthRestored` |
| `AnswersMatch` | ToolHostProofs | `Spec => []OneAnswer` |
| `ChildrenGone` | ToolHostProofs | `Spec => []NothingLeftBehind` |
| `TypeCorrect` | ToolHostProofs | `Spec => []TypeOK` |
| `WritesRemembered` | ToolHostProofs | `Spec => []Remembered` |
| `MemoryIsOne` | ToolHostProofs | `Spec => OneMemory` |
| `MemoryImplemented` | ToolHostProofs | `Steady => OneMap!Spec`, the refinement of `Memory` |
| `TypeCorrect` | ChatServerProofs | `Spec => []TypeOK` |
| `StopsHit` | ChatServerProofs | `Spec => []CancelTargetRuns` |
| `StopsReach` | ChatServerProofs | `Spec => []StopWorks`, if `"chat" \notin Overlaps` |
| `NothingLost` | ChatServerProofs | `Spec => []NothingUnsaved`, if `~DiskFaults` |
| `NoOrphans` | ChatServerProofs | `Spec => []NothingOrphaned`, if `~DiskFaults` |
| `CacheBounded` | ChatServerProofs | `Spec => []CacheBound`, if `~SameMillis` and `CacheCapacity >= 2` |
| `StaysHome` | ChatServerProofs | `Spec => []TurnsStayHome`, if `"switch" \notin Overlaps` |
| `ActiveStays` | ChatServerProofs | `Spec => []ActiveInRam`, if `~SameMillis`, `CacheCapacity >= 2` and `"stop" \notin Overlaps` |
| `Implements` | ChatServerProofs | `Spec => Promised`, if `~DiskFaults` and `Overlaps = {}` |
| `TypeCorrect` | SshPoolProofs | `Spec => []TypeOK` |
| `AlwaysOwned` | SshPoolProofs | `Spec => []OneOwner` |
| `AlwaysOpen` | SshPoolProofs | `Spec => StaysOpen` |
| `TypeCorrect` | ChatSettingsProofs | `Spec => []TypeOK` |
| `SavesApply` | ChatSettingsProofs | `Spec => []ObeysSaved` |
| `RoutesRight` | ChatSettingsProofs | `Spec => []RoutesAsTold` |
| `LastRemembered` | ChatSettingsProofs | `Spec => []Remembered` |
| `RunsRight` | WorkflowProofs | `Spec => []RunsAsWritten`, if `Documented(Skill)` |
| `Given` | WorkflowProofs | `Spec => []GivenAsWritten`, if `Plain(Result)` and `Plain(Range(Variables))` |

**AgentLoop.** From the assumptions on the constants alone (a ring of at least
one event, `NoModel` not a model, skills that are lists of steps, bounds that are
numbers). `LogChained` is not inductive by itself: whether an event may be
appended depends on the log's last event. `IInv` therefore adds `Awaits`, which
says for every `pc` what the log ends with there (at `pre` with the start of the
current step, at `tool` with the call at the head of `pending`, ...; a log cut
short by the ring still ends so, since eviction drops the other end), and
`FlashClosed`, that the file holds a closed, chained log, so that a restart
repairs nothing. The proof has a part on sequences (`Append`, eviction, the
insertion of a summary, the copy of `/compact` keep a log chained and its end),
a lemma per method of the log, a lemma per action, and `NextOK`, which puts the
actions together.

Three more arguments build on it. `CancelStops` is an action property: which
events a step appends, and that a suffix of the log that is cut at the front still
ends with them. The attempt showed that the property had meant the wrong thing: a
step counted as starting what the log ends with whenever the log changed, which a
compaction does that keeps the log's last event. `Starts` now says that the log did
not end so before.

`JInv` is for what a log leaves open. `Left(evs, A, B)` says that an event of `A` is
in the log and none of `B` comes after it; a call that waits, the call that runs and
a header whose model was not announced are each one such pair of sets, so that a
method of the log need be looked at once (`Quiet`, `Plain`, `Still`) and not once per
property. `Asked` has the calls of the last answer either pending, running or
answered, `Paired` the calls of the log answered but for the running one, and `Fresh`
that ids are not used again. What a turn still owes its last answer is therefore
pending or runs (`UnmetWaits`), and since the repair answers the call that runs
(`LoadCloses`), what a loaded log owes had not been begun (`OwedNotBegun`).
`AlwaysAnnounced` excludes `/compact`, after which a
switch is indeed not announced (section 3). `RecoversClosed` has the hypothesis
`OpeningKept`, that the start of the running call's turn is still in the ring, for
the reason given there; it is not needed at any other place of a turn.

`KInv` is for compactions: `apply_compaction` keeps six events per message that
is to be kept, and puts them through a ring. That these hold the messages is true
only because a step that appended nothing is the last of its turn (`Tidy`). The
number of events per message is then bounded by counting (`Spare`, `Worth`), and
`Worthwhile` says that a compaction is begun only when it leaves something out.

`DerivesRight` is about what `derive_messages` computes, not about a step. Its scan,
which holds tool results back while calls wait, is proved equal to a filter by
induction over the log.

**LlmStream.** From the assumptions on the constants. `IInv` adds `SentSoFar`:
until the task has returned only text has been sent, and whatever is still in
the channel comes after text only. `EndsOnce` follows from it, and so does that
the compaction, which leaves at an error, leaves a task that has returned
(`StopsLate`, which is `JoinsEnded` for a caller that has returned too).
`DeltasOnce` and `AnswerWhole` need `Account`: the calls accumulated are the
provider's fragments filtered by index (`FragmentsAppend`, `WholeAppend`: how both
filters grow by a fragment), the deltas sent are as many as were read, an end is
the one of this text and these calls, and a task that has returned has sent one.
It speaks of `Sent`, what is received, in the channel and on the way to it, which the
channel's steps leave as it is (`OutMoves`); only a timeout or a cancellation drops
from it, and `Results` says that the result then tells so.

**ChatServer.** One invariant, `IInv`, for every value of `Overlaps` and of the
faults; the theorems' conditions are premises of its conjuncts. `MgrInv` is about
the registry: what is cached or active is a known session (`Known`), while writes
succeed the index lists just these, no other session has a file, and the file of
a cached log is this log (`OnDisk`), and with time that moves the cache holds, besides the active session, one log less than its
capacity (`PageLeft`). `CacheBound` is not inductive without the last, since
`return_session` inserts a log and evicts nothing: there must be a page left for
it. For `PageLeft` the session stamped last must be strictly the latest, so that
`evict_cache` takes another. Stamps are renumbered by how many are smaller;
`DenseOK` shows that this keeps their order and stays below their number.
`TurnInv` says whose sender is in the slot, and that turns that do not overlap
are one at most. A lemma per method of the manager shows that it keeps `MgrInv`.
`TurnsStayHome` is about files only; `HInv` adds that cached logs and the logs
turns hold are at home as well, the latter in the session that is active
(`LogsHome`, `HeldHome`). That a method writes no log but one of the same session
(`Stay`) is proved without a word about stamps, victims or which writes fail.
`ActiveInRam` is inductive beside `IInv`.

**Conversations.** From `IInv` and three facts about clients that wait: a turn in
flight has taken what the active session's file says (`Holds`), only turns that
are over are recorded (`Said`), and what the next turn takes is the active
session's log, or both are empty (`InRam`). A session that is created is `Open`, a switch
is `View`, a deletion `Forget`, the return of a turn `Speak`, or nothing if no
session is active, `/clear` and `/compact` are `Shorten`, and a restart chooses
a session (`View`) or opens the first; every other step changes nothing of a
conversation. No assumption on stamps or on the capacity is needed: an evicted
log is on disk.

**ToolHost.** From `MaxDepth >= 2` and `NoTask` not a task. No theorem's
formula is inductive: that a subagent is nested at most twice needs that a turn
and a workflow are not nested and a workflow's task is nested once, which holds
because of what `ToolsOf` gives each kind of agent (`Level`). `DepthRestored`
needs the converse as well, that the thread of a delegation counts exactly this
one (`Counts`). `EndKeeps` and `SameKinds` are the two ways a step may change the
tasks that exist; every action is one of them or adds a task. `OneAnswer` and
`NothingLeftBehind` need who waits for whom (`Tree`): an agent that awaits a call
awaits exactly one, the one awaited has this agent as its caller, a workflow's
tasks are awaited to their end, and a caller is there as long as it is one, on the
same store.

`Remembered` is about the file while nobody writes it, and says nothing in between,
when the file is cut off and a thread that was given up still owes a write.
`Ledger` fills this in: a store is locked by the one task that is at the file
(`Locks`), so that its entries stay until they are written; a write that has not
returned is in its store (`Stored`), though another one may have come after it; and
what is kept is in the file *and* in the store, the only one in use (`Keeps`), so that
no later `persist` of it can lose a write. `Holding` is the sense of "kept": the
write or a later one of its key, or a store that is full of others. `InsertKeeps`
and `TouchKeeps` show that a write and a read, with their filter, sort and eviction,
keep what is held; eviction needs that entries have different keys (`Neat`).

`MemoryIsOne` and `MemoryImplemented` have one argument (`OneStep`). The steps of
`ToolHost` are of two sorts (`LoudOrQuiet`): quiet ones change neither a store in use
nor the file and end no tool that owes a write of it, and leave what is found as it is
(`QuietOne`); so do, of the loud ones, the begin of a turn, the two steps of `persist`
and a crash. This needs that the live tasks share one store, and that it agrees with the
file unless some tool owes a write (`Settled`, which is `One`), and every step but a
mishap keeps this. `Write` is `Remember` and `Read` is `Recall` by what the filters and
the eviction make of a list as a map with an order: an entry moved to the end
(`MovedLast`, `MoveLast`), and the first left out (`Shortened`, `DropFirst`). That the
entry left out is the only key with as many others used since as the capacity is
counting: behind the n-th of L entries there are L - n keys (`KeysBehind`, by a
bijection). `InsertMap` and `TouchMap` put this together.

**SshPool.** From `NoConn` not a connection and `Survives` a set of truth values.
`OneOwner` is nearly inductive: `Stage` adds that a thread has a handle from the
time it connects to the time it puts it back. `PlacedOnce` states the invariant
of any pools, threads and handles, so that `ReleaseKeeps`, `EndKeeps`, `StateOnly`
and `SameHandle` can say once what giving up a hold, ending a thread and moving
one do to it; a lemma per action uses them. `AlwaysOpen` is an action property
that follows from the invariant step by step.

**ChatSettings.** From the assumptions on the constants. `IInv` adds that the
promised settings are what the file says if it says anything (`FileSaid`), that a
request in the router was not decided by its own text and has the candidates of
the time it was asked (`Waits`), and that the last model is what the directory
that is read now holds (`LastKept`). `RuleMatch` is a choice, so that `BestExists`
has to show that there is something to choose: among the names a text mentions
one is the longest and the first of its length, by the well-foundedness of the
numbers.

**Workflow.** From the assumptions on the constants: that different names have
different placeholders (`PlaceAssumption`), what a fragment is
(`FragmentAssumption`), and that skills are lists of steps with
texts for arguments (`WorkflowAssumption`). The hypotheses of the two theorems are
what section 3 shows to be needed. `Documented` says that the conditions are those
of the grammar at the head of `expr.rs`, with double quotes, and without `length >=`,
which the code takes for `length >`, and that step ids are made of fragments, of any
number, so that no operator, keyword, quote or dot lies in one. `FragmentAssumption`
says that a fragment is no word of the language. `Plain` says that no answer and no
variable holds a placeholder.
`InstanceAssumption` has TLC check all of it for the instance of the run.

The invariant is small: `Shape`, where a workflow is, and `Recorded`, that the
results are the answers, for an id that repeats the last one. All else is about
the operators. `GivenAsWritten` is `ReplacedAllIs`: replacing the placeholders of a
map one after the other, in any order, is one pass that replaces each token by a
text of its own (`Each`); two passes are one (`EachEach`), and what a pass puts in
is not replaced by the next since it is plain. `RunsAsWritten` is `TextEvaluates`.
`EvaluateIs` frees `Evaluate` from the text it is begun with: what it says of any
text is what `Judged`, one round of the code, makes of what it says of others.
Quotes are counted: a text is `Closed` if its strings end in it, and has a word
`Free` if only strings hold it; behind a closed text that has it free a keyword is found
where it stands, and the halves are what was joined (`KeywordFound`). So `or` and
`and` split a condition where its author joined it (`JoinedOr`, `JoinedAnd`), whatever
words stand in quotes. A comparison is then looked at token by token (`SaidPlaces`,
`SaidOpen`): of the six operators exactly its own is found, behind its subject
(`OwnFound`, `SaidOperators`). A subject may be of any length: its fragments hold no
operator (`SubjectIs`, `SubjectFree`), and the first dot behind `steps.` is the one
before `result` (`SubjectResolves`).

**Induction over data.** The library's induction theorems take an operator as a
parameter, which the provers cannot instantiate. `SequenceLemmas` states induction
over the numbers up to a bound for a *set* instead: what holds 0 and with every number
the next holds all (`UpTo`, from the least element of a set of numbers, `Least`,
which is well-foundedness). The set is that of the numbers for which the claim
holds. `TakenDef` and its like show that a recursive function satisfies its
recursion, by constructing one up to every bound; `WorkflowProofs` has this once for
all functions that go on from number to number (`Recursion`, over the set `Courses` of
such functions). `Evaluate` recurs over texts and not over numbers; `Evaluators` are
its first, second, ... approximations, and `Settled` shows that they no longer
change after as many rounds as a text is long.

**Only model-checked.** Liveness (outside the reach of the prover):
`CancelEndsTurn` and `ScriptedTurnEnds` of `AgentLoop`, `RouterReturns` and
`CallReturns` of `LlmStream`, `Released` of `SshPool`. Every safety property that a
passing run checks is a theorem, some under the conditions the table gives.

## 5. Not modelled, and why

* Strings: prompts, JSON, SSE framing, titles, the wording of notices. The
  token estimate is a number of messages.
* The request body and the title request of the LLM client. That the tunnel
  through a proxy always asks for `/v1/chat/completions` (llm.rs:808) is a matter
  of strings.
* A body that ends without `[DONE]`. The code takes it for complete, and so does
  `ReadEnd`; a call cut in the middle then runs with null arguments.
* Why the router falls back. A failed call, a timeout and the reply `none` are
  one reply in `ChatSettings`; an answer of more than eight events blocks the
  sender until the timeout, so that the skill the model named is not used.
* `GET /api/sessions/history` for an unknown id answers with the active
  session's history; answers of read-only requests are not modelled.
* The reason a turn ends with. A turn cancelled in a stream is logged as
  `Error`, one cancelled at the top of a step as `Aborted`; both are modelled
  and no property is about them.
* `save_index` tries a plain write when rename fails; under `DiskFaults` the
  index file is the new or the old one, never a torn one.
* An unanswered forced call of a workflow is not repaired when an older turn has
  used the same `wf_<step>` id. Only a closed log is ever saved, so this is out
  of reach of the program; `RecoveredClosed` is stated for the provider's ids.
* What a tool call is denied for (allow list, policy, unknown tool, missing
  arguments): it changes nothing. The truncation of outputs, the number of a
  workflow's tasks and its report. A tool that panics ends the process, since
  the release profile aborts.
* Accesses of a memory store within the same millisecond, which make the entry to
  evict arbitrary, and two writes of the file at the same time, after which
  `Remembered` promises nothing anyway.
* `close` of the session manager and `delete` of the memory store, which nothing
  calls.
* Blanks of conditions and the bytes of a character. What the code finds inside
  an id or a word is found by the model, if it is a whole token. `find_keyword` and
  `find_operator` slice at byte places (expr.rs:62, 132) and a text of one quote is sliced from 1 to 0
  (expr.rs:146); a character of several bytes at such a place, or that text,
  panics, which ends the process.
* Placeholders in a condition. The guide shows them (skill-creator.md:97-98);
  `pre_step` does not interpolate conditions, so that they never name anything.
* What an ssh command prints. A lost connection ends the output without an error
  (ssh.rs:205), and an exit status that comes after the end is not waited for.
* Failing writes of the configuration file, of which the answer tells, and of
  `last-model.json`, of which nothing tells; edits of the file by hand, which
  `SaveRaw` covers except for the answer.
* The endpoints that only read: titles, token statistics and trajectory of a
  history, the raw context, the list of a provider's models.
* Shell, file and image tools, skill parsing, prompt assembly and the web client,
  which are I/O or text without state of their own. What a web client may send,
  and when, is `Overlaps` and the actions of `ChatSettings`.

## 6. Plan

Done: every module of section 2, with proofs of every safety property the passing
runs check and of both refinements. What a next step would be: **Policy**, which of
the registered tools a configuration denies.
