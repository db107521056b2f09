----------------------------- MODULE SessionLog -----------------------------
(***************************************************************************)
(* The session log of src/src/session.rs as a data type: a bounded ring of *)
(* events together with the turn and step counters and the model that last *)
(* drove a turn.  Every operator below is one method of SessionLog; the    *)
(* modules that own a log (AgentLoop, for one) hold a value of type Log in *)
(* a variable and apply these operators to it.                             *)
(*                                                                         *)
(* Message texts are abstracted away: an event keeps what the projection,  *)
(* the repair and the properties tell apart.  next_seq, which is written   *)
(* on every append and read by nothing, is left out.                       *)
(***************************************************************************)
EXTENDS Naturals, Sequences, Subsequences

CONSTANTS
    MaxInMemory,    \* capacity of the ring (512 in main.rs and server.rs)
    Model,          \* the model ids a turn may be driven by
    NoModel         \* last_model = None

ASSUME RingAssumption == MaxInMemory \in Nat \ {0}
ASSUME ModelAssumption == NoModel \notin Model

-----------------------------------------------------------------------------
(* Events (types.rs, SessionEvent)                                         *)

\* A provider's call ids are unique; a workflow skill reuses "wf_<step>".
CallId == {"llm", "wf"} \X Nat
Reason == {"Completed", "Aborted", "Error"}
\* What a user-role message is: the user's own text, the notice of a model
\* switch, or the guidance a todo skill injects before a step.
UserRole == {"input", "notice", "guidance"}

TurnStart(t)         == [kind |-> "TurnStart", turn |-> t]
TurnEnd(t, r)        == [kind |-> "TurnEnd", turn |-> t, reason |-> r]
StepStart(t, s)      == [kind |-> "StepStart", turn |-> t, step |-> s]
StepEnd(t, s)        == [kind |-> "StepEnd", turn |-> t, step |-> s]
RequestHeader(m)     == [kind |-> "RequestHeader", model |-> m]
UserMessage(w)       == [kind |-> "UserMessage", role |-> w]
AssistantMessage(cs) == [kind |-> "AssistantMessage", calls |-> cs]
ToolCall(c)          == [kind |-> "ToolCall", id |-> c]
ToolResult(c)        == [kind |-> "ToolResult", id |-> c]
CompactionSummary    == [kind |-> "CompactionSummary"]

Event ==
    [kind : {"TurnStart"}, turn : Nat]
    \cup [kind : {"TurnEnd"}, turn : Nat, reason : Reason]
    \cup [kind : {"StepStart", "StepEnd"}, turn : Nat, step : Nat]
    \cup [kind : {"RequestHeader"}, model : Model]
    \cup [kind : {"UserMessage"}, role : UserRole]
    \cup [kind : {"AssistantMessage"}, calls : Seq(CallId)]
    \cup [kind : {"ToolCall", "ToolResult"}, id : CallId]
    \cup [kind : {"CompactionSummary"}]

Log == [events : Seq(Event), turn : Nat, step : Nat,
        lastModel : Model \cup {NoModel}]

NewLog == [events |-> <<>>, turn |-> 0, step |-> 0, lastModel |-> NoModel]

-----------------------------------------------------------------------------
(* Appending                                                               *)

\* Mutants of Evict: the newest event goes; one event goes where several must.
BugEvictNewest(evs) == SubSeq(evs, 1, IF Len(evs) > MaxInMemory
                                      THEN MaxInMemory ELSE Len(evs))
BugEvictOnce(evs) == IF Len(evs) > MaxInMemory THEN Tail(evs) ELSE evs

\* The ring drops its oldest events once it is over capacity.
Evict(evs) == IF Len(evs) > MaxInMemory
              THEN SubSeq(evs, Len(evs) - MaxInMemory + 1, Len(evs))
              ELSE evs

\* append, for events that are not turn or step boundaries
AppendEvent(log, e) == [log EXCEPT !.events = Evict(Append(@, e))]

\* Mutant of BeginTurn: the steps of a turn are to be numbered from 0.
BugBeginTurn(log) ==
    [log EXCEPT !.turn = @ + 1, !.step = 0 - 1,
                !.events = Evict(Append(@, TurnStart(log.turn + 1)))]

BeginTurn(log) ==
    [log EXCEPT !.turn = @ + 1, !.step = 0,
                !.events = Evict(Append(@, TurnStart(log.turn + 1)))]

EndTurn(log, r) == AppendEvent(log, TurnEnd(log.turn, r))

BeginStep(log) ==
    [log EXCEPT !.step = @ + 1,
                !.events = Evict(Append(@, StepStart(log.turn, log.step + 1)))]

EndStep(log) == AppendEvent(log, StepEnd(log.turn, log.step))

SetLastModel(log, m) == [log EXCEPT !.lastModel = m]

Clear(log) == NewLog

-----------------------------------------------------------------------------
(* Projection to the messages the model is sent                            *)

OfKind(evs, K) == {i \in DOMAIN evs : evs[i].kind \in K}

\* The greatest index of evs whose event has a kind of K, 0 if there is none.
LastOfKind(evs, K) ==
    IF OfKind(evs, K) = {} THEN 0
    ELSE CHOOSE i \in OfKind(evs, K) : \A j \in OfKind(evs, K) : j <= i

\* One event of the loop of derive_messages: tool results wait in `pending`
\* for an event that flushes them, the other surface events become messages
\* at once.
NoMessages == [msgs |-> <<>>, pending |-> <<>>]

Derived(acc, e) ==
    CASE e.kind \in {"UserMessage", "AssistantMessage", "CompactionSummary"} ->
            [msgs |-> Append(acc.msgs \o acc.pending, e), pending |-> <<>>]
      [] e.kind = "ToolResult" ->
            [acc EXCEPT !.pending = Append(@, e)]
      [] OTHER -> acc

\* The loop, which projects nothing before index first
Scan(evs, first) ==
    LET scan[n \in 0 .. Len(evs)] ==
            IF n = 0 \/ n < first THEN NoMessages
            ELSE Derived(scan[n - 1], evs[n])
    IN  scan

Scanned(evs, first) == Scan(evs, first)[Len(evs)]

\* Mutant of DeriveMessages: results are flushed by the next message only.
BugDeriveMessages(log) ==
    Scanned(log.events, LastOfKind(log.events, {"CompactionSummary"})).msgs

\* derive_messages: from the last summary on
DeriveMessages(log) ==
    LET end == Scanned(log.events, LastOfKind(log.events, {"CompactionSummary"}))
    IN  end.msgs \o end.pending

\* GET /api/sessions/history, which has the same loop over the whole ring
ShownMessages(log) ==
    LET end == Scanned(log.events, 0) IN end.msgs \o end.pending

\* apply_compaction: the summary goes before the `keep` latest events, what
\* it replaces stays in the ring, and nothing is evicted.
ApplyCompaction(log, keep) ==
    IF Len(log.events) <= keep THEN log
    ELSE LET split == Len(log.events) - keep
         IN  [log EXCEPT !.events =
                 SubSeq(@, 1, split) \o <<CompactionSummary>>
                 \o SubSeq(@, split + 1, Len(@))]

-----------------------------------------------------------------------------
(* Persistence                                                             *)

\* repair_interrupted_turn: the turn is open when no TurnEnd comes after the
\* last TurnStart.  Every ToolCall of the whole ring with no ToolResult of
\* the same id anywhere in it is answered, and the turn ends as Aborted.
TurnOpen(evs) ==
    \E i \in OfKind(evs, {"TurnStart"}) :
       \A j \in OfKind(evs, {"TurnEnd"}) : j < i

AnsweredIds(evs) == {evs[i].id : i \in OfKind(evs, {"ToolResult"})}

\* Mutant of Unanswered: retain keeps the calls that have a result.
BugUnanswered(evs) ==
    Picked(evs, {i \in OfKind(evs, {"ToolCall"}) : evs[i].id \in AnsweredIds(evs)})

Unanswered(evs) ==
    Picked(evs, {i \in OfKind(evs, {"ToolCall"}) :
                    evs[i].id \notin AnsweredIds(evs)})

Repair(log) ==
    LET evs   == log.events
        open  == Unanswered(evs)
        fixes == [i \in DOMAIN open |-> ToolResult(open[i].id)]
        turn  == evs[LastOfKind(evs, {"TurnStart"})].turn
    IN  IF TurnOpen(evs)
        THEN [log EXCEPT !.events = (@ \o fixes) \o <<TurnEnd(turn, "Aborted")>>]
        ELSE log

\* Mutant of Load: last_model is not part of the snapshot.
BugLoad(snapshot) == Repair([snapshot EXCEPT !.events = Evict(@),
                                             !.lastModel = NoModel])

\* from_snapshot: a snapshot may hold one event more than the ring (a
\* compaction just before it was taken), so loading evicts before it repairs.
Load(snapshot) == Repair([snapshot EXCEPT !.events = Evict(@)])
=============================================================================
