-------------------------- MODULE AgentLoopProps ---------------------------
(***************************************************************************)
(* What AgentLoop promises its session, and what the repository says of it *)
(* that does not hold.                                                     *)
(***************************************************************************)
EXTENDS AgentLoop

Suffix(s, n) == SubSeq(s, Len(s) - n + 1, Len(s))
LastEvent == log.events[Len(log.events)]

-----------------------------------------------------------------------------
(* The grammar of the log                                                  *)

\* Event f may directly follow event e in the ring.  A summary is put
\* between any two events.
Follows(e, f) ==
    \/ e.kind = "CompactionSummary" \/ f.kind = "CompactionSummary"
    \/ /\ f.kind = "TurnStart" /\ e.kind = "TurnEnd"
    \/ /\ f.kind = "UserMessage" /\ f.role = "notice" /\ e.kind = "TurnStart"
    \/ /\ f.kind = "RequestHeader"
       /\ e.kind = "TurnStart" \/ (e.kind = "UserMessage" /\ e.role = "notice")
    \/ /\ f.kind = "UserMessage" /\ f.role = "input"
       /\ e.kind = "RequestHeader"
    \/ /\ f.kind = "StepStart"
       /\ \/ f.step = 1 /\ e.kind = "UserMessage" /\ e.role = "input"
          \/ e.kind = "StepEnd" /\ e.turn = f.turn /\ e.step + 1 = f.step
    \/ /\ f.kind = "UserMessage" /\ f.role = "guidance"
       /\ e.kind = "StepStart"
    \/ /\ f.kind = "AssistantMessage"
       /\ e.kind = "StepStart" \/ (e.kind = "UserMessage" /\ e.role = "guidance")
    \/ /\ f.kind = "ToolCall"
       /\ e.kind \in {"StepStart", "AssistantMessage", "ToolResult"}
    \/ /\ f.kind = "ToolResult" /\ e.kind = "ToolCall" /\ e.id = f.id
    \/ /\ f.kind = "StepEnd"
       /\ \/ e.kind = "StepStart" /\ e.turn = f.turn /\ e.step = f.step
          \/ e.kind = "UserMessage" /\ e.role = "guidance"
          \/ e.kind \in {"AssistantMessage", "ToolResult"}
    \/ /\ f.kind = "TurnEnd"
       /\ \/ e.kind = "StepEnd" /\ e.turn = f.turn
          \/ e.kind = "UserMessage" /\ e.role = "input"

Chained(evs) == \A i \in 1 .. Len(evs) - 1 : Follows(evs[i], evs[i + 1])

\* Turns and steps nest, a step's number is one more than that of the step
\* before it, a tool's result comes right after its call, and no other order
\* of events reaches the ring: not through an early return of run_turn, an
\* eviction, a compaction, a slash command or a restart.
LogChained == Chained(log.events)

\* Between turns the log ends with the end of its latest turn: every return
\* of run_turn (completed, stopped by a hook, failed, cancelled at the top
\* of a step or in the stream) closes the turn, and no turn is left open by
\* a crash, since only a closed log is checkpointed.
IdleClosed ==
    pc \in {"idle", "returned"} /\ log.events # <<>> =>
        LastEvent.kind = "TurnEnd"

\* append evicts, apply_compaction and a snapshot do not: the ring holds at
\* most one event over its capacity, however many compactions a step is
\* followed by.
RingBound == Len(log.events) <= MaxInMemory + 1

-----------------------------------------------------------------------------
(* The transcript                                                          *)

\* The events of a ring the model is to see, in the order they were logged
Surface == {"UserMessage", "AssistantMessage", "ToolResult",
            "CompactionSummary"}

Visible(evs) == Picked(evs, OfKind(evs, Surface))

Projection(evs) ==
    LET first == LastOfKind(evs, {"CompactionSummary"})
    IN  Picked(evs, {i \in OfKind(evs, Surface) : i >= first})

\* derive_messages holds tool results back until the next message, and still
\* projects exactly the surface events from the last summary on, each once
\* and in order: no result is lost at the end of the log, none is overtaken.
\* The history a client is shown is built by another copy of this loop, and
\* ends with what the model sees.
DeriveInOrder ==
    /\ DeriveMessages(log) = Projection(log.events)
    /\ ShownMessages(log) = Visible(log.events)
    /\ Suffix(ShownMessages(log), Len(DeriveMessages(log))) = DeriveMessages(log)

\* The messages compact() did not summarise survive apply_compaction, which
\* counts events and not messages: what the next request holds ends with the
\* KeepRecent latest messages of the one before.
KeptOrSummarised ==
    [][pc = "compacting" /\ pc' = "stream" =>
         LET old == DeriveMessages(log)
             new == DeriveMessages(log')
             kept == Suffix(old, KeepRecent)
         IN  /\ Len(new) >= KeepRecent
             /\ Suffix(new, KeepRecent) = kept]_vars

\* The events of the latest turn of a ring, from its TurnStart on
LatestTurn(evs) == LET s == LastOfKind(evs, {"TurnStart"})
                   IN  IF s = 0 THEN evs ELSE SubSeq(evs, s, Len(evs))
ThisTurn == LatestTurn(log.events)

CallsOf(e) == {e.calls[n] : n \in DOMAIN e.calls}

\* The calls an assistant message asked for that have no result after it
Unmet(evs) ==
    UNION {{c \in CallsOf(evs[i]) :
              \A j \in OfKind(evs, {"ToolResult"}) : j > i => evs[j].id # c} :
           i \in OfKind(evs, {"AssistantMessage"})}

\* Unless the user cancelled the turn, every tool call an assistant message
\* of the turn asked for has been executed and answered once the step that
\* runs them is over.
CallsAnswered ==
    ~cancelled /\ pc \in {"returned", "top", "pre"} => Unmet(ThisTurn) = {}

\* Two turns driven by different models have the notice of the switch
\* between them, whatever happened in between: a failed turn, a cleared log,
\* a restart from the checkpoint, an eviction.
SwitchAnnounced ==
    LET evs == log.events
        headers == OfKind(evs, {"RequestHeader"})
    IN  \A i, j \in headers :
          i < j /\ evs[i].model # evs[j].model =>
             \E n \in i + 1 .. j :
                evs[n].kind = "UserMessage" /\ evs[n].role = "notice"

-----------------------------------------------------------------------------
(* Cancellation                                                            *)

EndsWith(evs, kind) == evs # <<>> /\ evs[Len(evs)].kind = kind

\* The step appends an event of the kind: neither kind follows itself, and a
\* compaction leaves the log's last event or ends the log with its summary.
Starts(kind) == EndsWith(log'.events, kind) /\ ~EndsWith(log.events, kind)

\* Once the user has cancelled, the turn starts no further step, and the LLM
\* step it is in runs none of the tools the model asked for any more.
CancelStopsWork ==
    [][cancelled /\ cancelled' =>
          /\ ~Starts("StepStart")
          /\ Starts("ToolCall") => skill.mode = "workflow"]_vars

\* A turn cancelled outside of an LLM stream ends, or hangs up on the one
\* stream it may still open, whatever the strategy and however many tool
\* calls the model would still have made.
CancelEndsTurn ==
    (cancelled /\ pc \in Running) ~> (pc = "idle" \/ HangsUp)

\* A todo or workflow turn ends by itself: the hook's index only grows.
ScriptedTurnEnds ==
    (pc \in Running /\ skill.mode # "plan") ~> (pc = "idle" \/ HangsUp)

-----------------------------------------------------------------------------
(* The recovery of a log that is saved in the middle of a turn             *)

\* The calls of the running batch that the loop has not come to
NotBegun == CASE pc = "tools" -> {pending[n] : n \in 1 .. Len(pending)}
              [] pc = "tool"  -> {pending[n] : n \in 2 .. Len(pending)}
              [] OTHER        -> {}

\* Wherever in a turn the log is saved, the log a restart loads from it has
\* no open turn, and every call of the LLM that the loop had begun has a
\* result.  In the turn that was interrupted, unless the user had cancelled
\* it, the only calls left without one are the rest of the batch it was in,
\* which the loop had not begun: the repair answers ToolCall events.  That is
\* less than the comment at session.rs:305 says; see NoDanglingRecovery.
RecoveredClosed ==
    LET evs == Load(log).events
    IN  /\ ~TurnOpen(evs)
        /\ \A i \in OfKind(evs, {"ToolCall"}) : evs[i].id[1] = "llm" =>
              \E j \in OfKind(evs, {"ToolResult"}) :
                 j > i /\ evs[j].id = evs[i].id
        /\ pc # "idle" /\ ~cancelled => Unmet(LatestTurn(evs)) \subseteq NotBegun

-----------------------------------------------------------------------------
(* What the repository says and the code does not do                       *)

\* session.rs:305-309 on a log that was saved in the middle of a turn: the
\* repair "ensures derive_messages produces a valid transcript (no dangling
\* tool calls without results)".  It does not look at the calls of the
\* assistant message that the loop had not begun.
NoDanglingRecovery == TurnOpen(log.events) => Unmet(Load(log).events) = {}

\* The same of the log that the next turn sends to the provider, with no
\* crash: an assistant message whose successor has been projected must have
\* all its calls answered.  A cancellation between two calls is enough.
NoDanglingCalls ==
    LET msgs == DeriveMessages(log)
    IN  \A i \in OfKind(msgs, {"AssistantMessage"}) :
          \A n \in DOMAIN msgs[i].calls :
             (\E j \in i + 1 .. Len(msgs) : msgs[j].kind # "ToolResult") =>
                \E j \in i + 1 .. Len(msgs) :
                   /\ msgs[j].kind = "ToolResult"
                   /\ msgs[j].id = msgs[i].calls[n]

\* README: keep_recent_turns "always keep the latest N turns unsummarized".
\* Here for the latest turn, which N >= 1 includes: its messages are all
\* still projected after a compaction.
LatestTurnKept ==
    [][pc = "compacting" /\ pc' = "stream" /\ KeepRecent >= 1 =>
         LET turn == Visible(ThisTurn)
         IN  Len(turn) <= Len(DeriveMessages(log'))
             /\ Suffix(DeriveMessages(log'), Len(turn)) = turn]_vars
=============================================================================
