----------------------------- MODULE LlmStream ------------------------------
(***************************************************************************)
(* One streamed call of the model: the task that runs LlmClient::stream    *)
(* (src/src/llm.rs) against a provider, the bounded channel it sends its   *)
(* events to, and the caller at the other end: the agent loop, its judge   *)
(* step, the compaction, the skill router and the preheating at start-up.  *)
(* The callers differ in what they do first, read the channel or wait for  *)
(* the task, and in what makes them stop reading.                          *)
(*                                                                         *)
(* Text is abstracted to the number of its deltas, a fragment of a call's  *)
(* arguments to the number of the chunk it came in.                        *)
(***************************************************************************)
EXTENDS Naturals, Sequences, FiniteSets

CONSTANTS
    Callers,      \* who may make the call
    Capacity,     \* of the channel (64; 8 for the router)
    Attempts,     \* connection attempts of stream (3)
    Index,        \* indices of the tool calls in one answer
    Id,           \* ids a provider may give to a call
    NoId,         \* no id, or the empty one
    MaxChunks     \* bound: chunks of an answer

Caller == {"agent", "judge", "compact", "router", "preheat"}

ASSUME CallersAssumption == Callers \subseteq Caller
ASSUME LimitsAssumption == Capacity \in Nat \ {0} /\ Attempts \in Nat \ {0}
ASSUME ChunksAssumption == Index \subseteq Nat /\ NoId \notin Id /\ MaxChunks \in Nat

VARIABLES
    who,        \* the caller
    task,       \* where stream awaits; "end": it has returned
    attempt,    \* attempts that failed
    read,       \* full_content and the chunks read of the answer
    accum,      \* tool_call_accum; a call without fragments is none
    sending,    \* the event tx.send waits to deliver
    chan,       \* the events in the channel
    pc,         \* where the caller awaits: "recv", "join", "over"
    received,   \* the events the caller has processed
    result,     \* what the call came to
    cancelled,  \* is_cancelled
    given       \* history: the fragments of calls the provider has sent

taskVars == <<task, attempt, read, accum, sending, given>>
callVars == <<who, pc, received, result, cancelled>>
vars == <<taskVars, chan, callVars>>

Part == [index : Index, id : Id \cup {NoId}, frag : Nat]
Call == [id : Id \cup {NoId}, args : Seq(Nat)]

Delta == [kind |-> "Delta"]
ThinkDelta == [kind |-> "ThinkDelta"]
Error == [kind |-> "Error"]
Done(n, calls) == [kind |-> "Done", content |-> n, calls |-> calls]
Nothing == [kind |-> "none"]

NoCall == [id |-> NoId, args |-> <<>>]
Calls == [Index -> Call]
Event == {Delta, ThinkDelta, Error}
         \cup [kind : {"Done"}, content : Nat, calls : Calls]

\* The callers that await stream before they read its channel
WaitsFirst == {"router", "preheat"}

TypeOK ==
    /\ who \in Callers
    /\ task \in {"connect", "read", "send", "end"}
    /\ attempt \in 0 .. Attempts
    /\ read \in [content : Nat, chunks : 0 .. MaxChunks]
    /\ accum \in Calls
    /\ sending \in Event \cup {Nothing}
    /\ chan \in Seq(Event)
    /\ pc \in {"recv", "join", "over"}
    /\ received \in Seq(Event)
    /\ result \in {"none", "answer", "error", "cancelled", "timeout"}
    /\ cancelled \in BOOLEAN
    /\ given \in Seq(Part)

Init ==
    /\ who \in Callers
    /\ task = "connect" /\ attempt = 0
    /\ read = [content |-> 0, chunks |-> 0] /\ accum = [i \in Index |-> NoCall]
    /\ sending = Nothing /\ chan = <<>>
    /\ pc = IF who \in WaitsFirst THEN "join" ELSE "recv"
    /\ received = <<>> /\ result = "none" /\ cancelled = FALSE
    /\ given = <<>>

-----------------------------------------------------------------------------
(* The task                                                                *)

Send(e) == task' = "send" /\ sending' = e

Connected ==
    /\ task = "connect"
    /\ task' = "read"
    /\ UNCHANGED <<attempt, read, accum, sending, given, chan, callVars>>

\* Mutant of ConnectFails: one attempt too many.
BugConnectFails ==
    /\ task = "connect"
    /\ attempt' = attempt + 1
    /\ IF attempt <= Attempts THEN UNCHANGED <<task, sending>> ELSE Send(Error)
    /\ UNCHANGED <<read, accum, given, chan, callVars>>

\* A connection or handshake fails: once more, or the error is the answer.
ConnectFails ==
    /\ task = "connect"
    /\ attempt' = attempt + 1
    /\ IF attempt' < Attempts THEN UNCHANGED <<task, sending>> ELSE Send(Error)
    /\ UNCHANGED <<read, accum, given, chan, callVars>>

\* Mutant of Fails: a failure in the middle of an answer is tried again.
BugFails ==
    /\ task = "read"
    /\ attempt' = attempt + 1
    /\ IF attempt' < Attempts
       THEN /\ task' = "connect" /\ read' = [content |-> 0, chunks |-> 0]
            /\ accum' = [i \in Index |-> NoCall] /\ given' = <<>>
            /\ UNCHANGED sending
       ELSE Send(Error) /\ UNCHANGED <<read, accum, given>>
    /\ UNCHANGED <<chan, callVars>>

\* The request or the reading of its answer fails, or the status is bad.
Fails ==
    /\ task = "read"
    /\ Send(Error)
    /\ UNCHANGED <<attempt, read, accum, given, chan, callVars>>

\* One more chunk of the answer
Read(deltas) ==
    /\ task = "read" /\ read.chunks < MaxChunks
    /\ read' = [content |-> read.content + deltas, chunks |-> read.chunks + 1]
    /\ UNCHANGED <<attempt, chan, callVars>>

ReadDelta == Read(1) /\ Send(Delta) /\ UNCHANGED <<accum, given>>

ReadThink == Read(0) /\ Send(ThinkDelta) /\ UNCHANGED <<accum, given>>

\* Mutant of Accumulated: an empty id erases the one established.
BugAccumulated(calls, p) ==
    [calls EXCEPT ![p.index] = [id |-> p.id, args |-> Append(@.args, p.frag)]]

\* A fragment joins the call of its index; an empty id changes nothing.
Accumulated(calls, p) ==
    [calls EXCEPT ![p.index] =
        [id   |-> IF p.id = NoId THEN @.id ELSE p.id,
         args |-> Append(@.args, p.frag)]]

ReadPart ==
    /\ Read(0)
    /\ \E i \in Index, d \in Id \cup {NoId} :
          LET p == [index |-> i, id |-> d, frag |-> read.chunks]
          IN  accum' = Accumulated(accum, p) /\ given' = Append(given, p)
    /\ UNCHANGED <<task, sending>>

\* [DONE], or the end of the body without it
ReadEnd ==
    /\ task = "read"
    /\ Send(Done(read.content, accum))
    /\ UNCHANGED <<attempt, read, accum, given, chan, callVars>>

\* Mutant of Delivered: [DONE] does not end the reading.
BugDelivered ==
    /\ task = "send" /\ Len(chan) < Capacity
    /\ chan' = Append(chan, sending)
    /\ task' = IF sending.kind = "Error" THEN "end" ELSE "read"
    /\ sending' = Nothing
    /\ UNCHANGED <<attempt, read, accum, given, callVars>>

\* The channel has room. After its last event stream returns and so closes
\* the channel.
Delivered ==
    /\ task = "send" /\ Len(chan) < Capacity
    /\ chan' = Append(chan, sending)
    /\ task' = IF sending.kind \in {"Done", "Error"} THEN "end" ELSE "read"
    /\ sending' = Nothing
    /\ UNCHANGED <<attempt, read, accum, given, callVars>>

-----------------------------------------------------------------------------
(* The caller                                                              *)

\* Mutant of StopsReading: the compaction has enough with some text.
BugStopsReading(e) ==
    \/ who = "agent" /\ cancelled
    \/ who = "compact" /\ e.kind \in {"Delta", "Error"}
    \/ who = "router" /\ e.kind \in {"Done", "Error"}

\* What ends the reading before the channel is closed
StopsReading(e) ==
    \/ who = "agent" /\ cancelled
    \/ who = "compact" /\ e.kind = "Error"
    \/ who = "router" /\ e.kind \in {"Done", "Error"}

\* What the events that were processed amount to
Outcome(evs) ==
    IF \E i \in DOMAIN evs : evs[i].kind = "Error" THEN "error" ELSE "answer"

\* An event that comes after the cancellation is dropped.
Recv ==
    /\ pc = "recv" /\ chan # <<>>
    /\ chan' = Tail(chan)
    /\ received' = IF who = "agent" /\ cancelled THEN received
                   ELSE Append(received, Head(chan))
    /\ IF StopsReading(Head(chan))
       THEN /\ pc' = IF who \in WaitsFirst THEN "over" ELSE "join"
            /\ result' = IF who = "agent" THEN "cancelled" ELSE Outcome(received')
       ELSE UNCHANGED <<pc, result>>
    /\ UNCHANGED <<taskVars, who, cancelled>>

Closed ==
    /\ pc = "recv" /\ chan = <<>> /\ task = "end"
    /\ pc' = IF who \in WaitsFirst THEN "over" ELSE "join"
    /\ result' = Outcome(received)
    /\ UNCHANGED <<taskVars, chan, who, received, cancelled>>

\* The task has returned. Those who waited for it first read only now, and
\* only if it did not fail.
Joined ==
    /\ pc = "join" /\ task = "end"
    /\ IF who \in WaitsFirst /\ Error \notin {chan[i] : i \in DOMAIN chan}
       THEN pc' = "recv" /\ UNCHANGED result
       ELSE pc' = "over" /\ result' = IF who \in WaitsFirst THEN "error" ELSE result
    /\ UNCHANGED <<taskVars, chan, who, received, cancelled>>

\* Mutant of TimesOut: the timeout covers the reading only.
BugTimesOut ==
    /\ who = "router" /\ pc = "recv"
    /\ pc' = "over" /\ result' = "timeout"
    /\ task' = "end" /\ sending' = Nothing
    /\ UNCHANGED <<attempt, read, accum, given, chan, who, received, cancelled>>

\* The router's timeout drops the future of stream with the rest.
TimesOut ==
    /\ who = "router" /\ pc # "over"
    /\ pc' = "over" /\ result' = "timeout"
    /\ task' = "end" /\ sending' = Nothing
    /\ UNCHANGED <<attempt, read, accum, given, chan, who, received, cancelled>>

Cancel ==
    /\ who = "agent" /\ pc # "over" /\ ~cancelled
    /\ cancelled' = TRUE
    /\ UNCHANGED <<taskVars, chan, who, pc, received, result>>

-----------------------------------------------------------------------------
Provider ==
    \/ Connected \/ ConnectFails \/ Fails
    \/ ReadDelta \/ ReadThink \/ ReadPart \/ ReadEnd

CallerStep == Recv \/ Closed \/ Joined

Next == Provider \/ Delivered \/ CallerStep \/ TimesOut \/ Cancel

Spec == Init /\ [][Next]_vars

\* The runtime polls the task and the caller, and timers fire.
Fairness == WF_vars(Delivered) /\ WF_vars(CallerStep) /\ WF_vars(TimesOut)

FairSpec == Spec /\ Fairness

\* The assumption that the provider goes on to the end of its answer, which
\* nothing in llm.rs enforces
FairProvider == FairSpec /\ WF_vars(Provider)
=============================================================================
