--------------------------- MODULE LlmStreamProps ---------------------------
(* What a streamed call promises its caller.                               *)
EXTENDS LlmStream, Subsequences

\* The events sent so far, in their order
Sent == received \o chan \o (IF sending = Nothing THEN <<>> ELSE <<sending>>)
Count(evs, kind) == Cardinality({i \in DOMAIN evs : evs[i].kind = kind})
Last(evs) == evs[Len(evs)]

\* A call has one end: after Done or Error nothing is sent, so that a caller
\* that goes on to read until the channel is closed cannot take an error and
\* an answer, or two answers, for one.
EndsOnce ==
    \A i \in 1 .. Len(Sent) - 1 : Sent[i].kind \in {"Delta", "ThinkDelta"}

\* A caller that has stopped reading waits for a task that has returned, and
\* not for one that may wait for room in the channel, unless it stopped
\* because of a cancellation.
JoinsEnded ==
    pc = "join" /\ who \notin WaitsFirst /\ ~cancelled => task = "end"

\* A retry repeats nothing: the deltas that reach a caller are those of one
\* attempt, whatever failed before it and however far it came.
DeltasOnce ==
    ~cancelled /\ result # "timeout" => Count(Sent, "Delta") = read.content

\* An answer is complete: the caller returns with the text of all deltas and
\* with every call in one piece, its fragments in the order they were sent
\* and under the last id the provider gave it, although fragments of several
\* calls are mixed and most carry no id.
Fragments(i) == Picked(given, {n \in DOMAIN given : given[n].index = i})
Named(ps) == Picked(ps, {n \in DOMAIN ps : ps[n].id # NoId})
Whole(ps) ==
    [id   |-> IF Named(ps) = <<>> THEN NoId ELSE Last(Named(ps)).id,
     args |-> [n \in DOMAIN ps |-> ps[n].frag]]

AnswerWhole ==
    pc = "over" /\ result = "answer" =>
        /\ Last(received).kind = "Done"
        /\ Last(received).content = read.content
        /\ Count(received, "Delta") = read.content
        /\ Last(received).calls = [i \in Index |-> Whole(Fragments(i))]

\* router.rs: "a hung or slow router must never block the conversation": the
\* router returns without any help from the provider.
RouterReturns == who = "router" ~> pc = "over"

\* Every other call returns once the provider has ended its answer, unless
\* it was cancelled: no caller waits for a task that waits for room in the
\* channel. The preheating, which waits first, relies on its answer of one
\* token to fit in the channel, and is not among these callers.
CallReturns == pc = "recv" ~> pc = "over" \/ cancelled

\* README: "the stop button sends `POST /api/chat/cancel` to abort the active
\* turn mid-stream": a cancelled call returns.
CancelReturns == cancelled ~> pc = "over"
=============================================================================
