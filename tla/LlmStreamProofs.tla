-------------------------- MODULE LlmStreamProofs --------------------------
(***************************************************************************)
(* For every caller, capacity, number of attempts and length of an answer: *)
(* the types of LlmStream, that a call has one end, that only a cancelled  *)
(* caller waits for a task that has not returned, that a retry repeats no  *)
(* delta and that an answer is complete.                                   *)
(*                                                                         *)
(* The first three rest on one fact (IInv): until the task has returned,   *)
(* nothing but text has reached the channel and the caller.  The others    *)
(* need an account of what was sent against what was read (Account), and   *)
(* what a result says of the events that are lost (Results).               *)
(***************************************************************************)
EXTENDS LlmStreamProps, SequenceLemmas, FiniteSetTheorems, TLAPS

\* What an answer is made of, before its end
Text == {"Delta", "ThinkDelta"}
\* Events without an end
OnlyText(evs) == \A i \in 1 .. Len(evs) : evs[i].kind \in Text

\* An end can only be the last event.
EndLast(evs) == \A i \in 1 .. Len(evs) - 1 : evs[i].kind \in Text

\* What has been sent, by the state of the task
SentSoFar ==
    /\ task = "send" <=> sending # Nothing
    /\ task # "end" => OnlyText(received) /\ OnlyText(chan)
    /\ EndLast(received) /\ EndLast(chan)
    /\ chan # <<>> => OnlyText(received)

\* The caller leaves its reading early only when the task has returned.
StopsLate == who \notin WaitsFirst /\ pc # "recv" /\ ~cancelled => task = "end"

\* A connection is tried only while attempts are left.
TriesLeft == task = "connect" => attempt < Attempts

\* What is inductive by itself
IInv == TypeOK /\ SentSoFar /\ StopsLate /\ TriesLeft

-----------------------------------------------------------------------------
(* Sequences                                                               *)

\* Text that is appended to text is text; anything else comes last.
LEMMA AppendText ==
    ASSUME NEW evs \in Seq(Event), NEW e \in Event, OnlyText(evs)
    PROVE  /\ Append(evs, e) \in Seq(Event)
           /\ EndLast(Append(evs, e))
           /\ e.kind \in Text => OnlyText(Append(evs, e))
  BY DEF OnlyText, EndLast

\* The head of the channel, and what is left of it
LEMMA TailText ==
    ASSUME NEW evs \in Seq(Event), evs # <<>>
    PROVE  /\ Head(evs) \in Event /\ Tail(evs) \in Seq(Event)
           /\ EndLast(evs) => EndLast(Tail(evs))
           /\ OnlyText(evs) => OnlyText(Tail(evs)) /\ Head(evs).kind \in Text
           /\ EndLast(evs) /\ Tail(evs) # <<>> => Head(evs).kind \in Text
  BY DEF OnlyText, EndLast

\* The events the task sends
LEMMA EventTypes ==
    /\ {Delta, ThinkDelta, Error} \subseteq Event
    /\ \A n \in Nat, c \in Calls : Done(n, c) \in Event
    /\ Nothing \notin Event
    /\ \A e \in Event : e.kind \in Text <=> e.kind \notin {"Done", "Error"}
    /\ \A e \in Event : e.kind = "Error" <=> e = Error
  BY DEF Event, Delta, ThinkDelta, Error, Done, Nothing, Text

\* A fragment leaves the calls calls.
LEMMA AccumulatedCalls ==
    ASSUME NEW c \in Calls, NEW p \in Part
    PROVE  Accumulated(c, p) \in Calls
  BY DEF Accumulated, Calls, Call, Part

-----------------------------------------------------------------------------
(* The invariant                                                           *)

\* Nothing is sent at first.
LEMMA InitOK == Init => IInv
  <1> SUFFICES ASSUME Init PROVE IInv
    OBVIOUS
  <1>1. [i \in Index |-> NoCall] \in Calls
    BY DEF Calls, Call, NoCall
  <1>2. <<>> \in Seq(Event) /\ <<>> \in Seq(Part)
    OBVIOUS
  <1>3. read \in [content : Nat, chunks : 0 .. MaxChunks]
    BY ChunksAssumption DEF Init
  <1>4. attempt \in 0 .. Attempts /\ attempt < Attempts
    BY LimitsAssumption DEF Init
  <1>5. TypeOK
    BY <1>1, <1>2, <1>3, <1>4 DEF Init, TypeOK
  <1>6. SentSoFar
    BY DEF Init, SentSoFar, OnlyText, EndLast
  <1>7. StopsLate
    BY DEF Init, StopsLate
  <1> QED BY <1>4, <1>5, <1>6, <1>7 DEF IInv, TriesLeft

\* What the task does against the provider: it fills `sending` at most.
LEMMA ProviderOK == IInv /\ Provider => IInv'
  <1> SUFFICES ASSUME IInv, Provider PROVE IInv'
    OBVIOUS
  <1> USE EventTypes DEF IInv, TypeOK
  <1>1. UNCHANGED <<chan, callVars>> /\ task # "end"
    BY DEF Provider, Connected, ConnectFails, Fails, ReadDelta, ReadThink,
           ReadPart, ReadEnd, Read
  <1>2. task' # "end" /\ task' \in {"connect", "read", "send"}
    BY <1>1 DEF Provider, Connected, ConnectFails, Fails, ReadDelta,
           ReadThink, ReadPart, ReadEnd, Read, Send
  <1>3. sending' \in Event \cup {Nothing} /\ (task' = "send" <=> sending' # Nothing)
    BY <1>1 DEF Provider, Connected, ConnectFails, Fails, ReadDelta,
           ReadThink, ReadPart, ReadEnd, Read, Send, SentSoFar
  <1>4. read' \in [content : Nat, chunks : 0 .. MaxChunks]
    BY ChunksAssumption DEF Provider, Connected, ConnectFails, Fails, ReadDelta,
           ReadThink, ReadPart, ReadEnd, Read
  <1>5. accum' \in Calls /\ given' \in Seq(Part)
    <2>1. CASE ReadPart
      <3>1. PICK i \in Index, d \in Id \cup {NoId} :
               LET p == [index |-> i, id |-> d, frag |-> read.chunks]
               IN  accum' = Accumulated(accum, p) /\ given' = Append(given, p)
        BY <2>1 DEF ReadPart
      <3>2. [index |-> i, id |-> d, frag |-> read.chunks] \in Part
        BY ChunksAssumption DEF Part
      <3> QED BY <3>1, <3>2, AccumulatedCalls
    <2>2. CASE ~ReadPart
      BY <2>2 DEF Provider, Connected, ConnectFails, Fails, ReadDelta,
           ReadThink, ReadEnd
    <2> QED BY <2>1, <2>2
  <1>6. attempt' \in 0 .. Attempts /\ TriesLeft'
    <2>1. CASE ConnectFails
      BY <2>1, LimitsAssumption DEF ConnectFails, Send, TriesLeft
    <2>2. CASE ~ConnectFails
      BY <2>2, <1>1 DEF Provider, Connected, Fails, ReadDelta, ReadThink,
           ReadPart, ReadEnd, Read, Send, TriesLeft
    <2> QED BY <2>1, <2>2
  <1>7. TypeOK'
    BY <1>1, <1>2, <1>3, <1>4, <1>5, <1>6 DEF callVars
  <1>8. SentSoFar' /\ StopsLate'
    BY <1>1, <1>2, <1>3 DEF SentSoFar, StopsLate, callVars
  <1> QED BY <1>6, <1>7, <1>8

\* The task puts what it sends at the end of the channel.
LEMMA DeliveredOK == IInv /\ Delivered => IInv'
  <1> SUFFICES ASSUME IInv, Delivered PROVE IInv'
    OBVIOUS
  <1>1. /\ sending \in Event /\ chan \in Seq(Event)
        /\ OnlyText(chan) /\ OnlyText(received)
    BY EventTypes DEF IInv, TypeOK, SentSoFar, Delivered
  <1>2. /\ chan' \in Seq(Event)
        /\ EndLast(chan')
        /\ sending.kind \in Text => OnlyText(chan')
    BY <1>1, AppendText DEF Delivered
  <1>3. /\ task' \in {"read", "end"}
        /\ task' # "end" => sending.kind \in Text
        /\ sending' = Nothing
    BY <1>1, EventTypes DEF Delivered
  <1>4. UNCHANGED <<attempt, read, accum, given, callVars>>
    BY DEF Delivered
  <1>5. TypeOK'
    BY <1>2, <1>3, <1>4 DEF IInv, TypeOK, callVars
  <1>6. SentSoFar'
    BY <1>1, <1>2, <1>3, <1>4 DEF IInv, SentSoFar, callVars
  <1>7. StopsLate' /\ TriesLeft'
    BY <1>3, <1>4 DEF IInv, StopsLate, TriesLeft, callVars, Delivered
  <1> QED BY <1>5, <1>6, <1>7 DEF IInv

\* An event moves from the channel to the caller; only an error that the
\* compaction sees, or a cancellation, makes it wait for the task.
LEMMA RecvOK == IInv /\ Recv => IInv'
  <1> SUFFICES ASSUME IInv, Recv PROVE IInv'
    OBVIOUS
  <1>1. chan \in Seq(Event) /\ chan # <<>> /\ received \in Seq(Event)
    BY DEF IInv, TypeOK, Recv
  <1>2. /\ Head(chan) \in Event /\ Tail(chan) \in Seq(Event)
        /\ EndLast(Tail(chan))
        /\ OnlyText(chan) => OnlyText(Tail(chan)) /\ Head(chan).kind \in Text
        /\ Tail(chan) # <<>> => Head(chan).kind \in Text
    BY <1>1, TailText DEF IInv, SentSoFar
  <1>3. OnlyText(received)
    BY <1>1 DEF IInv, SentSoFar
  <1>4. /\ Append(received, Head(chan)) \in Seq(Event)
        /\ EndLast(Append(received, Head(chan)))
        /\ Head(chan).kind \in Text => OnlyText(Append(received, Head(chan)))
    BY <1>1, <1>2, <1>3, AppendText
  <1>5. /\ chan' = Tail(chan)
        /\ received' = received \/ received' = Append(received, Head(chan))
        /\ UNCHANGED <<taskVars, who, cancelled>>
    BY DEF Recv
  <1>6. EndLast(received)
    BY DEF IInv, SentSoFar
  <1>7. SentSoFar'
    BY <1>2, <1>3, <1>4, <1>5, <1>6 DEF IInv, SentSoFar, taskVars
  <1>8. /\ pc' \in {"recv", "join", "over"}
        /\ result' \in {"none", "answer", "error", "cancelled", "timeout"}
    BY DEF Recv, IInv, TypeOK, Outcome
  <1>9. TypeOK'
    BY <1>1, <1>2, <1>4, <1>5, <1>8 DEF IInv, TypeOK, taskVars
  <1>10. StopsLate'
    <2>1. CASE StopsReading(Head(chan)) /\ who \notin WaitsFirst /\ ~cancelled
      <3>1. Head(chan).kind = "Error"
        BY <2>1 DEF StopsReading, WaitsFirst
      <3>2. task = "end"
        BY <1>2, <3>1 DEF IInv, SentSoFar, Text
      <3> QED BY <1>5, <3>2 DEF StopsLate, taskVars
    <2>2. CASE who \in WaitsFirst \/ cancelled
      BY <1>5, <2>2 DEF StopsLate
    <2>3. CASE ~StopsReading(Head(chan))
      BY <1>5, <2>3 DEF StopsLate, Recv
    <2> QED BY <2>1, <2>2, <2>3
  <1>11. TriesLeft'
    BY <1>5 DEF IInv, TriesLeft, taskVars
  <1> QED BY <1>7, <1>9, <1>10, <1>11 DEF IInv

\* The caller learns that the channel is closed, or that the task returned.
LEMMA ReturnOK == IInv /\ (Closed \/ Joined) => IInv'
  <1> SUFFICES ASSUME IInv, Closed \/ Joined PROVE IInv'
    OBVIOUS
  <1>1. /\ UNCHANGED <<taskVars, chan, who, received, cancelled>>
        /\ task = "end"
    BY DEF Closed, Joined
  <1>2. /\ pc' \in {"recv", "join", "over"}
        /\ result' \in {"none", "answer", "error", "cancelled", "timeout"}
    BY DEF Closed, Joined, IInv, TypeOK, Outcome
  <1>3. TypeOK'
    BY <1>1, <1>2 DEF IInv, TypeOK, taskVars
  <1>4. SentSoFar' /\ StopsLate' /\ TriesLeft'
    BY <1>1 DEF IInv, SentSoFar, StopsLate, TriesLeft, taskVars
  <1> QED BY <1>3, <1>4 DEF IInv

\* The timeout ends the task; nothing is sent after it.
LEMMA TimesOutOK == IInv /\ TimesOut => IInv'
  <1> SUFFICES ASSUME IInv, TimesOut PROVE IInv'
    OBVIOUS
  <1>1. TypeOK'
    BY DEF IInv, TypeOK, TimesOut
  <1>2. SentSoFar' /\ StopsLate' /\ TriesLeft'
    BY DEF IInv, SentSoFar, StopsLate, TriesLeft, TimesOut, WaitsFirst
  <1> QED BY <1>1, <1>2 DEF IInv

\* A cancellation touches nothing but its flag.
LEMMA CancelOK == IInv /\ Cancel => IInv'
  BY DEF IInv, TypeOK, SentSoFar, StopsLate, TriesLeft, Cancel, taskVars

\* Every step keeps the invariant.
LEMMA NextOK == IInv /\ [Next]_vars => IInv'
  <1>1. IInv /\ UNCHANGED vars => IInv'
    BY DEF IInv, TypeOK, SentSoFar, StopsLate, TriesLeft, vars, taskVars, callVars
  <1> QED BY <1>1, ProviderOK, DeliveredOK, RecvOK, ReturnOK, TimesOutOK, CancelOK
         DEF Next, CallerStep

-----------------------------------------------------------------------------
(* The theorems                                                            *)

\* The invariant holds in every reachable state.
LEMMA Invariant == Spec => []IInv
  BY InitOK, NextOK, PTL DEF Spec

\* Every variable of a streamed call keeps its type.
THEOREM TypeCorrect == Spec => []TypeOK
  <1>1. IInv => TypeOK
    BY DEF IInv
  <1> QED BY <1>1, Invariant, PTL

\* A caller that stopped reading without a cancellation waits for a task that
\* has returned: no channel is small enough to keep it waiting.
THEOREM NobodyWaits == Spec => []JoinsEnded
  <1>1. IInv => JoinsEnded
    BY DEF IInv, StopsLate, JoinsEnded
  <1> QED BY <1>1, Invariant, PTL

\* Only the last event of a call can be its end.
LEMMA SentEndLast == IInv => EndsOnce
  <1> SUFFICES ASSUME IInv, NEW i \in 1 .. Len(Sent) - 1
               PROVE  Sent[i].kind \in Text
    BY DEF EndsOnce, Text
  <1> DEFINE evs == received \o chan
             rest == IF sending = Nothing THEN <<>> ELSE <<sending>>
  <1>1. /\ received \in Seq(Event) /\ chan \in Seq(Event) /\ evs \in Seq(Event)
        /\ rest \in Seq(Event)
    BY EventTypes DEF IInv, TypeOK
  <1>2. /\ Len(evs) = Len(received) + Len(chan)
        /\ \A j \in 1 .. Len(evs) :
              evs[j] = IF j <= Len(received) THEN received[j]
                       ELSE chan[j - Len(received)]
    BY <1>1
  <1>3. /\ Sent = evs \o rest
        /\ Len(Sent) = Len(evs) + Len(rest)
        /\ \A j \in 1 .. Len(evs) : Sent[j] = evs[j]
    BY <1>1 DEF Sent
  <1>4. CASE sending # Nothing
    <2>1. OnlyText(received) /\ OnlyText(chan)
      BY <1>4 DEF IInv, SentSoFar
    <2>2. Len(rest) = 1
      BY <1>4
    <2>3. i \in 1 .. Len(evs)
      BY <1>1, <1>3, <2>2
    <2> QED BY <1>1, <1>2, <1>3, <2>1, <2>3 DEF OnlyText
  <1>5. CASE sending = Nothing
    <2>1. Len(rest) = 0
      BY <1>5
    <2>2. i \in 1 .. Len(evs) - 1 /\ i \in 1 .. Len(evs)
      BY <1>1, <1>3, <2>1
    <2>3. /\ EndLast(received) /\ EndLast(chan)
          /\ chan # <<>> => OnlyText(received)
      BY DEF IInv, SentSoFar
    <2>4. CASE chan = <<>>
      BY <1>1, <1>2, <1>3, <2>2, <2>3, <2>4 DEF EndLast
    <2>5. CASE chan # <<>>
      BY <1>1, <1>2, <1>3, <2>2, <2>3, <2>5 DEF EndLast, OnlyText
    <2> QED BY <2>4, <2>5
  <1> QED BY <1>4, <1>5

\* A call has one end, for a channel of any capacity, any number of attempts
\* and an answer of any length.
THEOREM OneEnd == Spec => []EndsOnce
  BY SentEndLast, Invariant, PTL

-----------------------------------------------------------------------------
(* What was sent and what was read                                         *)

\* No event is lost: neither a timeout nor a cancellation has come between.
Unlost == result \notin {"timeout", "cancelled"}

\* What was sent, against what was read
Account ==
    /\ accum = [i \in Index |-> Whole(Fragments(i))]
    /\ Unlost => Count(Sent, "Delta") = read.content
    /\ \A i \in DOMAIN Sent : Sent[i].kind = "Done" => Sent[i] = Done(read.content, accum)
    /\ Unlost /\ task = "end" => Sent # <<>> /\ Last(Sent).kind \in {"Done", "Error"}

\* What a result means
Results ==
    /\ result = "timeout" => pc = "over"
    /\ result = "cancelled" => cancelled /\ pc # "recv"
    /\ cancelled => who = "agent"
    /\ result = "answer" => received # <<>> /\ Last(received).kind = "Done"

-----------------------------------------------------------------------------
(* Counting and joining                                                    *)

\* The events of a kind, counted
LEMMA CountAppend ==
    ASSUME NEW evs \in Seq(Event), NEW e \in Event, NEW kind
    PROVE  /\ Count(evs, kind) \in Nat
           /\ Count(Append(evs, e), kind) =
                 Count(evs, kind) + IF e.kind = kind THEN 1 ELSE 0
  <1> DEFINE N == Len(evs)
             A == {i \in DOMAIN evs : evs[i].kind = kind}
             B == {i \in DOMAIN Append(evs, e) : Append(evs, e)[i].kind = kind}
  <1>1. /\ N \in Nat /\ DOMAIN evs = 1 .. N /\ DOMAIN Append(evs, e) = 1 .. N + 1
        /\ \A i \in 1 .. N : Append(evs, e)[i] = evs[i]
        /\ Append(evs, e)[N + 1] = e
    OBVIOUS
  <1>2. A \subseteq 1 .. N /\ IsFiniteSet(1 .. N)
    BY <1>1, FS_Interval
  <1>3. IsFiniteSet(A) /\ Cardinality(A) \in Nat /\ N + 1 \notin A
    BY <1>1, <1>2, FS_Subset, FS_CardinalityType
  <1>4. B = IF e.kind = kind THEN A \cup {N + 1} ELSE A
    BY <1>1
  <1>5. Cardinality(B) = Cardinality(A) + IF e.kind = kind THEN 1 ELSE 0
    <2> HIDE DEF A, B, N
    <2>1. Cardinality(A \cup {N + 1}) = Cardinality(A) + 1
      BY <1>3, FS_AddElement
    <2> QED BY <1>3, <1>4, <2>1
  <1> QED BY <1>3, <1>5 DEF Count

\* One more fragment of a call
LEMMA WholeAppend ==
    ASSUME NEW ps \in Seq(Part), NEW p \in Part
    PROVE  /\ Whole(Append(ps, p)).id = IF p.id = NoId THEN Whole(ps).id ELSE p.id
           /\ Whole(Append(ps, p)).args = Append(Whole(ps).args, p.frag)
  <1> DEFINE N == Len(ps)
             u == Append(ps, p)
             I == {n \in DOMAIN ps : ps[n].id # NoId}
             J == {n \in DOMAIN u : u[n].id # NoId}
  <1>1. /\ u \in Seq(Part) /\ N \in Nat /\ DOMAIN ps = 1 .. N /\ DOMAIN u = 1 .. N + 1
        /\ \A n \in 1 .. N : u[n] = ps[n]
        /\ u[N + 1] = p
    OBVIOUS
  <1>2. (\A n \in 1 .. N : n \in I <=> n \in J) /\ (N + 1 \in J <=> p.id # NoId)
    BY <1>1
  <1>3. Named(ps) = Picked(ps, I) /\ Named(u) = Picked(u, J)
    BY DEF Named
  <1> HIDE DEF I, J
  <1>4. Named(u) = IF p.id # NoId THEN Append(Named(ps), p) ELSE Named(ps)
    BY <1>2, <1>3, PickedAppend
  <1>5. Named(ps) \in Seq(Part)
    BY <1>3, PickedElements
  <1>6. p.id # NoId => Named(u) # <<>> /\ Last(Named(u)) = p
    BY <1>4, <1>5 DEF Last
  <1>7. Whole(u).id = IF p.id = NoId THEN Whole(ps).id ELSE p.id
    BY <1>4, <1>6 DEF Whole
  <1>8. Whole(u).args = Append(Whole(ps).args, p.frag)
    <2> DEFINE v == [n \in 1 .. N |-> ps[n].frag]
               w == [n \in 1 .. N + 1 |-> u[n].frag]
    <2>1. Whole(ps).args = v /\ Whole(u).args = w
      BY <1>1 DEF Whole
    <2>2. \A n \in 1 .. N : ps[n].frag \in Nat
      <3>1. \A n \in 1 .. N : ps[n] \in Part
        OBVIOUS
      <3>2. \A q \in Part : q.frag \in Nat
        BY DEF Part
      <3> QED BY <3>1, <3>2
    <2>3. v \in Seq(Nat) /\ Len(v) = N /\ p.frag \in Nat
      <3>1. p.frag \in Nat
        BY DEF Part
      <3>2. v \in Seq(Nat)
        BY <1>1, <2>2
      <3>3. Len(v) = N
        BY <1>1
      <3> QED BY <3>1, <3>2, <3>3
    <2>4. w = Append(v, p.frag)
      <3> DEFINE x == Append(v, p.frag)
      <3>1. x \in Seq(Nat) /\ Len(x) = N + 1 /\ x[N + 1] = p.frag
            /\ \A n \in 1 .. N : x[n] = v[n]
        BY <2>3
      <3>2. \A n \in 1 .. N + 1 : w[n] \in Nat
        BY <1>1, <2>2, <2>3
      <3>3. w \in Seq(Nat) /\ Len(w) = N + 1
        BY <1>1, <3>2
      <3>4. \A n \in 1 .. N + 1 : w[n] = x[n]
        BY <1>1, <3>1
      <3> HIDE DEF x, w
      <3> QED BY <1>1, <3>1, <3>3, <3>4, SeqEqual
    <2> QED BY <2>1, <2>4
  <1> QED BY <1>7, <1>8

\* A fragment joins the call of its index, and no other.
LEMMA FragmentsAppend ==
    ASSUME NEW fs \in Seq(Part), NEW p \in Part, given = fs, given' = Append(fs, p)
    PROVE  \A i : /\ Fragments(i) \in Seq(Part)
                  /\ Fragments(i)' = IF p.index = i THEN Append(Fragments(i), p)
                                     ELSE Fragments(i)
  <1> TAKE i
  <1> DEFINE N == Len(fs)
             u == Append(fs, p)
             I == {n \in DOMAIN fs : fs[n].index = i}
             J == {n \in DOMAIN u : u[n].index = i}
  <1>1. /\ N \in Nat /\ DOMAIN fs = 1 .. N /\ DOMAIN u = 1 .. N + 1
        /\ \A n \in 1 .. N : u[n] = fs[n]
        /\ u[N + 1] = p
    OBVIOUS
  <1>2. (\A n \in 1 .. N : n \in I <=> n \in J) /\ (N + 1 \in J <=> p.index = i)
    BY <1>1
  <1>3. Fragments(i) = Picked(fs, I) /\ Fragments(i)' = Picked(u, J)
    BY DEF Fragments
  <1> HIDE DEF I, J
  <1>4. Picked(fs, I) \in Seq(Part)
    BY PickedElements
  <1> QED BY <1>2, <1>3, <1>4, PickedAppend

-----------------------------------------------------------------------------
(* The events in order                                                     *)

\* What is received, in the channel and on the way to it, in this order
Out(r, c, s) == r \o c \o (IF s = Nothing THEN <<>> ELSE <<s>>)

\* It ends with the event on the way, if there is one.
LEMMA OutEnd ==
    ASSUME NEW r \in Seq(Event), NEW c \in Seq(Event), NEW s \in Event
    PROVE  /\ r \o c \in Seq(Event)
           /\ Out(r, c, Nothing) = r \o c
           /\ Out(r, c, s) = Append(r \o c, s)
  <1>1. r \o c \in Seq(Event)
    BY ConcatProperties
  <1>2. s # Nothing
    BY EventTypes
  <1>3. (r \o c) \o <<>> = r \o c
    BY <1>1, ConcatEmptySeq
  <1>4. Append(r \o c, s) = (r \o c) \o <<s>>
    BY <1>1, AppendIsConcat
  <1> QED BY <1>1, <1>2, <1>3, <1>4 DEF Out

\* Events that move on keep their order.
LEMMA OutMoves ==
    ASSUME NEW r \in Seq(Event), NEW c \in Seq(Event), NEW s \in Event \cup {Nothing}
    PROVE  /\ Out(r, c, s) \in Seq(Event)
           /\ s # Nothing => Out(r, Append(c, s), Nothing) = Out(r, c, s)
           /\ c # <<>> => Out(Append(r, Head(c)), Tail(c), s) = Out(r, c, s)
  <1>1. s # Nothing => s \in Event
    OBVIOUS
  <1>2. Out(r, c, s) \in Seq(Event)
    <2>1. r \o c \in Seq(Event)
      BY ConcatProperties
    <2>2. s # Nothing => Append(r \o c, s) \in Seq(Event)
      BY <1>1, <2>1, AppendProperties
    <2>3. Delta \in Event
      BY EventTypes
    <2>4. Out(r, c, Nothing) = r \o c
      BY <2>3, OutEnd
    <2>5. s # Nothing => Out(r, c, s) = Append(r \o c, s)
      BY <1>1, OutEnd
    <2> QED BY <2>1, <2>2, <2>4, <2>5
  <1>3. ASSUME s # Nothing PROVE Out(r, Append(c, s), Nothing) = Out(r, c, s)
    <2>1. s \in Event /\ Append(c, s) \in Seq(Event)
      BY <1>1, <1>3, AppendProperties
    <2>2. Out(r, Append(c, s), Nothing) = r \o Append(c, s) /\ Out(r, c, s) = Append(r \o c, s)
      BY <2>1, OutEnd
    <2>3. Append(r \o c, s) = r \o Append(c, s)
      <3>1. Shifts(r, c, s)
        BY <2>1, AppendConcat
      <3> QED BY <3>1 DEF Shifts
    <2> QED BY <2>2, <2>3
  <1>4. ASSUME c # <<>> PROVE Out(Append(r, Head(c)), Tail(c), s) = Out(r, c, s)
    <2> DEFINE h == Head(c)
               d == Tail(c)
    <2>1. h \in Event /\ d \in Seq(Event) /\ <<h>> \in Seq(Event)
      BY <1>4, HeadTailProperties
    <2>2. Append(r, h) = r \o <<h>>
      BY <2>1, AppendIsConcat
    <2>3. (r \o <<h>>) \o d = r \o (<<h>> \o d)
      BY <2>1, ConcatAssociative
    <2>4. <<h>> \o d = c
      <3>1. /\ <<h>> \o d \in Seq(Event) /\ Len(<<h>> \o d) = 1 + Len(d)
            /\ \A i \in 1 .. 1 + Len(d) :
                  (<<h>> \o d)[i] = IF i <= 1 THEN h ELSE d[i - 1]
        <4> HIDE DEF h, d
        <4>1. Len(<<h>>) = 1 /\ <<h>>[1] = h
          OBVIOUS
        <4>2. /\ <<h>> \o d \in Seq(Event) /\ Len(<<h>> \o d) = Len(<<h>>) + Len(d)
              /\ \A i \in 1 .. Len(<<h>>) + Len(d) :
                  (<<h>> \o d)[i] = IF i <= Len(<<h>>) THEN <<h>>[i] ELSE d[i - Len(<<h>>)]
          BY <2>1, ConcatProperties
        <4> QED BY <2>1, <4>1, <4>2
      <3>2. /\ Len(c) \in Nat /\ Len(d) = Len(c) - 1 /\ h = c[1]
            /\ \A i \in 1 .. Len(d) : d[i] = c[i + 1]
        BY <1>4, HeadTailProperties
      <3> HIDE DEF h, d
      <3>3. Len(<<h>> \o d) = Len(c)
        BY <3>1, <3>2
      <3>4. \A i \in 1 .. Len(c) : (<<h>> \o d)[i] = c[i]
        BY <3>1, <3>2
      <3> QED BY <3>1, <3>3, <3>4, SeqEqual
    <2> QED BY <2>2, <2>3, <2>4 DEF Out
  <1> QED BY <1>2, <1>3, <1>4

\* An event that is somewhere on its way
Among(e, r, c, s) ==
    \/ \E i \in DOMAIN r : e = r[i]
    \/ \E i \in DOMAIN c : e = c[i]
    \/ s # Nothing /\ e = s

\* Nothing else is sent.
LEMMA OutElements ==
    ASSUME NEW r \in Seq(Event), NEW c \in Seq(Event), NEW s \in Event \cup {Nothing}
    PROVE  /\ \A i \in DOMAIN Out(r, c, s) : Among(Out(r, c, s)[i], r, c, s)
           /\ \A e : Among(e, r, c, s) => \E i \in DOMAIN Out(r, c, s) : Out(r, c, s)[i] = e
  <1> DEFINE a == r \o c
  <1>1. /\ a \in Seq(Event) /\ Len(a) = Len(r) + Len(c)
        /\ \A i \in 1 .. Len(r) + Len(c) : a[i] = IF i <= Len(r) THEN r[i] ELSE c[i - Len(r)]
        /\ Len(r) \in Nat /\ Len(c) \in Nat /\ DOMAIN r = 1 .. Len(r) /\ DOMAIN c = 1 .. Len(c)
        /\ DOMAIN a = 1 .. Len(a)
    BY ConcatProperties
  <1>2. Delta \in Event
    BY EventTypes
  <1>3. s = Nothing => Out(r, c, s) = a
    BY <1>2, OutEnd
  <1>4. s # Nothing => Out(r, c, s) = Append(a, s)
    BY OutEnd
  <1> HIDE DEF a
  <1>5. \A i \in DOMAIN a : Among(a[i], r, c, s)
    <2> SUFFICES ASSUME NEW i \in 1 .. Len(a) PROVE Among(a[i], r, c, s)
      BY <1>1
    <2>1. CASE i <= Len(r)
      BY <1>1, <2>1 DEF Among
    <2>2. CASE ~(i <= Len(r))
      <3>1. i - Len(r) \in 1 .. Len(c) /\ a[i] = c[i - Len(r)]
        BY <1>1, <2>2
      <3> QED BY <1>1, <3>1 DEF Among
    <2> QED BY <2>1, <2>2
  <1>6. /\ \A i \in 1 .. Len(r) : i \in DOMAIN a /\ a[i] = r[i]
        /\ \A i \in 1 .. Len(c) : Len(r) + i \in DOMAIN a /\ a[Len(r) + i] = c[i]
    BY <1>1
  <1>7. \A e : Among(e, r, c, Nothing) => \E i \in DOMAIN a : a[i] = e
    BY <1>1, <1>6 DEF Among
  <1>8. CASE s = Nothing
    BY <1>3, <1>5, <1>7, <1>8
  <1>9. CASE s # Nothing
    <2> DEFINE b == Append(a, s)
    <2>1. /\ DOMAIN b = 1 .. Len(a) + 1 /\ b[Len(a) + 1] = s /\ Len(a) \in Nat
          /\ \A i \in 1 .. Len(a) : b[i] = a[i]
      <3>1. s \in Event
        BY <1>9
      <3>2. /\ b \in Seq(Event) /\ Len(b) = Len(a) + 1 /\ b[Len(a) + 1] = s
            /\ \A i \in 1 .. Len(a) : b[i] = a[i]
        BY <1>1, <3>1, AppendProperties
      <3>3. Len(a) \in Nat
        BY <1>1
      <3>4. DOMAIN b = 1 .. Len(b)
        BY <3>2, LenProperties
      <3> QED BY <3>2, <3>3, <3>4
    <2> HIDE DEF b
    <2>2. \A i \in DOMAIN b : i = Len(a) + 1 \/ (i \in DOMAIN a /\ b[i] = a[i])
      <3>1. DOMAIN a = 1 .. Len(a)
        BY <1>1
      <3> QED BY <2>1, <3>1
    <2>3. Among(s, r, c, s)
      BY <1>9 DEF Among
    <2>4. \A e : Among(e, r, c, s) => e = s \/ Among(e, r, c, Nothing)
      BY DEF Among
    <2>5. \A i \in DOMAIN a : i \in DOMAIN b /\ b[i] = a[i]
      BY <1>1, <2>1
    <2>6. Len(a) + 1 \in DOMAIN b
      BY <2>1
    <2>7. Out(r, c, s) = b
      BY <1>4, <1>9 DEF b
    <2>8. \A i \in DOMAIN b : Among(b[i], r, c, s)
      BY <1>5, <2>1, <2>2, <2>3
    <2>9. \A e : Among(e, r, c, s) => \E i \in DOMAIN b : b[i] = e
      BY <1>7, <2>1, <2>4, <2>5, <2>6
    <2> QED BY <2>7, <2>8, <2>9
  <1> QED BY <1>8, <1>9

-----------------------------------------------------------------------------
(* The provider                                                            *)

\* Given what a provider's step does to an answer that is open
LEMMA Sends ==
    ASSUME IInv, Account, task # "end", sending = Nothing,
           received' = received, chan' = chan, result' = result, task' # "end",
           accum' = [i \in Index |-> Whole(Fragments(i)')],
           \/ sending' = Nothing /\ read'.content = read.content
           \/ /\ sending' \in Event
              /\ read'.content = read.content + (IF sending'.kind = "Delta" THEN 1 ELSE 0)
              /\ sending'.kind = "Done" => sending' = Done(read'.content, accum')
    PROVE  Account'
  <1>1. /\ received \in Seq(Event) /\ chan \in Seq(Event)
        /\ OnlyText(received) /\ OnlyText(chan)
    BY DEF IInv, TypeOK, SentSoFar
  <1>2. /\ Sent = Out(received, chan, sending) /\ Sent' = Out(received, chan, sending')
        /\ Sent \in Seq(Event)
    <2>1. Sent = Out(received, chan, sending) /\ Sent' = Out(received', chan', sending')
      BY DEF Sent, Out
    <2> QED BY <1>1, <2>1, OutMoves
  <1>3. \A e : Among(e, received, chan, Nothing) => e.kind # "Done"
    BY <1>1 DEF Among, OnlyText, Text
  <1>4. \A i \in DOMAIN Sent' : Sent[i]'.kind = "Done" => Sent[i]' = Done(read'.content, accum')
    <2> SUFFICES ASSUME NEW i \in DOMAIN Sent', Sent'[i].kind = "Done"
                 PROVE  Sent'[i] = Done(read'.content, accum')
      OBVIOUS
    <2>1. Among(Sent'[i], received, chan, sending')
      BY <1>1, <1>2, OutElements
    <2>2. sending' # Nothing /\ Sent'[i] = sending'
      BY <1>3, <2>1 DEF Among
    <2> QED BY <2>2
  <1>5. Unlost' => Count(Sent, "Delta")' = read'.content
    <2> SUFFICES ASSUME Unlost PROVE Count(Sent', "Delta") = read'.content
      BY DEF Unlost, Count
    <2>1. Count(Sent, "Delta") = read.content
      BY DEF Account
    <2>2. CASE sending' = Nothing /\ read'.content = read.content
      BY <1>2, <2>1, <2>2
    <2>3. CASE /\ sending' \in Event
               /\ read'.content = read.content + (IF sending'.kind = "Delta" THEN 1 ELSE 0)
      <3>1. Sent' = Append(Sent, sending')
        <4>1. /\ Out(received, chan, Nothing) = received \o chan
              /\ Out(received, chan, sending') = Append(received \o chan, sending')
          BY <1>1, <2>3, OutEnd
        <4> QED BY <1>2, <4>1
      <3> QED BY <1>2, <2>1, <2>3, <3>1, CountAppend
    <2> QED BY <2>2, <2>3
  <1> QED BY <1>4, <1>5 DEF Account

\* The provider
LEMMA ProviderAccount ==
    ASSUME IInv, Account, Provider
    PROVE  Account'
  <1>1. /\ task \in {"connect", "read"} /\ task # "end" /\ sending = Nothing
        /\ received' = received /\ chan' = chan /\ result' = result
    BY DEF IInv, SentSoFar, Provider, Connected, ConnectFails, Fails, ReadDelta, ReadThink, ReadPart,
           ReadEnd, Read, callVars
  <1>2. accum = [i \in Index |-> Whole(Fragments(i))] /\ accum \in Calls /\ read.content \in Nat
    BY DEF Account, IInv, TypeOK
  <1>3. CASE ReadPart
    <2>1. PICK i \in Index, d \in Id \cup {NoId} :
             LET p == [index |-> i, id |-> d, frag |-> read.chunks]
             IN  accum' = Accumulated(accum, p) /\ given' = Append(given, p)
      BY <1>3 DEF ReadPart
    <2> DEFINE p == [index |-> i, id |-> d, frag |-> read.chunks]
    <2>2. /\ p \in Part /\ p.index = i /\ p.id = d /\ p.frag = read.chunks
      BY ChunksAssumption DEF Part, IInv, TypeOK
    <2>3. accum' = Accumulated(accum, p) /\ given' = Append(given, p) /\ given \in Seq(Part)
      BY <2>1 DEF IInv, TypeOK
    <2> HIDE DEF p
    <2>4. \A j : /\ Fragments(j) \in Seq(Part)
                 /\ Fragments(j)' = IF p.index = j THEN Append(Fragments(j), p) ELSE Fragments(j)
      BY <2>2, <2>3, FragmentsAppend
    <2>5. Whole(Append(Fragments(i), p)) =
             [id   |-> IF p.id = NoId THEN Whole(Fragments(i)).id ELSE p.id,
              args |-> Append(Whole(Fragments(i)).args, p.frag)]
      <3> DEFINE ps == Fragments(i)
                 new == Append(ps, p)
      <3>1. ps \in Seq(Part)
        BY <2>4
      <3> HIDE DEF ps
      <3>2. /\ Whole(new).id = IF p.id = NoId THEN Whole(ps).id ELSE p.id
            /\ Whole(new).args = Append(Whole(ps).args, p.frag)
        BY <2>2, <3>1, WholeAppend
      <3> HIDE DEF new
      <3>3. Whole(new) = [id |-> Whole(new).id, args |-> Whole(new).args]
        BY DEF Whole
      <3>4. Whole(new) = [id   |-> IF p.id = NoId THEN Whole(ps).id ELSE p.id,
                          args |-> Append(Whole(ps).args, p.frag)]
        BY <3>2, <3>3
      <3> QED BY <3>4 DEF ps, new
    <2>6. accum' = [j \in Index |-> Whole(Fragments(j)')]
      <3>1. accum' = [accum EXCEPT ![i] = Whole(Append(Fragments(i), p))]
        BY <1>2, <2>2, <2>3, <2>5 DEF Accumulated
      <3>2. accum' = [j \in Index |-> IF j = i THEN Whole(Append(Fragments(i), p)) ELSE accum[j]]
        BY <1>2, <3>1
      <3>3. \A j \in Index : (IF j = i THEN Whole(Append(Fragments(i), p)) ELSE accum[j])
                              = Whole(Fragments(j)')
        BY <1>2, <2>2, <2>4
      <3> QED BY <3>2, <3>3
    <2>7. task' # "end" /\ sending' = Nothing /\ read'.content = read.content
      BY <1>1, <1>2, <1>3 DEF ReadPart, Read
    <2> QED BY <1>1, <2>6, <2>7, Sends
  <1>4. CASE ~ReadPart
    <2>1. accum' = accum /\ given' = given
      BY <1>4 DEF Provider, Connected, ConnectFails, Fails, ReadDelta, ReadThink, ReadEnd
    <2>2. accum' = [i \in Index |-> Whole(Fragments(i)')]
      <3>1. \A i : Fragments(i)' = Fragments(i)
        BY <2>1 DEF Fragments
      <3> QED BY <1>2, <2>1, <3>1
    <2>3. task' # "end"
      BY <1>1, <1>4 DEF Provider, Connected, ConnectFails, Fails, ReadDelta, ReadThink, ReadEnd, Read, Send
    <2>4. CASE Connected \/ (ConnectFails /\ sending' = Nothing)
      <3>1. sending' = Nothing /\ read' = read
        BY <1>1, <2>4 DEF Connected, ConnectFails
      <3> QED BY <1>1, <2>2, <2>3, <3>1, Sends
    <2>5. CASE Fails \/ (ConnectFails /\ sending' # Nothing)
      <3>1. sending' = Error /\ read' = read
        BY <1>1, <2>5 DEF Fails, ConnectFails, Send
      <3>2. sending' \in Event /\ sending'.kind = "Error"
        BY <3>1, EventTypes DEF Error
      <3> QED BY <1>1, <1>2, <2>2, <2>3, <3>1, <3>2, Sends
    <2>6. CASE ReadDelta
      <3>1. sending' = Delta /\ read'.content = read.content + 1
        BY <2>6 DEF ReadDelta, Read, Send
      <3>2. sending' \in Event /\ sending'.kind = "Delta"
        BY <3>1, EventTypes DEF Delta
      <3> QED BY <1>1, <2>2, <2>3, <3>1, <3>2, Sends
    <2>7. CASE ReadThink
      <3>1. sending' = ThinkDelta /\ read'.content = read.content
        BY <1>2, <2>7 DEF ReadThink, Read, Send
      <3>2. sending' \in Event /\ sending'.kind = "ThinkDelta"
        BY <3>1, EventTypes DEF ThinkDelta
      <3> QED BY <1>1, <1>2, <2>2, <2>3, <3>1, <3>2, Sends
    <2>8. CASE ReadEnd
      <3>1. sending' = Done(read'.content, accum') /\ read'.content = read.content
        BY <2>8 DEF ReadEnd, Send
      <3>2. sending' \in Event /\ sending'.kind = "Done"
        BY <1>2, <2>1, <3>1, EventTypes DEF Done
      <3> QED BY <1>1, <1>2, <2>2, <2>3, <3>1, <3>2, Sends
    <2>9. Connected \/ ConnectFails \/ Fails \/ ReadDelta \/ ReadThink \/ ReadEnd
      BY <1>4 DEF Provider
    <2>10. ConnectFails => Account'
      BY <2>4, <2>5
    <2> QED BY <2>4, <2>5, <2>6, <2>7, <2>8, <2>9, <2>10
  <1> QED BY <1>3, <1>4

-----------------------------------------------------------------------------
(* The channel and the caller                                              *)

\* Nothing new is sent or read.
LEMMA Moved ==
    ASSUME Account, UNCHANGED <<read, accum, given>>, Sent' = Sent, Unlost' => Unlost,
           task' = "end" /\ task # "end" => Sent # <<>> /\ Last(Sent).kind \in {"Done", "Error"}
    PROVE  Account'
  <1>1. \A i : Fragments(i)' = Fragments(i)
    BY DEF Fragments
  <1>2. Count(Sent, "Delta")' = Count(Sent, "Delta") /\ Last(Sent)' = Last(Sent)
    BY DEF Count, Last
  <1> QED BY <1>1, <1>2 DEF Account

\* Something that was sent is dropped, and the result says so.
LEMMA Dropped ==
    ASSUME IInv, IInv', Account, UNCHANGED <<read, accum, given>>, ~Unlost',
           \A e : Among(e, received', chan', sending') => Among(e, received, chan, sending)
    PROVE  Account'
  <1>1. \A i : Fragments(i)' = Fragments(i)
    BY DEF Fragments
  <1>2. ASSUME NEW i \in DOMAIN Sent', Sent'[i].kind = "Done"
        PROVE  Sent'[i] = Done(read.content, accum)
    <2>1. Sent = Out(received, chan, sending) /\ Sent' = Out(received', chan', sending')
      BY DEF Sent, Out
    <2>2. /\ received \in Seq(Event) /\ chan \in Seq(Event) /\ sending \in Event \cup {Nothing}
          /\ received' \in Seq(Event) /\ chan' \in Seq(Event) /\ sending' \in Event \cup {Nothing}
      BY DEF IInv, TypeOK
    <2>3. Among(Sent'[i], received', chan', sending')
      BY <2>1, <2>2, OutElements
    <2>4. PICK j \in DOMAIN Sent : Sent[j] = Sent'[i]
      BY <2>1, <2>2, <2>3, OutElements
    <2> QED BY <1>2, <2>4 DEF Account
  <1> QED BY <1>1, <1>2 DEF Account

\* What was sent ends with what is put into the channel.
LEMMA DeliveredAccount ==
    ASSUME IInv, Account, Results, Delivered
    PROVE  Account' /\ Results'
  <1>1. /\ sending \in Event /\ sending # Nothing /\ sending' = Nothing
        /\ chan' = Append(chan, sending) /\ task # "end"
        /\ UNCHANGED <<read, accum, given>>
        /\ UNCHANGED callVars
        /\ task' = "end" => sending.kind \in {"Done", "Error"}
        /\ received \in Seq(Event) /\ chan \in Seq(Event)
    BY EventTypes DEF Delivered, IInv, TypeOK, SentSoFar
  <1>2. /\ Sent = Out(received, chan, sending) /\ Sent' = Out(received, Append(chan, sending), Nothing)
    BY <1>1 DEF Sent, Out, callVars
  <1>3. Sent' = Sent
    BY <1>1, <1>2, OutMoves
  <1>4. Sent # <<>> /\ Last(Sent) = sending
    <2> DEFINE a == received \o chan
    <2>1. a \in Seq(Event) /\ Sent = Append(a, sending)
      BY <1>1, <1>2, OutEnd
    <2> HIDE DEF a
    <2> QED BY <1>1, <2>1 DEF Last
  <1>5. Results'
    BY <1>1 DEF Results, callVars, Last
  <1>6. Unlost' => Unlost
    BY <1>1 DEF Unlost, callVars
  <1> QED BY <1>1, <1>3, <1>4, <1>5, <1>6, Moved

\* The caller takes an event from the channel, or drops it when it is cancelled.
LEMMA RecvAccount ==
    ASSUME IInv, IInv', Account, Results, Recv
    PROVE  Account' /\ Results'
  <1> DEFINE h == Head(chan)
  <1>1. /\ received \in Seq(Event) /\ chan \in Seq(Event) /\ chan # <<>> /\ h \in Event
        /\ chan' = Tail(chan) /\ pc = "recv" /\ sending \in Event \cup {Nothing}
        /\ task' = task /\ sending' = sending /\ UNCHANGED <<read, accum, given>>
        /\ who' = who /\ cancelled' = cancelled /\ OnlyText(received)
    BY DEF Recv, IInv, TypeOK, SentSoFar, taskVars
  <1>2. Unlost
    BY <1>1 DEF Results, Unlost
  <1>3. Sent = Out(received, chan, sending) /\ Sent' = Out(received', chan', sending')
    BY DEF Sent, Out
  <1>4. result # "answer"
    <2> SUFFICES ASSUME result = "answer" PROVE FALSE
      OBVIOUS
    <2>1. received # <<>> /\ Last(received).kind = "Done"
      BY DEF Results
    <2>2. Len(received) \in 1 .. Len(received)
      BY <1>1, <2>1
    <2> QED BY <1>1, <2>1, <2>2 DEF OnlyText, Text, Last
  <1>5. CASE who = "agent" /\ cancelled
    <2>1. received' = received /\ result' = "cancelled" /\ pc' = "join"
      BY <1>5 DEF Recv, StopsReading, WaitsFirst
    <2>2. \A i \in DOMAIN Tail(chan) : \E j \in DOMAIN chan : Tail(chan)[i] = chan[j]
      <3> TAKE i \in DOMAIN Tail(chan)
      <3>1. i + 1 \in DOMAIN chan /\ Tail(chan)[i] = chan[i + 1]
        BY <1>1
      <3> QED BY <3>1
    <2>3. \A e : Among(e, received', chan', sending') => Among(e, received, chan, sending)
      BY <1>1, <2>1, <2>2 DEF Among
    <2>4. ~Unlost'
      BY <2>1 DEF Unlost
    <2>5. Account'
      BY <1>1, <2>3, <2>4, Dropped
    <2>6. Results'
      BY <1>1, <1>5, <2>1 DEF Results
    <2> QED BY <2>5, <2>6
  <1>6. CASE ~(who = "agent" /\ cancelled)
    <2>1. received' = Append(received, h)
      BY <1>6 DEF Recv
    <2>2. Sent' = Sent
      BY <1>1, <1>3, <2>1, OutMoves
    <2>3. Account'
      BY <1>1, <1>2, <2>2, Moved
    <2>4. received' # <<>> /\ Last(received') = h
      BY <1>1, <2>1 DEF Last
    <2>5. CASE StopsReading(h)
      <3>1. result' = Outcome(received') /\ pc' # "recv"
            /\ (h.kind = "Error" \/ h.kind = "Done")
        BY <1>6, <2>5 DEF Recv, StopsReading
      <3>2. h.kind = "Error" => result' = "error"
        <4>1. Len(received') \in DOMAIN received' /\ received'[Len(received')] = h
          BY <1>1, <2>1
        <4> QED BY <3>1, <4>1 DEF Outcome
      <3>3. result' \in {"error", "answer"}
        BY <3>1 DEF Outcome
      <3>4. Results'
        BY <1>1, <2>4, <3>1, <3>2, <3>3 DEF Results
      <3> QED BY <2>3, <3>4
    <2>6. CASE ~StopsReading(h)
      <3>1. pc' = pc /\ result' = result
        BY <2>6 DEF Recv
      <3> QED BY <1>1, <1>4, <2>3, <3>1 DEF Results
    <2> QED BY <2>5, <2>6
  <1> QED BY <1>5, <1>6

\* The channel is closed, or the task has returned.
LEMMA ReturnAccount ==
    ASSUME IInv, Account, Results, Closed \/ Joined
    PROVE  Account' /\ Results'
  <1>1. /\ task' = task /\ sending' = sending /\ UNCHANGED <<read, accum, given>>
        /\ chan' = chan /\ received' = received /\ who' = who /\ cancelled' = cancelled
        /\ task = "end" /\ pc \in {"recv", "join"}
    BY DEF Closed, Joined, taskVars
  <1>2. Sent' = Sent
    BY <1>1 DEF Sent
  <1>3. CASE Closed
    <2>1. Unlost /\ pc = "recv" /\ chan = <<>> /\ result' = Outcome(received) /\ pc' # "recv"
      BY <1>3 DEF Results, Unlost, Closed
    <2>2. Account'
      BY <1>1, <1>2, <2>1, Moved
    <2>3. Sent = received
      <3>1. received \in Seq(Event) /\ sending = Nothing /\ Delta \in Event
        BY <1>1, EventTypes DEF IInv, TypeOK, SentSoFar
      <3>2. received \o <<>> = received
        BY <3>1, ConcatEmptySeq
      <3> QED BY <2>1, <3>1, <3>2 DEF Sent
    <2>4. received # <<>> /\ Last(received).kind \in {"Done", "Error"}
      BY <1>1, <2>1, <2>3 DEF Account
    <2>5. result' = "answer" => Last(received).kind # "Error"
      <3>1. Len(received) \in DOMAIN received
        BY <2>4 DEF IInv, TypeOK
      <3> QED BY <2>1, <3>1 DEF Outcome, Last
    <2>6. result' \in {"answer", "error"}
      BY <2>1 DEF Outcome
    <2>7. Last(received)' = Last(received)
      BY <1>1 DEF Last
    <2> QED BY <1>1, <2>1, <2>2, <2>4, <2>5, <2>6, <2>7 DEF Results
  <1>4. CASE Joined
    <2>1. /\ pc = "join" /\ pc' \in {"recv", "over"} /\ result' \in {result, "error"}
          /\ pc' = "recv" => who \in WaitsFirst /\ result' = result
      BY <1>4 DEF Joined
    <2>2. Unlost' => Unlost
      <3>1. result = "timeout" => FALSE
        BY <2>1 DEF Results
      <3>2. result = "cancelled" => result' = result
        BY <1>4 DEF Results, Joined, WaitsFirst
      <3> QED BY <3>1, <3>2 DEF Unlost
    <2>3. Account'
      BY <1>1, <1>2, <2>2, Moved
    <2>4. pc' = "recv" => result # "cancelled"
      BY <2>1 DEF Results, WaitsFirst
    <2>5. Last(received)' = Last(received)
      BY <1>1 DEF Last
    <2> QED BY <1>1, <2>1, <2>3, <2>4, <2>5 DEF Results
  <1> QED BY <1>3, <1>4

\* A timeout drops what the task wanted to send.
LEMMA TimesOutAccount ==
    ASSUME IInv, IInv', Account, Results, TimesOut
    PROVE  Account' /\ Results'
  <1>1. /\ result' = "timeout" /\ pc' = "over" /\ sending' = Nothing
        /\ UNCHANGED <<read, accum, given>>
        /\ chan' = chan /\ received' = received /\ who' = who /\ cancelled' = cancelled
    BY DEF TimesOut
  <1>2. \A e : Among(e, received', chan', sending') => Among(e, received, chan, sending)
    BY <1>1 DEF Among
  <1>3. Account'
    BY <1>1, <1>2, Dropped DEF Unlost
  <1> QED BY <1>1, <1>3 DEF Results

\* Every step keeps both.
LEMMA NextAccount == IInv /\ IInv' /\ Account /\ Results /\ [Next]_vars => Account' /\ Results'
  <1> SUFFICES ASSUME IInv, IInv', Account, Results, [Next]_vars PROVE Account' /\ Results'
    OBVIOUS
  <1>1. ASSUME Provider PROVE Account' /\ Results'
    <2>1. Account'
      BY <1>1, ProviderAccount
    <2>2. UNCHANGED callVars
      BY <1>1 DEF Provider, Connected, ConnectFails, Fails, ReadDelta, ReadThink, ReadPart, ReadEnd, Read
    <2>3. Results'
      BY <2>2 DEF Results, callVars, Last
    <2> QED BY <2>1, <2>3
  <1>2. ASSUME UNCHANGED <<taskVars, chan, who, pc, received, result>>, cancelled' = cancelled \/ Cancel
        PROVE  Account' /\ Results'
    <2>1. Sent' = Sent /\ UNCHANGED <<read, accum, given>> /\ task' = task /\ (Unlost' => Unlost)
      BY <1>2 DEF Sent, taskVars, Unlost
    <2>2. Account'
      BY <2>1, Moved
    <2>3. Results'
      BY <1>2 DEF Results, Last, Cancel
    <2> QED BY <2>2, <2>3
  <1>3. Cancel => Account' /\ Results'
    BY <1>2 DEF Cancel
  <1>4. UNCHANGED vars => Account' /\ Results'
    BY <1>2 DEF vars, callVars
  <1>5. Recv => Account' /\ Results'
    BY RecvAccount
  <1>6. Closed \/ Joined => Account' /\ Results'
    BY ReturnAccount
  <1>7. Delivered => Account' /\ Results'
    BY DeliveredAccount
  <1>8. TimesOut => Account' /\ Results'
    BY TimesOutAccount
  <1> QED BY <1>1, <1>3, <1>4, <1>5, <1>6, <1>7, <1>8 DEF Next, CallerStep

\* They hold at every step.
LEMMA AccountAlways == Spec => [](Account /\ Results)
  <1>1. Init => Account /\ Results
    <2> SUFFICES ASSUME Init PROVE Account /\ Results
      OBVIOUS
    <2>1. /\ accum = [i \in Index |-> NoCall] /\ given = <<>> /\ received = <<>> /\ chan = <<>>
          /\ sending = Nothing /\ read.content = 0 /\ task = "connect" /\ result = "none"
          /\ cancelled = FALSE
      BY DEF Init
    <2>2. \A i : Whole(Fragments(i)) = NoCall
      <3>1. <<>> \in Seq(Part) /\ DOMAIN <<>> = {}
        OBVIOUS
      <3>2. \A I : Picked(<<>>, I) = <<>>
        BY <3>1, PickedNone
      <3>3. \A i : Fragments(i) = <<>>
        BY <2>1, <3>2 DEF Fragments
      <3>4. Named(<<>>) = <<>>
        BY <3>2 DEF Named
      <3>5. Whole(<<>>).id = NoId /\ Whole(<<>>).args = <<>>
        BY <3>1, <3>4 DEF Whole
      <3>6. Whole(<<>>) = [id |-> Whole(<<>>).id, args |-> Whole(<<>>).args]
        BY DEF Whole
      <3>7. Whole(<<>>) = NoCall
        BY <3>5, <3>6 DEF NoCall
      <3> QED BY <3>3, <3>7
    <2>3. Sent = <<>>
      <3>1. <<>> \in Seq(Event)
        OBVIOUS
      <3>2. <<>> \o <<>> = <<>>
        BY <3>1, ConcatEmptySeq
      <3> QED BY <2>1, <3>2 DEF Sent
    <2>4. Count(<<>>, "Delta") = 0
      <3>1. {i \in DOMAIN <<>> : <<>>[i].kind = "Delta"} = {}
        OBVIOUS
      <3> QED BY <3>1, FS_EmptySet DEF Count
    <2>5. Account
      BY <2>1, <2>2, <2>3, <2>4 DEF Account
    <2> QED BY <2>1, <2>5 DEF Results
  <1> QED BY <1>1, Invariant, NextAccount, PTL DEF Spec

\* LlmClient::stream: the deltas that reach a caller are those of one attempt,
\* for any number of attempts and wherever they fail.
THEOREM DeltasNotRepeated == Spec => []DeltasOnce
  <1>1. Account /\ Results => DeltasOnce
    BY DEF Account, Results, Unlost, DeltasOnce
  <1> QED BY <1>1, AccountAlways, PTL

\* The caller of LlmClient::stream returns with the text of all deltas and
\* with every tool call in one piece, however its fragments are mixed with
\* those of other calls and whichever of them carry an id.
THEOREM AnswersWhole == Spec => []AnswerWhole
  <1>1. IInv /\ Account /\ Results => AnswerWhole
    <2> SUFFICES ASSUME IInv, Account, Results, pc = "over", result = "answer"
                 PROVE  /\ Last(received).kind = "Done"
                        /\ Last(received).content = read.content
                        /\ Count(received, "Delta") = read.content
                        /\ Last(received).calls = [i \in Index |-> Whole(Fragments(i))]
      BY DEF AnswerWhole
    <2>1. received # <<>> /\ Last(received).kind = "Done" /\ received \in Seq(Event)
      BY DEF Results, IInv, TypeOK
    <2>2. Len(received) \in DOMAIN received /\ Len(received) \in 1 .. Len(received)
      BY <2>1
    <2>3. ~OnlyText(received)
      BY <2>1, <2>2 DEF OnlyText, Text, Last
    <2>4. chan = <<>> /\ sending = Nothing
      BY <2>3 DEF IInv, SentSoFar
    <2>5. Sent = received
      BY <2>1, <2>4, ConcatEmptySeq DEF Sent
    <2>6. Last(received) = Done(read.content, accum)
      BY <2>1, <2>2, <2>5 DEF Account, Last
    <2>7. accum = [i \in Index |-> Whole(Fragments(i))] /\ Count(received, "Delta") = read.content
      BY <2>5 DEF Account, Unlost
    <2> QED BY <2>6, <2>7 DEF Done
  <1> QED BY <1>1, Invariant, AccountAlways, PTL
=============================================================================
