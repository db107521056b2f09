-------------------------- MODULE AgentLoopProofs --------------------------
(***************************************************************************)
(* For every ring size, every set of models and skills and every bound:    *)
(* the safety properties of AgentLoopProps.                                *)
(*                                                                         *)
(* IInv is the type invariant, the grammar of the log, the closed log      *)
(* between turns and the bound on the ring; to be inductive it adds what   *)
(* the checkpoint file holds (a closed log, so that a restart repairs      *)
(* nothing) and, for every place at which the turn awaits, the event the   *)
(* log ends with there.  JInv adds to it what the log leaves open, as      *)
(* events of one set after which none of another comes (Left): the calls   *)
(* that wait, the one that runs, the switches of model not announced.      *)
(* KInv adds to IInv that only the last step of a turn can have done       *)
(* nothing, which bounds the events between two messages and so what a     *)
(* compaction drops.                                                       *)
(***************************************************************************)
EXTENDS AgentLoopProps, SequenceLemmas

-----------------------------------------------------------------------------
(* Sequences of events                                                     *)

\* The event a log ends with
Final(evs) == evs[Len(evs)]

\* An event appended to a chained log may follow the log's last event.
Links(evs, e) == evs = <<>> \/ Follows(Final(evs), e)

\* Appending an event that may follow the last one keeps the log chained.
LEMMA AppendChained ==
    ASSUME NEW s \in Seq(Event), NEW e \in Event, Chained(s), Links(s, e)
    PROVE  /\ Append(s, e) \in Seq(Event)
           /\ Chained(Append(s, e))
           /\ Append(s, e) # <<>>
           /\ Final(Append(s, e)) = e
  BY SMTT(30) DEF Chained, Links, Final

\* What is left of a log when its oldest events are dropped is chained and
\* ends as the log did.
LEMMA SuffixChained ==
    ASSUME NEW s \in Seq(Event), Chained(s), NEW n \in 1 .. Len(s)
    PROVE  LET t == SubSeq(s, n, Len(s))
           IN  /\ t \in Seq(Event)
               /\ Chained(t)
               /\ Len(t) = Len(s) - n + 1
               /\ t # <<>>
               /\ Final(t) = Final(s)
  <1> DEFINE t == SubSeq(s, n, Len(s))
  <1>1. t \in Seq(Event) /\ Len(t) = Len(s) - n + 1 /\ t # <<>>
    <2>1. \A i \in n .. Len(s) : s[i] \in Event
      OBVIOUS
    <2>2. t \in Seq(Event) /\ Len(t) = Len(s) - n + 1
      BY <2>1, SubSeqProperties
    <2> HIDE DEF t
    <2> QED BY <2>2
  <1>2. \A i \in 1 .. Len(t) : t[i] = s[i + n - 1]
    <2>1. \A i \in n .. Len(s) : s[i] \in Event
      OBVIOUS
    <2>2. \A i \in 1 .. Len(s) - n + 1 : t[i] = s[n + i - 1]
      BY <2>1, SubSeqProperties
    <2> HIDE DEF t
    <2> QED BY <1>1, <2>2
  <1> HIDE DEF t
  <1>3. Chained(t)
    <2> SUFFICES ASSUME NEW i \in 1 .. Len(t) - 1
                 PROVE  Follows(t[i], t[i + 1])
      BY DEF Chained
    <2>1. i + n - 1 \in 1 .. Len(s) - 1 /\ i \in 1 .. Len(t) /\ i + 1 \in 1 .. Len(t)
      BY <1>1
    <2>2. t[i] = s[i + n - 1] /\ t[i + 1] = s[(i + n - 1) + 1]
      BY <1>1, <1>2, <2>1
    <2> QED BY <2>1, <2>2 DEF Chained
  <1>4. Final(t) = Final(s)
    BY <1>1, <1>2 DEF Final
  <1> QED BY <1>1, <1>3, <1>4 DEF t

\* Eviction keeps a log chained, keeps its end and makes it fit the ring.
LEMMA EvictChained ==
    ASSUME NEW s \in Seq(Event), Chained(s)
    PROVE  /\ Evict(s) \in Seq(Event)
           /\ Chained(Evict(s))
           /\ Len(Evict(s)) <= MaxInMemory
           /\ (s = <<>>) = (Evict(s) = <<>>)
           /\ s # <<>> => Final(Evict(s)) = Final(s)
  <1>1. CASE Len(s) > MaxInMemory
    <2> DEFINE n == Len(s) - MaxInMemory + 1
    <2>1. n \in 1 .. Len(s) /\ s # <<>>
      BY <1>1, RingAssumption
    <2>2. Evict(s) = SubSeq(s, n, Len(s))
      BY <1>1 DEF Evict
    <2> HIDE DEF n
    <2>3. /\ Evict(s) \in Seq(Event) /\ Chained(Evict(s))
          /\ Len(Evict(s)) = Len(s) - n + 1 /\ Evict(s) # <<>>
          /\ Final(Evict(s)) = Final(s)
      BY <2>1, <2>2, SuffixChained
    <2> QED BY <2>1, <2>3, RingAssumption DEF n
  <1>2. CASE ~(Len(s) > MaxInMemory)
    BY <1>2, RingAssumption DEF Evict
  <1> QED BY <1>1, <1>2

-----------------------------------------------------------------------------
(* Operations on logs                                                      *)

\* A log a turn may be run on
Good(l) == l \in Log /\ Chained(l.events)

\* Every event constructor yields an event.
LEMMA EventTypes ==
    /\ \A t \in Nat : TurnStart(t) \in Event
    /\ \A t \in Nat, r \in Reason : TurnEnd(t, r) \in Event
    /\ \A t \in Nat, s \in Nat :
          StepStart(t, s) \in Event /\ StepEnd(t, s) \in Event
    /\ \A m \in Model : RequestHeader(m) \in Event
    /\ \A w \in UserRole : UserMessage(w) \in Event
    /\ \A cs \in Seq(CallId) : AssistantMessage(cs) \in Event
    /\ \A c \in CallId : ToolCall(c) \in Event /\ ToolResult(c) \in Event
    /\ CompactionSummary \in Event
  BY DEF Event, TurnStart, TurnEnd, StepStart, StepEnd, RequestHeader,
         UserMessage, AssistantMessage, ToolCall, ToolResult, CompactionSummary

\* The ring after an eviction of an appended event
LEMMA PushGood ==
    ASSUME NEW s \in Seq(Event), NEW e \in Event, Chained(s), Links(s, e)
    PROVE  LET t == Evict(Append(s, e))
           IN  /\ t \in Seq(Event) /\ Chained(t)
               /\ Len(t) <= MaxInMemory
               /\ t # <<>> /\ Final(t) = e
  BY AppendChained, EvictChained, ZenonT(30)

\* append
LEMMA AppendGood ==
    ASSUME NEW l, Good(l), NEW e \in Event, Links(l.events, e)
    PROVE  LET r == AppendEvent(l, e)
           IN  /\ Good(r)
               /\ r.turn = l.turn /\ r.step = l.step
               /\ r.lastModel = l.lastModel
               /\ Len(r.events) <= MaxInMemory
               /\ r.events # <<>> /\ Final(r.events) = e
  <1> DEFINE t == Evict(Append(l.events, e))
  <1>1. l.events \in Seq(Event) /\ Chained(l.events)
    BY DEF Good, Log
  <1>2. /\ t \in Seq(Event) /\ Chained(t) /\ Len(t) <= MaxInMemory
        /\ t # <<>> /\ Final(t) = e
    BY <1>1, PushGood
  <1>3. AppendEvent(l, e) = [l EXCEPT !.events = t]
    BY DEF AppendEvent
  <1> HIDE DEF t
  <1> QED BY <1>2, <1>3 DEF Good, Log

\* begin_turn
LEMMA BeginTurnGood ==
    ASSUME NEW l, Good(l), Links(l.events, TurnStart(l.turn + 1))
    PROVE  LET r == BeginTurn(l)
           IN  /\ Good(r)
               /\ r.turn = l.turn + 1 /\ r.step = 0
               /\ r.lastModel = l.lastModel
               /\ r.events # <<>> /\ Final(r.events) = TurnStart(l.turn + 1)
               /\ Len(r.events) <= MaxInMemory
  <1> DEFINE e == TurnStart(l.turn + 1)
             t == Evict(Append(l.events, e))
  <1>1. l.events \in Seq(Event) /\ Chained(l.events) /\ l.turn + 1 \in Nat
    BY DEF Good, Log
  <1>2. e \in Event
    BY <1>1, EventTypes
  <1>3. /\ t \in Seq(Event) /\ Chained(t) /\ Len(t) <= MaxInMemory
        /\ t # <<>> /\ Final(t) = e
    BY <1>1, <1>2, PushGood
  <1>4. BeginTurn(l) = [l EXCEPT !.turn = l.turn + 1, !.step = 0, !.events = t]
    BY DEF BeginTurn
  <1> HIDE DEF t, e
  <1>b. BeginTurn(l) = [events |-> t, turn |-> l.turn + 1, step |-> 0,
                        lastModel |-> l.lastModel]
    BY <1>4 DEF Good, Log
  <1>5. BeginTurn(l) \in Log
    BY <1>1, <1>3, <1>b DEF Good, Log
  <1> QED BY <1>3, <1>b, <1>5 DEF Good, Log, e

\* begin_step
LEMMA BeginStepGood ==
    ASSUME NEW l, Good(l), Links(l.events, StepStart(l.turn, l.step + 1))
    PROVE  LET r == BeginStep(l)
           IN  /\ Good(r)
               /\ r.turn = l.turn /\ r.step = l.step + 1
               /\ r.events # <<>>
               /\ Final(r.events) = StepStart(l.turn, l.step + 1)
               /\ Len(r.events) <= MaxInMemory
  <1> DEFINE e == StepStart(l.turn, l.step + 1)
             t == Evict(Append(l.events, e))
  <1>1. /\ l.events \in Seq(Event) /\ Chained(l.events)
        /\ l.turn \in Nat /\ l.step + 1 \in Nat
    BY DEF Good, Log
  <1>2. e \in Event
    BY <1>1, EventTypes
  <1>3. /\ t \in Seq(Event) /\ Chained(t) /\ Len(t) <= MaxInMemory
        /\ t # <<>> /\ Final(t) = e
    BY <1>1, <1>2, PushGood
  <1>4. BeginStep(l) = [l EXCEPT !.step = l.step + 1, !.events = t]
    BY DEF BeginStep
  <1> HIDE DEF t, e
  <1>b. BeginStep(l) = [events |-> t, turn |-> l.turn, step |-> l.step + 1,
                        lastModel |-> l.lastModel]
    BY <1>4 DEF Good, Log
  <1>5. BeginStep(l) \in Log
    BY <1>1, <1>3, <1>b DEF Good, Log
  <1> QED BY <1>3, <1>b, <1>5 DEF Good, Log, e

\* What may follow what, in the words of the constructors
LEMMA FollowsFacts ==
    ASSUME NEW t, NEW s, NEW r, NEW m, NEW c, NEW cs, NEW e
    PROVE  /\ Follows(TurnStart(t), UserMessage("notice"))
           /\ Follows(TurnStart(t), RequestHeader(m))
           /\ Follows(UserMessage("notice"), RequestHeader(m))
           /\ Follows(RequestHeader(m), UserMessage("input"))
           /\ Follows(UserMessage("input"), StepStart(t, 1))
           /\ Follows(UserMessage("input"), TurnEnd(t, r))
           /\ Follows(StepEnd(t, s), StepStart(t, s + 1))
           /\ Follows(StepEnd(t, s), TurnEnd(t, r))
           /\ Follows(StepStart(t, s), UserMessage("guidance"))
           /\ Follows(StepStart(t, s), AssistantMessage(cs))
           /\ Follows(StepStart(t, s), ToolCall(c))
           /\ Follows(StepStart(t, s), StepEnd(t, s))
           /\ Follows(UserMessage("guidance"), AssistantMessage(cs))
           /\ Follows(UserMessage("guidance"), StepEnd(t, s))
           /\ Follows(ToolCall(c), ToolResult(c))
           /\ Follows(CompactionSummary, e)
           /\ e.kind = "TurnEnd" => Follows(e, TurnStart(t))
           /\ e.kind \in {"AssistantMessage", "ToolResult"} =>
                 Follows(e, ToolCall(c)) /\ Follows(e, StepEnd(t, s))
  BY DEF Follows, TurnStart, TurnEnd, StepStart, StepEnd, RequestHeader,
         UserMessage, AssistantMessage, ToolCall, ToolResult, CompactionSummary

\* t is s with a summary put after its k-th event.
Inserted(s, k, t) ==
    /\ k \in 1 .. Len(s) /\ t \in Seq(Event) /\ Len(t) = Len(s) + 1
    /\ \A i \in 1 .. k : t[i] = s[i]
    /\ t[k + 1] = CompactionSummary
    /\ \A i \in k + 2 .. Len(s) + 1 : t[i] = s[i - 1]

\* Where a compaction puts its summary
LEMMA CompactionShape ==
    ASSUME NEW l \in Log, NEW keep \in Nat, Len(l.events) > keep
    PROVE  LET r == ApplyCompaction(l, keep)
           IN  /\ r = [l EXCEPT !.events = r.events]
               /\ Inserted(l.events, Len(l.events) - keep, r.events)
  <1> DEFINE s == l.events
             k == Len(s) - keep
             a == SubSeq(s, 1, k)
             b == SubSeq(s, k + 1, Len(s))
             t == a \o <<CompactionSummary>> \o b
  <1>1. /\ s \in Seq(Event) /\ k \in 1 .. Len(s) /\ CompactionSummary \in Event
        /\ k = Len(s) - keep
    <2>1. s \in Seq(Event) /\ Len(s) \in Nat /\ Len(s) > keep
      BY DEF Log
    <2> QED BY <2>1, EventTypes
  <1>2. ApplyCompaction(l, keep) = [l EXCEPT !.events = t]
    BY DEF ApplyCompaction
  <1> HIDE DEF s, k
  <1>3. /\ a \in Seq(Event) /\ Len(a) = k
        /\ \A i \in 1 .. k : a[i] = s[i]
    <2>1. \A i \in 1 .. k : s[i] \in Event
      BY <1>1
    <2> QED BY <1>1, <2>1, SubSeqProperties
  <1>4. /\ b \in Seq(Event) /\ Len(b) = Len(s) - k
        /\ \A i \in 1 .. Len(s) - k : b[i] = s[k + i]
    <2>1. \A i \in k + 1 .. Len(s) : s[i] \in Event
      BY <1>1
    <2>2. \A i \in 1 .. Len(s) - (k + 1) + 1 : b[i] = s[(k + 1) + i - 1]
      BY <1>1, <2>1, SubSeqProperties
    <2>3. b \in Seq(Event) /\ Len(b) = IF k + 1 <= Len(s) THEN Len(s) - (k + 1) + 1 ELSE 0
      BY <1>1, <2>1, SubSeqProperties
    <2> HIDE DEF b
    <2> QED BY <1>1, <2>2, <2>3
  <1> HIDE DEF a, b
  <1>5. /\ t \in Seq(Event) /\ Len(t) = Len(s) + 1
        /\ \A i \in 1 .. k : t[i] = s[i]
        /\ t[k + 1] = CompactionSummary
        /\ \A i \in k + 2 .. Len(s) + 1 : t[i] = s[i - 1]
    <2> DEFINE c == a \o <<CompactionSummary>>
    <2>1. /\ c \in Seq(Event) /\ Len(c) = k + 1
          /\ \A i \in 1 .. k : c[i] = s[i]
          /\ c[k + 1] = CompactionSummary
      <3>1. <<CompactionSummary>> \in Seq(Event)
        BY <1>1
      <3>2. Len(<<CompactionSummary>>) = 1 /\ <<CompactionSummary>>[1] = CompactionSummary
        OBVIOUS
      <3> DEFINE d == <<CompactionSummary>>
      <3> HIDE DEF d
      <3>3. /\ a \o d \in Seq(Event) /\ Len(a \o d) = Len(a) + Len(d)
            /\ \A i \in 1 .. Len(a) + Len(d) :
                  (a \o d)[i] = IF i <= Len(a) THEN a[i] ELSE d[i - Len(a)]
        BY <1>3, <3>1, ConcatProperties DEF d
      <3>4. Len(a) = k /\ Len(d) = 1 /\ d[1] = CompactionSummary /\ k \in Nat
        BY <1>1, <1>3, <3>2 DEF d
      <3>5. c = a \o d
        BY DEF d
      <3> HIDE DEF c
      <3>6. \A i \in 1 .. k : c[i] = s[i]
        <4> TAKE i \in 1 .. k
        <4>1. i \in 1 .. Len(a) + Len(d) /\ i <= Len(a)
          BY <3>4
        <4> QED BY <1>3, <3>3, <3>5, <4>1
      <3>7. c[k + 1] = CompactionSummary
        <4>1. k + 1 \in 1 .. Len(a) + Len(d) /\ ~(k + 1 <= Len(a)) /\ (k + 1) - Len(a) = 1
          BY <3>4
        <4>2. c[k + 1] = d[(k + 1) - Len(a)]
          BY <3>3, <3>5, <4>1
        <4> QED BY <3>4, <4>1, <4>2
      <3> QED BY <3>3, <3>4, <3>5, <3>6, <3>7
    <2>2. t = c \o b
      OBVIOUS
    <2> HIDE DEF c, t
    <2>3. /\ t \in Seq(Event) /\ Len(t) = Len(c) + Len(b)
          /\ \A i \in 1 .. Len(c) + Len(b) :
                t[i] = IF i <= Len(c) THEN c[i] ELSE b[i - Len(c)]
      BY <1>4, <2>1, <2>2, ConcatProperties
    <2>4. \A i \in k + 2 .. Len(s) + 1 : t[i] = s[i - 1]
      <3> TAKE i \in k + 2 .. Len(s) + 1
      <3>0. Len(s) \in Nat /\ k \in Nat /\ Len(c) = k + 1 /\ Len(b) = Len(s) - k
        BY <1>1, <1>4, <2>1
      <3>b. i \in 1 .. Len(c) + Len(b) /\ ~(i <= Len(c))
        BY <3>0
      <3>1. t[i] = b[i - (k + 1)]
        BY <2>3, <3>0, <3>b
      <3>2. i - (k + 1) \in 1 .. Len(s) - k /\ k + (i - (k + 1)) = i - 1
        BY <1>1
      <3> QED BY <1>4, <3>1, <3>2
    <2>5. \A i \in 1 .. k + 1 : t[i] = c[i]
      <3> TAKE i \in 1 .. k + 1
      <3>1. Len(c) = k + 1 /\ Len(b) \in Nat /\ k \in Nat
        BY <1>1, <1>4, <2>1
      <3>2. i \in 1 .. Len(c) + Len(b) /\ i <= Len(c)
        BY <3>1
      <3> QED BY <2>3, <3>2
    <2>6. Len(t) = Len(s) + 1
      BY <1>1, <1>4, <2>1, <2>3
    <2>7. \A i \in 1 .. k : i \in 1 .. k + 1
      BY <1>1
    <2>8. k + 1 \in 1 .. k + 1
      BY <1>1
    <2> QED BY <2>1, <2>3, <2>4, <2>5, <2>6, <2>7, <2>8
  <1> HIDE DEF t
  <1>6. [l EXCEPT !.events = t].events = t
    BY DEF Log
  <1> QED BY <1>1, <1>2, <1>5, <1>6 DEF Inserted, s

\* A compaction inserts one event, keeps the log chained, and the log ends
\* as before or, when no event is kept, with the summary.
LEMMA CompactionGood ==
    ASSUME NEW l, Good(l), NEW keep \in Nat
    PROVE  LET r == ApplyCompaction(l, keep)
           IN  /\ Good(r)
               /\ Len(r.events) <= Len(l.events) + 1
               /\ r.turn = l.turn /\ r.step = l.step
               /\ l.events # <<>> =>
                     /\ r.events # <<>>
                     /\ \/ Final(r.events) = Final(l.events)
                        \/ Final(r.events) = CompactionSummary
  <1>1. CASE Len(l.events) <= keep
    BY <1>1 DEF ApplyCompaction, Good, Log
  <1>2. CASE ~(Len(l.events) <= keep)
    <2> DEFINE s == l.events
               k == Len(s) - keep
               t == ApplyCompaction(l, keep).events
    <2>1. s \in Seq(Event) /\ Chained(s) /\ l \in Log
      BY DEF Good, Log
    <2>2. ApplyCompaction(l, keep) = [l EXCEPT !.events = t] /\ Inserted(s, k, t)
      <3>1. Len(l.events) > keep
        BY <1>2 DEF Good, Log
      <3> QED BY <2>1, <3>1, CompactionShape
    <2> HIDE DEF s, k, t
    <2>5. /\ t \in Seq(Event) /\ Len(t) = Len(s) + 1 /\ k \in 1 .. Len(s)
          /\ \A i \in 1 .. k : t[i] = s[i]
          /\ t[k + 1] = CompactionSummary
          /\ \A i \in k + 2 .. Len(s) + 1 : t[i] = s[i - 1]
      BY <2>2 DEF Inserted
    <2>6. Chained(t)
      <3> SUFFICES ASSUME NEW i \in 1 .. Len(t) - 1
                   PROVE  Follows(t[i], t[i + 1])
        BY DEF Chained
      <3>1. CASE i + 1 <= k
        BY <2>1, <2>5, <3>1 DEF Chained
      <3>2. CASE i = k
        BY <2>1, <2>5, <3>2 DEF Follows, CompactionSummary
      <3>3. CASE i = k + 1
        BY <2>1, <2>5, <3>3 DEF Follows, CompactionSummary
      <3>4. CASE i > k + 1
        <4>1. t[i] = s[i - 1] /\ t[i + 1] = s[i] /\ i - 1 \in 1 .. Len(s) - 1
          BY <2>1, <2>5, <3>4
        <4>2. Follows(s[i - 1], s[(i - 1) + 1])
          BY <2>1, <4>1 DEF Chained
        <4> QED BY <4>1, <4>2
      <3>5. k \in Nat /\ i \in Nat
        BY <2>5
      <3> QED BY <3>1, <3>2, <3>3, <3>4, <3>5
    <2>7. t # <<>> /\ (Final(t) = Final(s) \/ Final(t) = CompactionSummary)
      BY <2>1, <2>5 DEF Final
    <2>8. [l EXCEPT !.events = t] \in Log
      BY <2>5 DEF Good, Log
    <2> QED BY <2>2, <2>5, <2>6, <2>7, <2>8 DEF Good, Log, s
  <1> QED BY <1>1, <1>2

\* A log with nothing after the end of a turn
Ended(evs) == evs = <<>> \/ Final(evs).kind = "TurnEnd"

\* Such a log has no open turn.
LEMMA EndedNotOpen ==
    ASSUME NEW evs \in Seq(Event), Ended(evs)
    PROVE  ~TurnOpen(evs)
  <1>1. CASE evs = <<>>
    BY <1>1 DEF TurnOpen, OfKind
  <1>2. CASE evs # <<>>
    <2>1. Len(evs) \in OfKind(evs, {"TurnEnd"})
      BY <1>2 DEF OfKind, Ended, Final
    <2> QED BY <2>1 DEF TurnOpen, OfKind
  <1> QED BY <1>1, <1>2

\* Loading a closed log repairs nothing: it only evicts.
LEMMA LoadGood ==
    ASSUME NEW l, Good(l), Ended(l.events)
    PROVE  /\ Good(Load(l)) /\ Ended(Load(l).events)
           /\ Len(Load(l).events) <= MaxInMemory
  <1> DEFINE t == Evict(l.events)
             r == [l EXCEPT !.events = t]
  <1>1. l.events \in Seq(Event) /\ Chained(l.events)
    BY DEF Good, Log
  <1>2. t \in Seq(Event) /\ Chained(t) /\ Len(t) <= MaxInMemory /\ Ended(t)
    BY <1>1, EvictChained DEF Ended
  <1> HIDE DEF t
  <1>3. r \in Log /\ r.events = t
    BY <1>2 DEF Good, Log
  <1>4. Load(l) = Repair(r)
    BY DEF Load, t
  <1>5. ~TurnOpen(r.events)
    BY <1>2, <1>3, EndedNotOpen
  <1>6. Repair(r) = r
    BY <1>5 DEF Repair
  <1> QED BY <1>2, <1>3, <1>4, <1>6 DEF Good

\* end_step, then end_turn
LEMMA CloseGood ==
    ASSUME NEW l, Good(l), NEW r \in Reason,
           Links(l.events, StepEnd(l.turn, l.step))
    PROVE  LET c == EndTurn(EndStep(l), r)
           IN  Good(c) /\ Ended(c.events) /\ Len(c.events) <= MaxInMemory
  <1> DEFINE d == EndStep(l)
             c == EndTurn(d, r)
  <1>1. l.turn \in Nat /\ l.step \in Nat
    BY DEF Good, Log
  <1>2. /\ Good(d) /\ d.turn = l.turn
        /\ d.events # <<>> /\ Final(d.events) = StepEnd(l.turn, l.step)
    BY <1>1, EventTypes, AppendGood DEF EndStep
  <1> HIDE DEF d
  <1>3. Links(d.events, TurnEnd(d.turn, r)) /\ TurnEnd(d.turn, r) \in Event
    BY <1>1, <1>2, EventTypes, FollowsFacts DEF Links
  <1>4. /\ Good(c) /\ Len(c.events) <= MaxInMemory
        /\ c.events # <<>> /\ Final(c.events) = TurnEnd(d.turn, r)
    BY <1>2, <1>3, AppendGood DEF EndTurn
  <1> QED BY <1>4 DEF Ended, TurnEnd, d

-----------------------------------------------------------------------------
(* The inductive invariant                                                 *)

\* The event the log ends with wherever the turn awaits
Awaits ==
    LET e == Final(log.events)
        here == StepStart(log.turn, log.step)
    IN  /\ pc \in Running => log.events # <<>>
        /\ pc = "top" => \/ e = UserMessage("input") /\ log.step = 0
                         \/ e = StepEnd(log.turn, log.step)
        /\ pc \in {"pre", "judge"} => e = here
        /\ pc \in {"pre", "compacting"} => Len(log.events) <= MaxInMemory
        /\ pc = "compacting" => e \in {here, UserMessage("guidance")}
        /\ pc = "stream" =>
              e \in {here, UserMessage("guidance"), CompactionSummary}
        /\ pc \in {"tools", "post"} =>
              e.kind \in {"AssistantMessage", "ToolResult"}
        /\ pc = "tool" => pending # <<>> /\ e = ToolCall(Head(pending))
        /\ pc = "forcedTool" => e = ToolCall(<<"wf", current>>)

\* What a restart finds
FlashClosed == Chained(flash.events) /\ Ended(flash.events)

IInv == TypeOK /\ LogChained /\ IdleClosed /\ RingBound /\ Awaits /\ FlashClosed

\* The constants' ranges in the form the steps use
LEMMA Ranges == Skills \subseteq Skill /\ MaxTurns \in Nat /\ MaxCalls \in Nat
                /\ KeepRecent * 6 \in Nat
  BY SkillsAssumption, BoundsAssumption

\* The closing steps: the turn ends and the log with it.
LEMMA Returned ==
    ASSUME TypeOK, FlashClosed, UNCHANGED <<flash, skill, model, cancelled,
                                stream, pending, turnsLeft, callsMade>>,
           pc' = "returned", Good(log'), Ended(log'.events),
           Len(log'.events) <= MaxInMemory,
           current' \in Nat,
           outcome' \in [error : {"none", "tool", "llm", "cancelled"},
                         tools : BOOLEAN]
    PROVE  IInv'
  <1>1. Len(log'.events) <= MaxInMemory + 1
    <2>1. Len(log'.events) \in Nat
      BY DEF Good, Log
    <2> QED BY <2>1, RingAssumption
  <1>2. TypeOK'
    BY DEF TypeOK, Good
  <1>3. LogChained' /\ IdleClosed' /\ RingBound' /\ FlashClosed'
    BY <1>1 DEF LogChained, IdleClosed, RingBound, FlashClosed, Good, Ended,
                Final, LastEvent
  <1>4. Awaits'
    BY DEF Awaits, Running
  <1> QED BY <1>2, <1>3, <1>4 DEF IInv

\* A step inside a turn: what is left to show is where the log ends.
LEMMA Continues ==
    ASSUME FlashClosed, flash' = flash, Good(log'),
           Len(log'.events) <= MaxInMemory + 1,
           pc' \in Running, TypeOK', Awaits'
    PROVE  IInv'
  BY DEF IInv, LogChained, IdleClosed, RingBound, FlashClosed, Good, Running

\* What the log invariant gives for the log at hand
LEMMA LogFacts ==
    ASSUME IInv
    PROVE  /\ Good(log) /\ log.turn \in Nat /\ log.step \in Nat
           /\ Len(log.events) \in Nat
           /\ Good(flash) /\ Ended(flash.events)
           /\ pc \in {"idle", "returned"} => Ended(log.events)
  BY DEF IInv, TypeOK, LogChained, IdleClosed, FlashClosed, Good, Log, Ended,
         Final, LastEvent

\* The initial state satisfies the inductive invariant.
THEOREM InitOK == Init => IInv
  <1> SUFFICES ASSUME Init PROVE IInv
    OBVIOUS
  <1>1. NewLog \in Log /\ NewLog.events = <<>>
    BY DEF NewLog, Log
  <1>2. TypeOK
    <2>1. NoSkill \in Skill
      BY DEF NoSkill, Skill
    <2>2. NoStream \in [content : BOOLEAN, calls : Seq(CallId),
                        fin : {"open", "done", "error"}]
      BY DEF NoStream
    <2>3. NoOutcome \in [error : {"none", "tool", "llm", "cancelled"},
                         tools : BOOLEAN]
      BY DEF NoOutcome
    <2>4. <<>> \in Seq(CallId) /\ MaxTurns \in 0 .. MaxTurns /\ 0 \in 0 .. MaxCalls
      BY Ranges
    <2> QED BY <1>1, <2>1, <2>2, <2>3, <2>4 DEF Init, TypeOK
  <1>3. LogChained /\ IdleClosed /\ RingBound /\ FlashClosed /\ Awaits
    BY <1>1, RingAssumption
    DEF Init, LogChained, IdleClosed, RingBound, FlashClosed, Awaits, Chained,
        Ended, Running
  <1> QED BY <1>2, <1>3 DEF IInv

\* run_turn up to its loop
LEMMA StartTurnOK ==
    ASSUME IInv, NEW m \in Model, NEW k \in Skills, StartTurn(m, k)
    PROVE  IInv'
  <1>1. /\ Good(log) /\ Ended(log.events) /\ pc = "idle"
    BY LogFacts DEF StartTurn
  <1> DEFINE a == BeginTurn(log)
             b == IF ModelSwitched(log, m)
                  THEN AppendEvent(a, UserMessage("notice")) ELSE a
             c == AppendEvent(b, RequestHeader(m))
             d == SetLastModel(c, m)
             e == AppendEvent(d, UserMessage("input"))
  <1>2. /\ Good(a) /\ a.step = 0 /\ a.events # <<>>
        /\ Final(a.events) = TurnStart(log.turn + 1)
    <2>1. Links(log.events, TurnStart(log.turn + 1))
      BY <1>1, FollowsFacts DEF Links, Ended
    <2> QED BY <1>1, <2>1, BeginTurnGood
  <1> HIDE DEF a
  <1>3. /\ Good(b) /\ b.step = 0 /\ b.events # <<>>
        /\ Final(b.events) \in {TurnStart(log.turn + 1), UserMessage("notice")}
    <2>1. Links(a.events, UserMessage("notice")) /\ UserMessage("notice") \in Event
      BY <1>2, FollowsFacts, EventTypes DEF Links, UserRole
    <2> QED BY <1>2, <2>1, AppendGood
  <1> HIDE DEF b
  <1>4. /\ Good(c) /\ c.step = 0 /\ c.events # <<>>
        /\ Final(c.events) = RequestHeader(m)
    <2>1. Links(b.events, RequestHeader(m)) /\ RequestHeader(m) \in Event
      BY <1>3, FollowsFacts, EventTypes DEF Links
    <2> QED BY <1>3, <2>1, AppendGood
  <1> HIDE DEF c
  <1>5. /\ Good(d) /\ d.step = 0 /\ d.events = c.events
    BY <1>4 DEF Good, Log, SetLastModel
  <1> HIDE DEF d
  <1>6. /\ Good(e) /\ e.step = 0 /\ e.events # <<>>
        /\ Final(e.events) = UserMessage("input")
        /\ Len(e.events) <= MaxInMemory
    <2>1. Links(d.events, UserMessage("input")) /\ UserMessage("input") \in Event
      BY <1>4, <1>5, FollowsFacts, EventTypes DEF Links, UserRole
    <2> QED BY <1>5, <2>1, AppendGood
  <1>7. log' = e
    BY DEF StartTurn, OpenTurn, a, b, c, d
  <1> HIDE DEF e
  <1>8. TypeOK'
    <2>1. turnsLeft - 1 \in 0 .. MaxTurns
      BY Ranges DEF StartTurn, IInv, TypeOK
    <2> QED BY <1>6, <1>7, <2>1, Ranges
            DEF StartTurn, IInv, TypeOK, Good, Running, NoOutcome
  <1>9. Awaits'
    BY <1>6, <1>7 DEF StartTurn, Awaits, Running
  <1>10. Len(log'.events) <= MaxInMemory + 1
    BY <1>6, <1>7, RingAssumption DEF Good, Log
  <1> QED BY <1>6, <1>7, <1>8, <1>9, <1>10, Continues
          DEF StartTurn, IInv, Running

\* A step begins after the user's input or after the step before.
LEMMA EnterStepOK ==
    ASSUME IInv, EnterStep
    PROVE  IInv'
  <1> DEFINE here == StepStart(log.turn, log.step + 1)
  <1>1. Links(log.events, here)
    <2>1. CASE Final(log.events) = UserMessage("input") /\ log.step = 0
      <3>1. here = StepStart(log.turn, 1)
        BY <2>1
      <3> QED BY <2>1, <3>1, FollowsFacts DEF Links
    <2>2. CASE Final(log.events) = StepEnd(log.turn, log.step)
      BY <2>2, FollowsFacts DEF Links
    <2> QED BY <2>1, <2>2 DEF IInv, Awaits, EnterStep
  <1>2. /\ Good(log') /\ log'.turn = log.turn /\ log'.step = log.step + 1
        /\ log'.events # <<>> /\ Final(log'.events) = here
        /\ Len(log'.events) <= MaxInMemory
    BY <1>1, LogFacts, BeginStepGood DEF EnterStep
  <1>3. TypeOK'
    <2>1. NoStream \in [content : BOOLEAN, calls : Seq(CallId),
                        fin : {"open", "done", "error"}]
      BY DEF NoStream
    <2>2. NoOutcome \in [error : {"none", "tool", "llm", "cancelled"},
                         tools : BOOLEAN]
      BY DEF NoOutcome
    <2> QED BY <1>2, <2>1, <2>2
            DEF EnterStep, IInv, TypeOK, Good, Running, turnVars
  <1>4. Awaits'
    BY <1>2 DEF EnterStep, Awaits, Running
  <1>5. Len(log'.events) <= MaxInMemory + 1
    BY <1>2, RingAssumption DEF Good, Log
  <1> QED BY <1>2, <1>3, <1>4, <1>5, Continues DEF EnterStep, IInv, Running

\* The turn is cancelled before its next step: it ends after its user message
\* or after its latest step.
LEMMA AbortAtTopOK ==
    ASSUME IInv, AbortAtTop
    PROVE  IInv'
  <1>1. /\ Links(log.events, TurnEnd(log.turn, "Aborted"))
        /\ TurnEnd(log.turn, "Aborted") \in Event
    BY LogFacts, FollowsFacts, EventTypes
    DEF IInv, Awaits, AbortAtTop, Links, Reason
  <1>2. /\ Good(log') /\ Ended(log'.events)
        /\ Len(log'.events) <= MaxInMemory
    BY <1>1, LogFacts, AppendGood DEF AbortAtTop, EndTurn, Ended, TurnEnd
  <1> QED BY <1>2, Returned DEF AbortAtTop, IInv, TypeOK, turnVars, NoOutcome

\* A hook stops the turn before the step's work.
LEMMA StopBeforeStepOK ==
    ASSUME IInv, StopBeforeStep
    PROVE  IInv'
  <1>1. Links(log.events, StepEnd(log.turn, log.step))
    BY FollowsFacts DEF IInv, Awaits, StopBeforeStep, Links
  <1>2. /\ Good(log') /\ Ended(log'.events)
        /\ Len(log'.events) <= MaxInMemory
    BY <1>1, LogFacts, CloseGood DEF StopBeforeStep, Reason
  <1>3. current' \in Nat
    BY DEF StopBeforeStep, IInv, TypeOK, Skill
  <1> QED BY <1>2, <1>3, Returned DEF StopBeforeStep, IInv, TypeOK

\* An error ends the step and the turn wherever the step's log may end.
LEMMA FailStepOK ==
    ASSUME IInv, NEW l, Good(l), Links(l.events, StepEnd(l.turn, l.step)),
           NEW why \in {"llm", "cancelled"}, FailStep(l, why),
           UNCHANGED <<flash, turnVars, cancelled, stream, pending,
                       turnsLeft, callsMade>>
    PROVE  IInv'
  <1>1. /\ Good(log') /\ Ended(log'.events)
        /\ Len(log'.events) <= MaxInMemory
    BY CloseGood DEF FailStep, Reason
  <1> QED BY <1>1, Returned DEF FailStep, IInv, TypeOK, turnVars

\* A plan step goes on to its context.
LEMMA PlanProceedOK ==
    ASSUME IInv, PlanProceed
    PROVE  IInv'
  <1>1. log' = log /\ pc' \in {"compacting", "stream"}
    BY DEF PlanProceed, OpenContext
  <1>2. TypeOK'
    BY <1>1 DEF PlanProceed, IInv, TypeOK, Running, turnVars
  <1>3. Awaits'
    BY <1>1 DEF PlanProceed, IInv, Awaits, Running
  <1> QED BY <1>1, <1>2, <1>3, LogFacts, Continues
          DEF PlanProceed, IInv, RingBound, Running

\* A todo step logs its guidance first.
LEMMA TodoProceedOK ==
    ASSUME IInv, TodoProceed
    PROVE  IInv'
  <1> DEFINE u == UserMessage("guidance")
  <1>1. log' = AppendEvent(log, u) /\ pc' \in {"compacting", "stream"}
    BY DEF TodoProceed, OpenContext
  <1>2. u \in Event /\ Links(log.events, u)
    BY EventTypes, FollowsFacts
    DEF IInv, Awaits, TodoProceed, Links, UserRole
  <1> HIDE DEF u
  <1>3. /\ Good(log') /\ log'.events # <<>> /\ Final(log'.events) = u
        /\ Len(log'.events) <= MaxInMemory
    BY <1>1, <1>2, LogFacts, AppendGood
  <1>4. TypeOK'
    BY <1>1, <1>3 DEF TodoProceed, IInv, TypeOK, Good, Running, turnVars
  <1>5. Awaits'
    BY <1>1, <1>3 DEF Awaits, Running, u
  <1>6. Len(log'.events) <= MaxInMemory + 1
    BY <1>3, RingAssumption DEF Good, Log
  <1> QED BY <1>1, <1>3, <1>4, <1>5, <1>6, Continues
          DEF TodoProceed, IInv, Running

\* Why the ring may hold one event more than its capacity, and no more: a
\* compaction comes after an append of the same step.
LEMMA CompactedOK ==
    ASSUME IInv, Compacted
    PROVE  IInv'
  <1>1. CASE log' = log
    <2>1. TypeOK'
      BY <1>1 DEF Compacted, IInv, TypeOK, Running, turnVars
    <2>2. Awaits'
      BY <1>1 DEF Compacted, IInv, Awaits, Running
    <2> QED BY <1>1, <2>1, <2>2, LogFacts, Continues
            DEF Compacted, IInv, RingBound, Running
  <1>2. CASE log' = ApplyCompaction(log, KeepRecent * 6)
    <2>1. /\ Good(log') /\ log'.turn = log.turn /\ log'.step = log.step
          /\ Len(log'.events) <= Len(log.events) + 1
          /\ log.events # <<>> => /\ log'.events # <<>>
                                  /\ \/ Final(log'.events) = Final(log.events)
                                     \/ Final(log'.events) = CompactionSummary
      BY <1>2, LogFacts, Ranges, CompactionGood
    <2>2. log.events # <<>> /\ Len(log.events) <= MaxInMemory
      BY DEF Compacted, IInv, Awaits, Running
    <2>3. Len(log'.events) <= MaxInMemory + 1
      <3>1. Len(log'.events) \in Nat
        BY <2>1 DEF Good, Log
      <3> QED BY <2>1, <2>2, <3>1, LogFacts, RingAssumption
    <2>4. TypeOK'
      BY <2>1 DEF Compacted, IInv, TypeOK, Good, Running, turnVars
    <2>5. Awaits'
      BY <2>1, <2>2 DEF Compacted, IInv, Awaits, Running
    <2> QED BY <2>1, <2>3, <2>4, <2>5, Continues DEF Compacted, IInv, Running
  <1> QED BY <1>1, <1>2 DEF Compacted

\* Steps that leave the log, the place and what the place depends on alone
LEMMA StaysOK ==
    ASSUME IInv, UNCHANGED <<log, flash, pc, current, pending>>, TypeOK'
    PROVE  IInv'
  BY DEF IInv, LogChained, IdleClosed, LastEvent, RingBound, Awaits, FlashClosed

\* Events of the stream touch neither the log nor the place in it.
LEMMA StreamEventOK ==
    ASSUME IInv, RecvDelta \/ RecvDone \/ RecvError
    PROVE  IInv'
  <1>1. CASE RecvDelta
    <2>1. TypeOK'
      BY <1>1 DEF RecvDelta, IInv, TypeOK, turnVars
    <2> QED BY <1>1, <2>1, StaysOK DEF RecvDelta, turnVars
  <1>2. CASE RecvDone
    <2>1. PICK n \in 0 .. MaxBatch :
             /\ callsMade + n <= MaxCalls
             /\ stream' = [stream EXCEPT !.fin = "done",
                             !.calls = [i \in 1 .. n |-> <<"llm", callsMade + i>>]]
             /\ callsMade' = callsMade + n
      BY <1>2 DEF RecvDone
    <2>2. n \in Nat /\ callsMade \in Nat
      BY BoundsAssumption DEF IInv, TypeOK
    <2>3. \A i \in 1 .. n : <<"llm", callsMade + i>> \in CallId
      BY <2>2 DEF CallId
    <2>4. [i \in 1 .. n |-> <<"llm", callsMade + i>>] \in Seq(CallId)
      BY <2>2, <2>3
    <2>5. stream' \in [content : BOOLEAN, calls : Seq(CallId),
                       fin : {"open", "done", "error"}]
      BY <2>1, <2>4 DEF IInv, TypeOK
    <2>6. callsMade' \in 0 .. MaxCalls
      BY <2>1, <2>2, Ranges
    <2>7. TypeOK'
      BY <1>2, <2>5, <2>6 DEF RecvDone, IInv, TypeOK, turnVars
    <2> QED BY <1>2, <2>7, StaysOK DEF RecvDone, turnVars
  <1>3. CASE RecvError
    <2>1. TypeOK'
      BY <1>3 DEF RecvError, IInv, TypeOK, turnVars
    <2> QED BY <1>3, <2>1, StaysOK DEF RecvError, turnVars
  <1> QED BY <1>1, <1>2, <1>3

\* The user's cancellation: nothing but the channel changes.
LEMMA CancelOK ==
    ASSUME IInv, Cancel
    PROVE  IInv'
  <1>1. TypeOK'
    BY DEF Cancel, IInv, TypeOK, turnVars
  <1> QED BY <1>1, StaysOK DEF Cancel, turnVars

\* A cancelled stream records its text and fails the step.
LEMMA RecvCancelledOK ==
    ASSUME IInv, RecvCancelled
    PROVE  IInv'
  <1> DEFINE a == AssistantMessage(<<>>)
             l == IF stream.content THEN AppendEvent(log, a) ELSE log
  <1>1. a \in Event /\ Links(log.events, a)
    <2>1. <<>> \in Seq(CallId)
      OBVIOUS
    <2> QED BY <2>1, EventTypes, FollowsFacts
            DEF IInv, Awaits, RecvCancelled, Links
  <1>2. Good(l) /\ Links(l.events, StepEnd(l.turn, l.step))
    <2>1. CASE stream.content
      <3>1. /\ Good(l) /\ Final(l.events) = a
        BY <1>1, <2>1, LogFacts, AppendGood
      <3> QED BY <3>1, FollowsFacts DEF Links, AssistantMessage
    <2>2. CASE ~stream.content
      BY <2>2, LogFacts, FollowsFacts DEF IInv, Awaits, RecvCancelled, Links
    <2> QED BY <2>1, <2>2
  <1>3. FailStep(l, "cancelled")
    BY DEF RecvCancelled
  <1> HIDE DEF l
  <1> QED BY <1>2, <1>3, FailStepOK DEF RecvCancelled

\* A failed stream fails the step.
LEMMA StreamFailedOK ==
    ASSUME IInv, StreamFailed
    PROVE  IInv'
  <1>1. Links(log.events, StepEnd(log.turn, log.step))
    BY FollowsFacts DEF IInv, Awaits, StreamFailed, Links
  <1> QED BY <1>1, LogFacts, FailStepOK DEF StreamFailed

\* A failed judgement fails the step.
LEMMA JudgeFailedOK ==
    ASSUME IInv, JudgeFailed
    PROVE  IInv'
  <1>1. Links(log.events, StepEnd(log.turn, log.step))
    BY FollowsFacts DEF IInv, Awaits, JudgeFailed, Links
  <1> QED BY <1>1, LogFacts, FailStepOK DEF JudgeFailed

\* A step that appends one event and stays in the turn
LEMMA AppendsOK ==
    ASSUME IInv, NEW e \in Event, Links(log.events, e),
           log' = AppendEvent(log, e), flash' = flash, pc' \in Running,
           skill' \in Skill, current' \in Nat, model' = model,
           cancelled' = cancelled, stream' = stream,
           pending' \in Seq(CallId),
           outcome' \in [error : {"none", "tool", "llm", "cancelled"},
                         tools : BOOLEAN],
           turnsLeft' = turnsLeft, callsMade' = callsMade,
           Final(log'.events) = e /\ log'.events # <<>> /\ log'.turn = log.turn
              /\ log'.step = log.step => Awaits'
    PROVE  IInv'
  <1>1. /\ Good(log') /\ log'.turn = log.turn /\ log'.step = log.step
        /\ log'.events # <<>> /\ Final(log'.events) = e
        /\ Len(log'.events) <= MaxInMemory
    BY LogFacts, AppendGood
  <1>2. Len(log'.events) <= MaxInMemory + 1
    BY <1>1, RingAssumption DEF Good, Log
  <1>3. TypeOK'
    BY <1>1 DEF IInv, TypeOK, Good
  <1> QED BY <1>1, <1>2, <1>3, Continues DEF IInv

\* The end of the stream appends the assistant message.
LEMMA StreamClosedOK ==
    ASSUME IInv, StreamClosed
    PROVE  IInv'
  <1> DEFINE e == AssistantMessage(stream.calls)
  <1>1. stream.calls \in Seq(CallId)
    BY DEF IInv, TypeOK
  <1>2. e \in Event /\ e.kind = "AssistantMessage"
    BY <1>1, EventTypes DEF AssistantMessage
  <1>3. Links(log.events, e)
    BY FollowsFacts DEF IInv, Awaits, StreamClosed, Links
  <1>4. log' = AppendEvent(log, e)
    BY DEF StreamClosed
  <1> HIDE DEF e
  <1>5. Final(log'.events) = e /\ log'.events # <<>> => Awaits'
    BY <1>2 DEF StreamClosed, Awaits, Running
  <1>6. outcome' \in [error : {"none", "tool", "llm", "cancelled"},
                      tools : BOOLEAN]
    BY DEF StreamClosed
  <1> QED BY <1>1, <1>2, <1>3, <1>4, <1>5, <1>6, AppendsOK
          DEF StreamClosed, IInv, TypeOK, Running, turnVars

\* A tool call is appended after the message or another result.
LEMMA BeginToolOK ==
    ASSUME IInv, BeginTool
    PROVE  IInv'
  <1> DEFINE e == ToolCall(Head(pending))
  <1>1. Head(pending) \in CallId
    BY DEF IInv, TypeOK, BeginTool
  <1>2. e \in Event /\ Links(log.events, e)
    BY <1>1, EventTypes, FollowsFacts DEF IInv, Awaits, BeginTool, Links
  <1>3. log' = AppendEvent(log, e)
    BY DEF BeginTool
  <1>4. Final(log'.events) = e /\ log'.events # <<>> => Awaits'
    BY DEF BeginTool, Awaits, Running
  <1> HIDE DEF e
  <1> QED BY <1>2, <1>3, <1>4, AppendsOK
          DEF BeginTool, IInv, TypeOK, Running, turnVars

\* The result is appended right after its call.
LEMMA EndToolOK ==
    ASSUME IInv, EndTool
    PROVE  IInv'
  <1> DEFINE e == ToolResult(Head(pending))
  <1>1. /\ pending # <<>> /\ pending \in Seq(CallId)
        /\ Final(log.events) = ToolCall(Head(pending))
    BY DEF IInv, TypeOK, Awaits, EndTool
  <1>2. Head(pending) \in CallId /\ Tail(pending) \in Seq(CallId)
    BY <1>1
  <1>3. /\ e \in Event /\ Links(log.events, e)
        /\ e.kind = "ToolResult"
    BY <1>1, <1>2, EventTypes, FollowsFacts DEF Links, ToolResult
  <1>4. log' = AppendEvent(log, e)
    BY DEF EndTool
  <1> HIDE DEF e
  <1>5. Final(log'.events) = e /\ log'.events # <<>> => Awaits'
    BY <1>3 DEF EndTool, Awaits, Running
  <1> QED BY <1>2, <1>3, <1>4, <1>5, AppendsOK
          DEF EndTool, IInv, TypeOK, Running, turnVars

\* A workflow step forces a call.
LEMMA ForceToolOK ==
    ASSUME IInv, ForceTool
    PROVE  IInv'
  <1>1. PICK i \in 0 .. Len(skill.steps) - 1 :
           current' = i /\ log' = AppendEvent(log, ToolCall(<<"wf", i>>))
    BY DEF ForceTool
  <1> DEFINE e == ToolCall(<<"wf", i>>)
  <1>2. i \in Nat /\ <<"wf", i>> \in CallId
    BY DEF IInv, TypeOK, Skill, CallId
  <1>3. e \in Event /\ Links(log.events, e)
    BY <1>2, EventTypes, FollowsFacts DEF IInv, Awaits, ForceTool, Links
  <1>4. Final(log'.events) = e /\ log'.events # <<>> => Awaits'
    BY <1>1 DEF ForceTool, Awaits, Running
  <1> HIDE DEF e
  <1>5. log' = AppendEvent(log, e)
    BY <1>1 DEF e
  <1> QED BY <1>1, <1>2, <1>3, <1>4, <1>5, AppendsOK
          DEF ForceTool, IInv, TypeOK, Running, turnVars

\* A workflow step forces a judgement.
LEMMA ForceLlmOK ==
    ASSUME IInv, ForceLlm
    PROVE  IInv'
  <1>1. PICK i \in 0 .. Len(skill.steps) - 1 : current' = i
    BY DEF ForceLlm
  <1>2. current' \in Nat
    BY <1>1
  <1>3. TypeOK'
    BY <1>2 DEF ForceLlm, IInv, TypeOK, Running
  <1>4. Awaits'
    BY DEF ForceLlm, IInv, Awaits, Running
  <1> QED BY <1>3, <1>4, LogFacts, Continues
          DEF ForceLlm, IInv, RingBound, Running

\* A forced call is answered.
LEMMA EndForcedToolOK ==
    ASSUME IInv, EndForcedTool
    PROVE  IInv'
  <1> DEFINE e == ToolResult(<<"wf", current>>)
  <1>1. <<"wf", current>> \in CallId
    BY DEF IInv, TypeOK, CallId
  <1>2. /\ e \in Event /\ Links(log.events, e)
        /\ e.kind = "ToolResult"
    BY <1>1, EventTypes, FollowsFacts
    DEF IInv, Awaits, EndForcedTool, Links, ToolResult
  <1>3. log' = AppendEvent(log, e)
    BY DEF EndForcedTool
  <1> HIDE DEF e
  <1>4. Final(log'.events) = e /\ log'.events # <<>> => Awaits'
    BY <1>2 DEF EndForcedTool, Awaits, Running
  <1>5. outcome' \in [error : {"none", "tool", "llm", "cancelled"},
                      tools : BOOLEAN]
    BY DEF EndForcedTool
  <1> QED BY <1>2, <1>3, <1>4, <1>5, AppendsOK
          DEF EndForcedTool, IInv, TypeOK, Running, turnVars

\* A judgement is recorded.
LEMMA JudgeAnsweredOK ==
    ASSUME IInv, JudgeAnswered
    PROVE  IInv'
  <1> DEFINE e == AssistantMessage(<<>>)
  <1>1. <<>> \in Seq(CallId)
    OBVIOUS
  <1>2. /\ e \in Event /\ Links(log.events, e)
        /\ e.kind = "AssistantMessage"
    BY <1>1, EventTypes, FollowsFacts
    DEF IInv, Awaits, JudgeAnswered, Links, AssistantMessage
  <1>3. log' = AppendEvent(log, e)
    BY DEF JudgeAnswered
  <1> HIDE DEF e
  <1>4. Final(log'.events) = e /\ log'.events # <<>> => Awaits'
    BY <1>2 DEF JudgeAnswered, Awaits, Running
  <1>5. NoOutcome \in [error : {"none", "tool", "llm", "cancelled"},
                       tools : BOOLEAN]
    BY DEF NoOutcome
  <1> QED BY <1>2, <1>3, <1>4, <1>5, AppendsOK
          DEF JudgeAnswered, IInv, TypeOK, Running, turnVars

-----------------------------------------------------------------------------
(* The end of a step                                                       *)

\* Where a step's work is over, its end may follow.
LEMMA StepEndLinks ==
    ASSUME IInv, StepDone
    PROVE  Links(log.events, StepEnd(log.turn, log.step))
  BY FollowsFacts DEF IInv, Awaits, StepDone, Links

\* The hook's index after a step
LEMMA CurrentNat ==
    ASSUME IInv
    PROVE  (IF skill.mode = "plan" THEN current ELSE current + 1) \in Nat
  BY DEF IInv, TypeOK

\* The step ends and the turn goes on.
LEMMA NextStepOK ==
    ASSUME IInv, NextStep
    PROVE  IInv'
  <1> DEFINE e == StepEnd(log.turn, log.step)
  <1>1. e \in Event /\ Links(log.events, e)
    BY StepEndLinks, EventTypes, LogFacts DEF NextStep
  <1>2. log' = AppendEvent(log, e)
    BY DEF NextStep, EndStep
  <1>3. Final(log'.events) = e /\ log'.events # <<>> /\ log'.turn = log.turn
           /\ log'.step = log.step => Awaits'
    BY DEF NextStep, Awaits, Running
  <1> HIDE DEF e
  <1> QED BY <1>1, <1>2, <1>3, CurrentNat, AppendsOK
          DEF NextStep, IInv, TypeOK, Running

\* The step and the turn end.
LEMMA StopAfterStepOK ==
    ASSUME IInv, StopAfterStep
    PROVE  IInv'
  <1>1. /\ Good(log') /\ Ended(log'.events)
        /\ Len(log'.events) <= MaxInMemory
    BY StepEndLinks, LogFacts, CloseGood DEF StopAfterStep, Reason
  <1>2. current' \in Nat
    BY CurrentNat DEF StopAfterStep
  <1> QED BY <1>1, <1>2, Returned DEF StopAfterStep, IInv, TypeOK

-----------------------------------------------------------------------------
(* Between turns                                                           *)

\* Between turns a closed log in memory and a closed log in the file make
\* the invariant.
LEMMA RestsOK ==
    ASSUME TypeOK', pc' \in {"idle", "returned"},
           Good(log'), Ended(log'.events), Len(log'.events) <= MaxInMemory + 1,
           Good(flash'), Ended(flash'.events)
    PROVE  IInv'
  BY DEF IInv, LogChained, IdleClosed, RingBound, FlashClosed, Awaits, Good,
         Ended, Final, LastEvent, Running

\* A checkpoint of a closed log leaves a closed log in the file.
LEMMA SavedGood ==
    ASSUME IInv, NEW l, Good(l), Ended(l.events), Saved(l)
    PROVE  flash' \in Log /\ Good(flash') /\ Ended(flash'.events)
  BY LogFacts DEF Saved, Good

\* The log of the turn is checkpointed, or not.
LEMMA ReturnSessionOK ==
    ASSUME IInv, ReturnSession
    PROVE  IInv'
  <1>1. flash' \in Log /\ Good(flash') /\ Ended(flash'.events)
    BY LogFacts, SavedGood DEF ReturnSession
  <1>2. TypeOK'
    BY <1>1 DEF ReturnSession, IInv, TypeOK, turnVars
  <1> QED BY <1>1, <1>2, LogFacts, RestsOK DEF ReturnSession, IInv, RingBound

\* /clear leaves an empty log.
LEMMA ClearCommandOK ==
    ASSUME IInv, ClearCommand
    PROVE  IInv'
  <1>1. /\ Good(NewLog) /\ Ended(NewLog.events)
        /\ Len(NewLog.events) <= MaxInMemory + 1
    BY RingAssumption DEF NewLog, Good, Log, Ended, Chained
  <1>2. log' = NewLog
    BY DEF ClearCommand, Clear
  <1>3. flash' \in Log /\ Good(flash') /\ Ended(flash'.events)
    BY <1>1, <1>2, SavedGood DEF ClearCommand
  <1>4. TypeOK'
    BY <1>1, <1>2, <1>3 DEF ClearCommand, IInv, TypeOK, turnVars, Good
  <1> QED BY <1>1, <1>2, <1>3, <1>4, RestsOK DEF ClearCommand

\* LastOfKind finds an event of the kind when there is one.
LEMMA LastOfKindIn ==
    ASSUME NEW evs \in Seq(Event), NEW K, OfKind(evs, K) # {}
    PROVE  LastOfKind(evs, K) \in OfKind(evs, K)
  <1> DEFINE T == {Len(evs) - i : i \in OfKind(evs, K)}
             R == OpToRel(<, Nat)
  <1>1. T \subseteq Nat /\ T # {}
    BY DEF OfKind
  <1>2. \E x \in T : \A y \in T : ~ (<<y, x>> \in R)
    <2>1. IsWellFoundedOn(R, Nat)
      BY NatLessThanWellFounded
    <2> HIDE DEF R, T
    <2> QED BY <1>1, <2>1, WFMin
  <1>3. PICK i \in OfKind(evs, K) :
           \A j \in OfKind(evs, K) : ~ (<<Len(evs) - j, Len(evs) - i>> \in R)
    BY <1>2
  <1>4. \A j \in OfKind(evs, K) : j <= i
    <2> TAKE j \in OfKind(evs, K)
    <2>1. Len(evs) - j \in Nat /\ Len(evs) - i \in Nat /\ i \in Nat /\ j \in Nat
      BY DEF OfKind
    <2>2. ~ (Len(evs) - j < Len(evs) - i)
      BY <1>3, <2>1 DEF OpToRel
    <2> QED BY <2>1, <2>2
  <1> QED BY <1>4 DEF LastOfKind

\* The counters a log gets when its events are appended again one by one
LEMMA ReappendedGood ==
    ASSUME NEW s \in Seq(Event), Chained(s)
    PROVE  /\ Good(Reappended(s))
           /\ Len(Reappended(s).events) <= MaxInMemory
           /\ Ended(s) => Ended(Reappended(s).events)
  <1> DEFINE ts == LastOfKind(s, {"TurnStart"})
             ss == LastOfKind(s, {"StepStart"})
             turn == IF ts = 0 THEN 0 ELSE s[ts].turn
             step == IF ss = 0 THEN 0 ELSE s[ss].step
             t == Evict(s)
  <1>1. turn \in Nat
    <2>1. CASE OfKind(s, {"TurnStart"}) = {}
      BY <2>1 DEF LastOfKind
    <2>2. CASE OfKind(s, {"TurnStart"}) # {}
      <3>1. ts \in OfKind(s, {"TurnStart"})
        BY <2>2, LastOfKindIn
      <3>2. s[ts] \in Event /\ s[ts].kind = "TurnStart"
        BY <3>1 DEF OfKind
      <3>3. s[ts].turn \in Nat
        BY <3>2 DEF Event
      <3> QED BY <3>3
    <2> QED BY <2>1, <2>2
  <1>2. step \in Nat
    <2>1. CASE OfKind(s, {"StepStart"}) = {}
      BY <2>1 DEF LastOfKind
    <2>2. CASE OfKind(s, {"StepStart"}) # {}
      <3>1. ss \in OfKind(s, {"StepStart"})
        BY <2>2, LastOfKindIn
      <3>2. s[ss] \in Event /\ s[ss].kind = "StepStart"
        BY <3>1 DEF OfKind
      <3>3. s[ss].step \in Nat
        BY <3>2 DEF Event
      <3> QED BY <3>3
    <2> QED BY <2>1, <2>2
  <1>3. /\ t \in Seq(Event) /\ Chained(t) /\ Len(t) <= MaxInMemory
        /\ Ended(s) => Ended(t)
    BY EvictChained DEF Ended
  <1>4. Reappended(s) = [events |-> t, turn |-> turn, step |-> step,
                         lastModel |-> NoModel]
    BY DEF Reappended
  <1> HIDE DEF t, turn, step
  <1> QED BY <1>1, <1>2, <1>3, <1>4 DEF Good, Log

\* /compact keeps the end of the log, so the log it leaves is closed.
LEMMA CompactCommandOK ==
    ASSUME IInv, CompactCommand
    PROVE  IInv'
  <1> DEFINE s == log.events
             n == Len(s) - CompactKeep + 1
             kept == SubSeq(s, n, Len(s))
  <1>1. s \in Seq(Event) /\ Chained(s) /\ Ended(s)
    BY LogFacts DEF CompactCommand, Good, Log
  <1>2. n \in 1 .. Len(s)
    BY <1>1 DEF CompactCommand, CompactKeep
  <1>3. log' = Reappended(kept)
    BY DEF CompactCommand
  <1> HIDE DEF s, n
  <1>4. kept \in Seq(Event) /\ Chained(kept) /\ Ended(kept)
    BY <1>1, <1>2, SuffixChained DEF Ended
  <1> HIDE DEF kept
  <1>5. /\ Good(log') /\ Ended(log'.events)
        /\ Len(log'.events) <= MaxInMemory
    BY <1>3, <1>4, ReappendedGood
  <1>6. Len(log'.events) <= MaxInMemory + 1
    BY <1>5, RingAssumption DEF Good, Log
  <1>7. flash' \in Log /\ Good(flash') /\ Ended(flash'.events)
    BY <1>5, SavedGood DEF CompactCommand
  <1>8. TypeOK'
    BY <1>5, <1>7 DEF CompactCommand, IInv, TypeOK, turnVars, Good
  <1> QED BY <1>5, <1>6, <1>7, <1>8, RestsOK DEF CompactCommand

\* The checkpoint a restart loads is closed, so that nothing is repaired.
LEMMA CrashOK ==
    ASSUME IInv, Crash
    PROVE  IInv'
  <1>1. /\ Good(log') /\ Ended(log'.events)
        /\ Len(log'.events) <= MaxInMemory
    BY LogFacts, LoadGood DEF Crash
  <1>2. Len(log'.events) <= MaxInMemory + 1
    BY <1>1, RingAssumption DEF Good, Log
  <1>3. TypeOK'
    <2>1. NoSkill \in Skill
      BY DEF NoSkill, Skill
    <2>2. NoStream \in [content : BOOLEAN, calls : Seq(CallId),
                        fin : {"open", "done", "error"}]
      BY DEF NoStream
    <2>3. NoOutcome \in [error : {"none", "tool", "llm", "cancelled"},
                         tools : BOOLEAN]
      BY DEF NoOutcome
    <2>4. <<>> \in Seq(CallId)
      OBVIOUS
    <2> QED BY <1>1, <2>1, <2>2, <2>3, <2>4 DEF Crash, IInv, TypeOK, Good
  <1> QED BY <1>1, <1>2, <1>3, LogFacts, RestsOK DEF Crash

-----------------------------------------------------------------------------
(* The theorems                                                            *)

\* Every step of the program keeps the inductive invariant.
THEOREM NextOK == IInv /\ [Next]_vars => IInv'
  <1> SUFFICES ASSUME IInv, [Next]_vars PROVE IInv'
    OBVIOUS
  <1>1. CASE \E m \in Model, k \in Skills : StartTurn(m, k)
    BY <1>1, StartTurnOK
  <1>2. CASE EnterStep \/ AbortAtTop \/ StopBeforeStep
    BY <1>2, EnterStepOK, AbortAtTopOK, StopBeforeStepOK
  <1>3. CASE LlmStep
    BY <1>3, PlanProceedOK, TodoProceedOK, CompactedOK, StreamEventOK,
       RecvCancelledOK, StreamFailedOK, StreamClosedOK, BeginToolOK, EndToolOK
    DEF LlmStep
  <1>4. CASE WorkflowStep
    BY <1>4, ForceToolOK, EndForcedToolOK, ForceLlmOK, JudgeAnsweredOK,
       JudgeFailedOK
    DEF WorkflowStep
  <1>5. CASE NextStep \/ StopAfterStep \/ ReturnSession
    BY <1>5, NextStepOK, StopAfterStepOK, ReturnSessionOK
  <1>6. CASE Cancel \/ ClearCommand \/ CompactCommand \/ Crash
    BY <1>6, CancelOK, ClearCommandOK, CompactCommandOK, CrashOK
  <1>7. CASE UNCHANGED vars
    <2>1. TypeOK'
      BY <1>7 DEF vars, turnVars, IInv, TypeOK
    <2> QED BY <1>7, <2>1, StaysOK DEF vars, turnVars
  <1> QED BY <1>1, <1>2, <1>3, <1>4, <1>5, <1>6, <1>7 DEF Next, TurnStep

\* The inductive invariant holds in every behaviour.
LEMMA Always == Spec => []IInv
  BY InitOK, NextOK, PTL DEF Spec

\* Every variable keeps its type in every behaviour.
THEOREM TypeCorrect == Spec => []TypeOK
  <1>1. IInv => TypeOK
    BY DEF IInv
  <1> QED BY Always, <1>1, PTL

\* In every behaviour the events of the ring follow one another as LogChained
\* says: no early return, eviction, compaction, command or restart breaks the
\* nesting of turns, steps and calls.
THEOREM AlwaysChained == Spec => []LogChained
  <1>1. IInv => LogChained
    BY DEF IInv
  <1> QED BY Always, <1>1, PTL

\* Whenever no turn runs, the log ends with the end of its latest turn.
THEOREM AlwaysClosed == Spec => []IdleClosed
  <1>1. IInv => IdleClosed
    BY DEF IInv
  <1> QED BY Always, <1>1, PTL

\* The ring never holds more than one event over its capacity.
THEOREM AlwaysBounded == Spec => []RingBound
  <1>1. IInv => RingBound
    BY DEF IInv
  <1> QED BY Always, <1>1, PTL

-----------------------------------------------------------------------------
(* A cancelled turn does no more work                                      *)

\* What is appended is the last event of the ring, whatever is evicted.
LEMMA PushLast ==
    ASSUME NEW l \in Log, NEW e \in Event
    PROVE  LET r == AppendEvent(l, e)
           IN  /\ r \in Log /\ r.turn = l.turn /\ r.step = l.step
               /\ r.events # <<>> /\ Final(r.events) = e
  <1> DEFINE s == Append(l.events, e)
             t == Evict(s)
  <1>1. s \in Seq(Event) /\ Len(s) \in Nat \ {0} /\ s[Len(s)] = e
    BY DEF Log
  <1> HIDE DEF s
  <1>2. t \in Seq(Event) /\ t # <<>> /\ Final(t) = e
    <2>1. CASE Len(s) > MaxInMemory
      <3> DEFINE n == Len(s) - MaxInMemory + 1
      <3>1. n \in 1 .. Len(s) /\ Len(s) - n + 1 = MaxInMemory
        BY <1>1, <2>1, RingAssumption
      <3>2. t = SubSeq(s, n, Len(s))
        BY <2>1 DEF Evict
      <3> HIDE DEF n, t
      <3>3. \A i \in n .. Len(s) : s[i] \in Event
        BY <1>1, <3>1
      <3>4. t \in Seq(Event) /\ Len(t) = MaxInMemory
        BY <1>1, <3>1, <3>2, <3>3, SubSeqProperties
      <3>5. \A i \in 1 .. MaxInMemory : t[i] = s[n + i - 1]
        BY <1>1, <3>1, <3>2, <3>3, SubSeqProperties
      <3>6. MaxInMemory \in 1 .. MaxInMemory /\ n + MaxInMemory - 1 = Len(s)
        BY <1>1, RingAssumption DEF n
      <3> QED BY <1>1, <3>4, <3>5, <3>6, RingAssumption DEF Final
    <2>2. CASE ~(Len(s) > MaxInMemory)
      BY <1>1, <2>2 DEF Evict, Final
    <2> QED BY <2>1, <2>2
  <1>3. AppendEvent(l, e) = [l EXCEPT !.events = t]
    BY DEF AppendEvent, s
  <1> HIDE DEF t
  <1> QED BY <1>2, <1>3 DEF Log

\* No step and no tool is started between the two logs.
NothingStarts(old, new) ==
    \/ EndsWith(new, "StepStart") /\ EndsWith(old, "StepStart")
    \/ EndsWith(new, "ToolCall") /\ EndsWith(old, "ToolCall")
    \/ ~EndsWith(new, "StepStart") /\ ~EndsWith(new, "ToolCall")

\* An event that starts neither a step nor a tool
LEMMA OtherEvent ==
    ASSUME NEW l \in Log, NEW e \in Event, e.kind \notin {"StepStart", "ToolCall"},
           NEW old
    PROVE  NothingStarts(old, AppendEvent(l, e).events)
  BY PushLast DEF NothingStarts, EndsWith, Final

\* The events that close a step and a turn
LEMMA CloseStartsNothing ==
    ASSUME NEW l \in Log, NEW r \in Reason, NEW old
    PROVE  /\ EndTurn(l, r) \in Log /\ EndStep(l) \in Log
           /\ NothingStarts(old, EndTurn(l, r).events)
           /\ NothingStarts(old, EndStep(l).events)
  <1>1. l.turn \in Nat /\ l.step \in Nat
    BY DEF Log
  <1>2. /\ TurnEnd(l.turn, r) \in Event /\ TurnEnd(l.turn, r).kind = "TurnEnd"
        /\ StepEnd(l.turn, l.step) \in Event
        /\ StepEnd(l.turn, l.step).kind = "StepEnd"
    BY <1>1, EventTypes DEF TurnEnd, StepEnd
  <1> QED BY <1>2, PushLast, OtherEvent DEF EndTurn, EndStep

\* What a step of a cancelled turn appends, action by action
LEMMA CancelledAppends ==
    ASSUME IInv, Next, cancelled, cancelled'
    PROVE  \/ NothingStarts(log.events, log'.events)
           \/ skill.mode = "workflow" /\ EndsWith(log'.events, "ToolCall")
  <1> USE DEF IInv
  <1>0. log \in Log /\ Good(log) /\ "Completed" \in Reason /\ "Error" \in Reason
        /\ "Aborted" \in Reason
    BY LogFacts DEF TypeOK, Reason
  <1>s. ASSUME log'.events = log.events PROVE NothingStarts(log.events, log'.events)
    BY <1>s DEF NothingStarts
  <1>1. ASSUME NEW m \in Model, NEW k \in Skills, StartTurn(m, k) PROVE FALSE
    BY <1>1 DEF StartTurn
  <1>2. CASE Cancel \/ EnterStep \/ BeginTool \/ Crash
    BY <1>2 DEF Cancel, EnterStep, BeginTool, Crash
  <1>3. CASE PlanProceed \/ ForceLlm \/ RecvDelta \/ RecvDone \/ RecvError \/ ReturnSession
    BY <1>3, <1>s DEF PlanProceed, OpenContext, ForceLlm, RecvDelta, RecvDone, RecvError, ReturnSession
  <1>4. CASE AbortAtTop
    BY <1>0, <1>4, CloseStartsNothing DEF AbortAtTop
  <1>5. CASE StopBeforeStep
    BY <1>0, <1>5, CloseStartsNothing DEF StopBeforeStep
  <1>6. CASE NextStep
    BY <1>0, <1>6, CloseStartsNothing DEF NextStep
  <1>7. CASE StopAfterStep
    BY <1>0, <1>7, CloseStartsNothing DEF StopAfterStep
  <1>8. ASSUME NEW l \in Log, NEW why, FailStep(l, why)
        PROVE  NothingStarts(log.events, log'.events)
    BY <1>0, <1>8, CloseStartsNothing DEF FailStep
  <1>9. CASE StreamFailed \/ JudgeFailed
    BY <1>0, <1>8, <1>9 DEF StreamFailed, JudgeFailed
  <1>10. /\ AssistantMessage(<<>>) \in Event
         /\ AssistantMessage(<<>>).kind = "AssistantMessage"
    <2>1. <<>> \in Seq(CallId)
      OBVIOUS
    <2> QED BY <2>1, EventTypes DEF AssistantMessage
  <1>11. CASE RecvCancelled
    <2> DEFINE l == IF stream.content THEN AppendEvent(log, AssistantMessage(<<>>))
                    ELSE log
    <2>1. l \in Log
      BY <1>0, <1>10, PushLast
    <2>2. FailStep(l, "cancelled")
      BY <1>11 DEF RecvCancelled
    <2> HIDE DEF l
    <2> QED BY <1>8, <2>1, <2>2
  <1>12. CASE JudgeAnswered
    BY <1>0, <1>10, <1>12, OtherEvent DEF JudgeAnswered
  <1>13. CASE StreamClosed
    <2>1. /\ AssistantMessage(stream.calls) \in Event
          /\ AssistantMessage(stream.calls).kind = "AssistantMessage"
      BY EventTypes DEF AssistantMessage, TypeOK
    <2> QED BY <1>0, <1>13, <2>1, OtherEvent DEF StreamClosed
  <1>14. CASE EndTool
    <2>1. ToolResult(Head(pending)) \in Event /\ ToolResult(Head(pending)).kind = "ToolResult"
      <3>1. Head(pending) \in CallId
        BY <1>14 DEF EndTool, Awaits, TypeOK
      <3> QED BY <3>1, EventTypes DEF ToolResult
    <2> QED BY <1>0, <1>14, <2>1, OtherEvent DEF EndTool
  <1>15. CASE EndForcedTool
    <2>1. ToolResult(<<"wf", current>>) \in Event /\ ToolResult(<<"wf", current>>).kind = "ToolResult"
      <3>1. <<"wf", current>> \in CallId
        BY DEF CallId, TypeOK
      <3> QED BY <3>1, EventTypes DEF ToolResult
    <2> QED BY <1>0, <1>15, <2>1, OtherEvent DEF EndForcedTool
  <1>16. CASE TodoProceed
    <2>1. UserMessage("guidance") \in Event /\ UserMessage("guidance").kind = "UserMessage"
      BY EventTypes DEF UserMessage, UserRole
    <2> QED BY <1>0, <1>16, <2>1, OtherEvent DEF TodoProceed, OpenContext
  <1>17. CASE ForceTool
    <2>1. PICK i \in 0 .. Len(skill.steps) - 1 :
             log' = AppendEvent(log, ToolCall(<<"wf", i>>))
      BY <1>17 DEF ForceTool
    <2>2. i \in Nat
      BY DEF TypeOK, Skill
    <2>3. ToolCall(<<"wf", i>>) \in Event /\ ToolCall(<<"wf", i>>).kind = "ToolCall"
      BY <2>2, EventTypes DEF ToolCall, CallId
    <2> QED BY <1>0, <1>17, <2>1, <2>3, PushLast DEF ForceTool, EndsWith, Final
  <1>18. CASE Compacted
    <2>1. CASE log' = log
      BY <2>1, <1>s
    <2>2. CASE log' = ApplyCompaction(log, KeepRecent * 6)
      <3>1. log.events # <<>>
        BY <1>18 DEF Compacted, Awaits, Running
      <3>2. /\ log'.events # <<>>
            /\ \/ Final(log'.events) = Final(log.events)
               \/ Final(log'.events) = CompactionSummary
        BY <1>0, <2>2, <3>1, Ranges, CompactionGood
      <3> QED BY <3>1, <3>2 DEF NothingStarts, EndsWith, Final, CompactionSummary
    <2> QED BY <1>18, <2>1, <2>2 DEF Compacted
  <1>19. CASE ClearCommand
    BY <1>19 DEF ClearCommand, Clear, NewLog, NothingStarts, EndsWith
  <1>20. CASE CompactCommand
    <2> DEFINE kept == SubSeq(log.events, Len(log.events) - CompactKeep + 1,
                              Len(log.events))
    <2>1. Ended(log.events) /\ Len(log.events) > CompactKeep
      BY <1>20, LogFacts DEF CompactCommand
    <2>2. Chained(kept) /\ kept \in Seq(Event) /\ Final(kept) = Final(log.events) /\ kept # <<>>
      BY <1>0, <2>1, SuffixChained DEF CompactKeep, Good, Log
    <2>3. Ended(kept)
      BY <2>1, <2>2 DEF Ended
    <2> HIDE DEF kept
    <2>4. Ended(Reappended(kept).events)
      BY <2>2, <2>3, ReappendedGood
    <2>5. log' = Reappended(kept)
      BY <1>20 DEF CompactCommand, kept
    <2> QED BY <2>4, <2>5 DEF NothingStarts, EndsWith, Ended, Final
  <1> QED BY <1>1, <1>2, <1>3, <1>4, <1>5, <1>6, <1>7, <1>9, <1>11, <1>12, <1>13,
             <1>14, <1>15, <1>16, <1>17, <1>18, <1>19, <1>20
          DEF Next, TurnStep, LlmStep, WorkflowStep

\* A cancelled turn starts no further step, and its LLM step no further tool.
THEOREM CancelStops == Spec => CancelStopsWork
  <1>1. IInv /\ [Next]_vars => [cancelled /\ cancelled' =>
          /\ ~Starts("StepStart")
          /\ Starts("ToolCall") => skill.mode = "workflow"]_vars
    <2> SUFFICES ASSUME IInv, Next, cancelled, cancelled'
                 PROVE  /\ ~Starts("StepStart")
                        /\ Starts("ToolCall") => skill.mode = "workflow"
      OBVIOUS
    <2> QED BY CancelledAppends DEF Starts, NothingStarts, EndsWith
  <1> QED BY <1>1, Always, PTL DEF Spec, CancelStopsWork

-----------------------------------------------------------------------------
(* The messages of a request                                               *)

\* The recursion of Scan has a solution, so Scan obeys it.
LEMMA ScanSteps ==
    ASSUME NEW evs \in Seq(Event), NEW first \in Nat
    PROVE  LET t == Scan(evs, first)
           IN  \A n \in 0 .. Len(evs) :
                  t[n] = IF n = 0 \/ n < first THEN NoMessages
                         ELSE Derived(t[n - 1], evs[n])
  <1> DEFINE Body(f, n) == IF n = 0 \/ n < first THEN NoMessages
                           ELSE Derived(f[n - 1], evs[n])
             Solved(f, k) == f = [n \in 0 .. k |-> Body(f, n)]
             D == {k \in 0 .. Len(evs) : \E f : Solved(f, k)}
  <1>0. Len(evs) \in Nat
    OBVIOUS
  <1>1. 0 \in D
    <2> DEFINE f == [n \in 0 .. 0 |-> NoMessages]
    <2>1. f = [n \in 0 .. 0 |-> Body(f, n)]
      OBVIOUS
    <2> HIDE DEF f, Body
    <2>2. \E h : Solved(h, 0)
      BY <2>1
    <2>3. 0 \in 0 .. Len(evs)
      BY <1>0
    <2> QED BY <2>2, <2>3
  <1>2. \A k \in 0 .. Len(evs) : k < Len(evs) /\ k \in D => k + 1 \in D
    <2> SUFFICES ASSUME NEW k \in 0 .. Len(evs), k < Len(evs), k \in D
                 PROVE  k + 1 \in D
      OBVIOUS
    <2>1. PICK f : Solved(f, k)
      OBVIOUS
    <2> DEFINE g == [n \in 0 .. k + 1 |-> IF n = k + 1 THEN Body(f, n) ELSE f[n]]
    <2>2. \A n \in 0 .. k : g[n] = f[n] /\ f[n] = Body(f, n)
      <3> TAKE n \in 0 .. k
      <3>1. g[n] = f[n]
        BY <1>0
      <3> HIDE DEF Body
      <3>2. f[n] = Body(f, n)
        BY <2>1
      <3> QED BY <3>1, <3>2
    <2>3. \A n \in 0 .. k + 1 : Body(g, n) = Body(f, n)
      <3> SUFFICES ASSUME NEW n \in 0 .. k + 1, n # 0
                   PROVE  Body(g, n) = Body(f, n)
        OBVIOUS
      <3>1. n - 1 \in 0 .. k
        BY <1>0
      <3>2. g[n - 1] = f[n - 1]
        BY <2>2, <3>1
      <3> HIDE DEF g
      <3> QED BY <3>2
    <2>4. \A n \in 0 .. k + 1 : g[n] = Body(g, n)
      <3> TAKE n \in 0 .. k + 1
      <3>1. CASE n = k + 1
        <4>1. g[n] = Body(f, n)
          BY <3>1
        <4> HIDE DEF g, Body
        <4> QED BY <2>3, <4>1
      <3>2. CASE n # k + 1
        <4>1. n \in 0 .. k
          BY <1>0, <3>2
        <4> HIDE DEF g, Body
        <4> QED BY <2>2, <2>3, <4>1
      <3> QED BY <3>1, <3>2
    <2>5. g = [n \in 0 .. k + 1 |-> g[n]]
      OBVIOUS
    <2> HIDE DEF g, Body
    <2>6. Solved(g, k + 1)
      BY <2>4, <2>5
    <2> QED BY <1>0, <2>6
  <1>3. \E f : Solved(f, Len(evs))
    <2> HIDE DEF D
    <2>1. \A k \in 0 .. Len(evs) : k \in D
      BY <1>0, <1>1, <1>2, UpTo
    <2>2. Len(evs) \in D
      BY <1>0, <2>1
    <2> QED BY <2>2 DEF D
  <1>4. Scan(evs, first) = CHOOSE f : Solved(f, Len(evs))
    BY DEF Scan
  <1> HIDE DEF Solved
  <1>5. Solved(Scan(evs, first), Len(evs))
    BY <1>3, <1>4
  <1> QED BY <1>5 DEF Solved

\* The messages a loop holds, those waiting last
Held == [msgs : Seq(Event), pending : Seq(Event)]
All(acc) == acc.msgs \o acc.pending

\* What one event adds to the messages, flushed or still held back
LEMMA DerivedAdds ==
    ASSUME NEW acc \in Held, NEW e \in Event
    PROVE  /\ Derived(acc, e) \in Held
           /\ All(Derived(acc, e)) = IF e.kind \in Surface
                                     THEN Append(All(acc), e) ELSE All(acc)
  <1> DEFINE m == acc.msgs
             p == acc.pending
  <1>0. m \in Seq(Event) /\ p \in Seq(Event) /\ acc = [msgs |-> m, pending |-> p]
    BY DEF Held
  <1>a. All(acc) = m \o p
    BY DEF All
  <1> HIDE DEF m, p
  <1>1. CASE e.kind \in {"UserMessage", "AssistantMessage", "CompactionSummary"}
    <2>1. Derived(acc, e) = [msgs |-> Append(m \o p, e), pending |-> <<>>]
      BY <1>0, <1>1 DEF Derived
    <2>2. m \o p \in Seq(Event) /\ Append(m \o p, e) \in Seq(Event) /\ <<>> \in Seq(Event)
      BY <1>0
    <2>3. Append(m \o p, e) \o <<>> = Append(m \o p, e)
      BY <2>2
    <2>4. Derived(acc, e) \in Held
      BY <2>1, <2>2 DEF Held
    <2>5. e.kind \in Surface
      BY <1>1 DEF Surface
    <2>6. All(Derived(acc, e)) = Append(m \o p, e) \o <<>>
      BY <2>1 DEF All
    <2> QED BY <1>a, <2>3, <2>4, <2>5, <2>6
  <1>2. CASE e.kind = "ToolResult"
    <2>1. Derived(acc, e) = [msgs |-> m, pending |-> Append(p, e)]
      BY <1>0, <1>2 DEF Derived
    <2>2. m \o p \in Seq(Event) /\ Append(p, e) \in Seq(Event)
      BY <1>0
    <2>3. m \o Append(p, e) = Append(m \o p, e)
      BY <1>0
    <2>4. Derived(acc, e) \in Held
      BY <1>0, <2>1, <2>2, SMTT(30) DEF Held
    <2>5. e.kind \in Surface
      BY <1>2 DEF Surface
    <2>6. All(Derived(acc, e)) = m \o Append(p, e)
      BY <2>1, SMTT(30) DEF All
    <2> QED BY <1>a, <2>3, <2>4, <2>5, <2>6
  <1>3. CASE e.kind \notin Surface
    <2>1. Derived(acc, e) = acc
      BY <1>3 DEF Derived, Surface
    <2> QED BY <1>3, <2>1
  <1> QED BY <1>1, <1>2, <1>3 DEF Surface

\* The loop projects the surface events from `first` on, in their order: what
\* it holds back at the end is what comes last.
LEMMA ScannedPicks ==
    ASSUME NEW evs \in Seq(Event), NEW first \in Nat
    PROVE  LET end == Scanned(evs, first)
           IN  end.msgs \o end.pending =
                   Picked(evs, {i \in OfKind(evs, Surface) : i >= first})
  <1> DEFINE I == {i \in OfKind(evs, Surface) : i >= first}
             t == Scan(evs, first)
             k == Taken(evs, I)
             D == {n \in 0 .. Len(evs) : t[n] \in Held /\ All(t[n]) = k[n]}
  <1>0. Len(evs) \in Nat /\ \A n \in 1 .. Len(evs) : evs[n] \in Event
    OBVIOUS
  <1>1. \A n \in 0 .. Len(evs) :
           t[n] = IF n = 0 \/ n < first THEN NoMessages
                  ELSE Derived(t[n - 1], evs[n])
    BY ScanSteps
  <1>2. /\ k[0] = <<>>
        /\ \A n \in 1 .. Len(evs) :
              k[n] = IF n \in I THEN Append(k[n - 1], evs[n]) ELSE k[n - 1]
    BY TakenSteps
  <1>e. \A n \in 1 .. Len(evs) : n \in I <=> n >= first /\ evs[n].kind \in Surface
    BY DEF OfKind
  <1> HIDE DEF t, k, I
  <1>n. ASSUME NEW n \in 0 .. Len(evs), t[n] = NoMessages, k[n] = <<>>
        PROVE  n \in D
    <2>1. <<>> \in Seq(Event) /\ <<>> \o <<>> = <<>>
      OBVIOUS
    <2>2. NoMessages \in Held /\ All(NoMessages) = <<>>
      BY <2>1 DEF NoMessages, Held, All
    <2> QED BY <1>n, <2>2
  <1>3. 0 \in D
    <2>1. 0 \in 0 .. Len(evs)
      BY <1>0
    <2> HIDE DEF D
    <2> QED BY <1>1, <1>2, <1>n, <2>1
  <1> DEFINE E == {n \in 0 .. Len(evs) : n < first => k[n] = <<>>}
  <1>4. \A n \in 0 .. Len(evs) : n \in E
    <2>1. 0 \in E
      BY <1>0, <1>2
    <2>2. \A n \in 0 .. Len(evs) : n < Len(evs) /\ n \in E => n + 1 \in E
      <3> SUFFICES ASSUME NEW n \in 0 .. Len(evs), n < Len(evs), n \in E, n + 1 < first
                   PROVE  k[n + 1] = <<>>
        BY <1>0
      <3>1. n + 1 \in 1 .. Len(evs) /\ (n + 1) - 1 = n /\ n < first
        BY <1>0
      <3> QED BY <1>2, <1>e, <3>1
    <2> HIDE DEF E
    <2> QED BY <1>0, <2>1, <2>2, UpTo
  <1>5. \A n \in 0 .. Len(evs) : n < Len(evs) /\ n \in D => n + 1 \in D
    <2> SUFFICES ASSUME NEW n \in 0 .. Len(evs), n < Len(evs), n \in D
                 PROVE  n + 1 \in D
      OBVIOUS
    <2>1. n + 1 \in 1 .. Len(evs) /\ (n + 1) - 1 = n /\ n + 1 \in 0 .. Len(evs)
      BY <1>0
    <2>2. CASE n + 1 < first
      <3>1. t[n + 1] = NoMessages /\ k[n + 1] = <<>>
        BY <1>1, <1>4, <2>1, <2>2
      <3> HIDE DEF D
      <3> QED BY <1>n, <2>1, <3>1
    <2>3. CASE ~(n + 1 < first)
      <3>2. t[n + 1] = Derived(t[n], evs[n + 1])
        <4>1. ~(n + 1 = 0 \/ n + 1 < first)
          BY <2>1, <2>3
        <4>2. t[n + 1] = Derived(t[(n + 1) - 1], evs[n + 1])
          BY <1>1, <2>1, <4>1
        <4> QED BY <2>1, <4>2
      <3>3. /\ t[n + 1] \in Held
            /\ All(t[n + 1]) = IF evs[n + 1].kind \in Surface
                               THEN Append(k[n], evs[n + 1]) ELSE k[n]
        BY <1>0, <2>1, <3>2, DerivedAdds
      <3>4. k[n + 1] = IF evs[n + 1].kind \in Surface
                       THEN Append(k[n], evs[n + 1]) ELSE k[n]
        <4>1. n + 1 >= first
          BY <2>1, <2>3
        <4> QED BY <1>2, <1>e, <2>1, <4>1
      <3> QED BY <2>1, <3>3, <3>4
    <2> QED BY <2>2, <2>3
  <1>6. \A n \in 0 .. Len(evs) : n \in D
    <2> HIDE DEF D
    <2> QED BY <1>0, <1>3, <1>5, UpTo
  <1>7. Len(evs) \in D
    <2> HIDE DEF D
    <2> QED BY <1>0, <1>6
  <1> QED BY <1>7 DEF Scanned, Picked, All, t, k, I

\* An index of a kind, or 0
LEMMA LastIsIndex ==
    ASSUME NEW evs \in Seq(Event), NEW K
    PROVE  LastOfKind(evs, K) \in 0 .. Len(evs)
  <1>1. CASE OfKind(evs, K) = {}
    BY <1>1 DEF LastOfKind
  <1>2. CASE OfKind(evs, K) # {}
    BY <1>2, LastOfKindIn DEF OfKind
  <1> QED BY <1>1, <1>2

\* derive_messages projects the surface events from the last summary on.
LEMMA DerivePicks ==
    ASSUME NEW l \in Log
    PROVE  /\ DeriveMessages(l) = Projection(l.events)
           /\ ShownMessages(l) = Visible(l.events)
  <1>1. l.events \in Seq(Event)
    BY DEF Log
  <1>2. DeriveMessages(l) = Projection(l.events)
    <2> DEFINE first == LastOfKind(l.events, {"CompactionSummary"})
    <2>1. first \in Nat
      BY <1>1, LastIsIndex
    <2> HIDE DEF first
    <2>2. Scanned(l.events, first).msgs \o Scanned(l.events, first).pending
            = Picked(l.events, {i \in OfKind(l.events, Surface) : i >= first})
      BY <1>1, <2>1, ScannedPicks
    <2> QED BY <2>2 DEF DeriveMessages, Projection, first
  <1>3. ShownMessages(l) = Visible(l.events)
    <2>1. {i \in OfKind(l.events, Surface) : i >= 0} = OfKind(l.events, Surface)
      BY <1>1 DEF OfKind
    <2>2. Scanned(l.events, 0).msgs \o Scanned(l.events, 0).pending
            = Picked(l.events, {i \in OfKind(l.events, Surface) : i >= 0})
      BY <1>1, ScannedPicks
    <2> QED BY <2>1, <2>2 DEF ShownMessages, Visible
  <1> QED BY <1>2, <1>3

\* For every log there is, and so for the one at hand: the transcript is the
\* surface events from the last summary on, and the history ends with it.
LEMMA DerivesInOrder ==
    ASSUME TypeOK
    PROVE  DeriveInOrder
  <1> DEFINE evs == log.events
             first == LastOfKind(evs, {"CompactionSummary"})
             K == OfKind(evs, Surface)
             J == {i \in K : i >= first}
  <1>1. log \in Log /\ evs \in Seq(Event)
    BY DEF TypeOK, Log
  <1>2. DeriveMessages(log) = Picked(evs, J) /\ ShownMessages(log) = Picked(evs, K)
    BY <1>1, DerivePicks DEF Projection, Visible
  <1>3. first \in 0 .. Len(evs) /\ Len(evs) \in Nat
    BY <1>1, LastIsIndex
  <1>4. \A i \in K : i \in 1 .. Len(evs)
    BY <1>1 DEF OfKind
  <1> HIDE DEF evs, first, K
  <1> DEFINE m == IF first = 0 THEN 0 ELSE first - 1
             a == Taken(evs, K)[m]
             b == Picked(evs, J)
  <1>5. m \in 0 .. Len(evs) /\ J = {i \in K : i > m}
    BY <1>3, <1>4
  <1>6. Picked(evs, K) = a \o b
    <2> HIDE DEF m, J
    <2>1. Picked(evs, K) = Taken(evs, K)[m] \o Picked(evs, {i \in K : i > m})
      BY <1>1, <1>5, PickedSplit, ZenonT(30)
    <2> QED BY <1>5, <2>1
  <1>7. a \in Seq(Event) /\ b \in Seq(Event)
    <2> HIDE DEF m, J
    <2> QED BY <1>1, <1>5, TakenType, PickedElements
  <1>8. Suffix(a \o b, Len(b)) = b
    <2> HIDE DEF a, b
    <2> QED BY <1>7, EndOfConcat DEF Suffix
  <1>9. Suffix(ShownMessages(log), Len(DeriveMessages(log))) = DeriveMessages(log)
    <2> HIDE DEF a
    <2> QED BY <1>2, <1>6, <1>8
  <1>10. DeriveMessages(log) = Projection(log.events) /\ ShownMessages(log) = Visible(log.events)
    BY <1>1, DerivePicks
  <1> QED BY <1>9, <1>10 DEF DeriveInOrder

\* In every behaviour the messages derive_messages hands to the LLM are the
\* surface events of the log in their order, from the last summary on, and the
\* history shown to the user ends with them.
THEOREM DerivesRight == Spec => []DeriveInOrder
  BY TypeCorrect, DerivesInOrder, PTL

-----------------------------------------------------------------------------
(* What the log leaves open: calls without answers, switches not announced *)

\* An event of A is in the log and none of B comes after it.
Left(evs, A, B) ==
    \E i \in 1 .. Len(evs) :
       evs[i] \in A /\ \A j \in i + 1 .. Len(evs) : evs[j] \notin B

\* A call the turn's assistant messages asked for, and what settles it
Asks(c) == {e \in Event : /\ e.kind = "AssistantMessage"
                          /\ \E n \in DOMAIN e.calls : e.calls[n] = c}
Settles(c) == {e \in Event : e.kind = "TurnStart" \/ e = ToolResult(c)}

\* A call of an answer that waits, one that was started and has no result, and
\* one that has a result
Waits(evs, c)   == Left(evs, Asks(c), Settles(c))
Dangles(evs, c) == Left(evs, {ToolCall(c)}, {ToolResult(c)})
Has(evs, c)     == Left(evs, {ToolResult(c)}, {})

\* The ids of the calls the LLM asks for
Ids == {"llm"} \X Nat

\* The calls the running step has still to make
Coming == IF pc = "stream" /\ stream.fin = "done" THEN stream.calls
          ELSE IF pc \in {"tools", "tool"} THEN pending
          ELSE <<>>

\* A turn that is not cancelled owes only the calls it has still to make.
Asked ==
    ~cancelled /\ pc \in Running \cup {"returned"} =>
       \A c \in CallId : Waits(log.events, c) =>
          pc \in {"tools", "tool"} /\ \E n \in DOMAIN pending : pending[n] = c

\* Only the call that runs has been started without a result; none is on disk.
Paired ==
    \A c \in Ids :
       /\ Dangles(log.events, c) => pc = "tool" /\ c = Head(pending)
       /\ ~Dangles(flash.events, c)

\* The calls still to make are distinct, numbered, and have no result yet.
Fresh ==
    /\ \A k \in Nat : Has(log.events, <<"llm", k>>) \/ Has(flash.events, <<"llm", k>>)
                         => k <= callsMade
    /\ \A n \in DOMAIN Coming :
          /\ \E k \in Nat : k <= callsMade /\ Coming[n] = <<"llm", k>>
          /\ ~Has(log.events, Coming[n])
          /\ \A m \in DOMAIN Coming : m # n => Coming[m] # Coming[n]
    /\ pc \in {"pre", "compacting"} => stream.fin = "open"

\* The notice of a switch, and the headers of turns that another model drove
Notices == {UserMessage("notice")}
Others(m) == {e \in Event : e.kind = "RequestHeader" /\ e.model # m}

\* Between two turns of different models there is a notice.
Announced(evs) ==
    \A i, j \in OfKind(evs, {"RequestHeader"}) :
       i < j /\ evs[i].model # evs[j].model =>
          \E n \in i + 1 .. j : evs[n] = UserMessage("notice")

\* A turn another model drove than the last one known is followed by a notice.
Told(l) == Announced(l.events) /\ ~Left(l.events, Others(l.lastModel), Notices)
AllTold == Told(log) /\ Told(flash)

\* A crash in a running call leaves the start of its turn in the ring.
OpeningKept == pc = "tool" => TurnOpen(Evict(log.events))

\* Eviction drops the d oldest events, and not the last one.
LEMMA EvictIndex ==
    ASSUME NEW s \in Seq(Event)
    PROVE  /\ Evict(s) \in Seq(Event)
           /\ \E d \in 0 .. Len(s) :
                 /\ Len(Evict(s)) = Len(s) - d
                 /\ \A i \in 1 .. Len(s) - d : Evict(s)[i] = s[i + d]
                 /\ s # <<>> => d < Len(s)
  <1> DEFINE t == Evict(s)
  <1>0. Len(s) \in Nat
    OBVIOUS
  <1>1. CASE Len(s) > MaxInMemory
    <2> DEFINE d == Len(s) - MaxInMemory
    <2>1. d \in 0 .. Len(s) /\ d < Len(s) /\ d + 1 \in 1 .. Len(s) /\ d \in Nat
      BY <1>0, <1>1, RingAssumption
    <2>2. t = SubSeq(s, d + 1, Len(s))
      BY <1>1 DEF Evict
    <2> HIDE DEF d, t
    <2>3. \A i \in d + 1 .. Len(s) : s[i] \in Event
      BY <2>1
    <2>4. /\ t \in Seq(Event) /\ Len(t) = Len(s) - (d + 1) + 1
          /\ \A i \in 1 .. Len(s) - (d + 1) + 1 : t[i] = s[(d + 1) + i - 1]
      BY <1>0, <2>1, <2>2, <2>3, SubSeqProperties
    <2>5. Len(s) - (d + 1) + 1 = Len(s) - d
      BY <1>0, <2>1
    <2>6. \A i \in 1 .. Len(s) - d : t[i] = s[i + d]
      <3> TAKE i \in 1 .. Len(s) - d
      <3>1. (d + 1) + i - 1 = i + d
        BY <1>0, <2>1
      <3> QED BY <2>4, <2>5, <3>1
    <2> QED BY <2>1, <2>4, <2>5, <2>6 DEF t
  <1>2. CASE ~(Len(s) > MaxInMemory)
    <2>1. t = s
      BY <1>2 DEF Evict
    <2>2. 0 \in 0 .. Len(s) /\ Len(s) - 0 = Len(s)
      BY <1>0
    <2>3. \A i \in 1 .. Len(s) - 0 : t[i] = s[i + 0]
      BY <1>0, <2>1
    <2>4. s # <<>> => 0 < Len(s)
      BY <1>0
    <2> HIDE DEF t
    <2> QED BY <2>1, <2>2, <2>3, <2>4 DEF t
  <1> QED BY <1>1, <1>2

\* What is left of a log leaves no more behind than the log did.
LEMMA LeftSuffix ==
    ASSUME NEW s, NEW t, NEW A, NEW B, Len(s) \in Nat, NEW d \in 0 .. Len(s),
           Len(t) = Len(s) - d,
           \A i \in 1 .. Len(s) - d : t[i] = s[i + d],
           Left(t, A, B)
    PROVE  Left(s, A, B)
  <1>1. PICK i \in 1 .. Len(s) - d :
           t[i] \in A /\ \A j \in i + 1 .. Len(s) - d : t[j] \notin B
    BY DEF Left
  <1>2. i + d \in 1 .. Len(s) /\ s[i + d] \in A
    <2>1. t[i] = s[i + d] /\ t[i] \in A
      BY <1>1
    <2>2. i + d \in 1 .. Len(s)
      OBVIOUS
    <2> QED BY <2>1, <2>2
  <1>3. \A j \in (i + d) + 1 .. Len(s) : s[j] \notin B
    <2> TAKE j \in (i + d) + 1 .. Len(s)
    <2>1. j - d \in i + 1 .. Len(s) - d /\ j - d \in 1 .. Len(s) - d /\ (j - d) + d = j
      OBVIOUS
    <2> QED BY <1>1, <2>1
  <1> QED BY <1>2, <1>3 DEF Left

\* Nor does an eviction.
LEMMA LeftEvict ==
    ASSUME NEW s \in Seq(Event), NEW A, NEW B, Left(Evict(s), A, B)
    PROVE  Left(s, A, B)
  <1>1. Len(s) \in Nat
    OBVIOUS
  <1>2. PICK d \in 0 .. Len(s) :
           /\ Len(Evict(s)) = Len(s) - d
           /\ \A i \in 1 .. Len(s) - d : Evict(s)[i] = s[i + d]
    BY EvictIndex
  <1> QED BY <1>1, <1>2, LeftSuffix

\* An appended event is left behind itself, or settles what was, or neither.
LEMMA LeftAppend ==
    ASSUME NEW s \in Seq(Event), NEW e \in Event, NEW A, NEW B,
           Left(Append(s, e), A, B)
    PROVE  e \in A \/ (e \notin B /\ Left(s, A, B))
  <1> DEFINE t == Append(s, e)
  <1>1. /\ Len(s) \in Nat /\ Len(t) = Len(s) + 1 /\ t[Len(s) + 1] = e
        /\ \A i \in 1 .. Len(s) : t[i] = s[i]
    OBVIOUS
  <1> HIDE DEF t
  <1>2. PICK i \in 1 .. Len(s) + 1 :
           t[i] \in A /\ \A j \in i + 1 .. Len(s) + 1 : t[j] \notin B
    BY <1>1 DEF Left, t
  <1>3. CASE i = Len(s) + 1
    BY <1>1, <1>2, <1>3
  <1>4. CASE i # Len(s) + 1
    <2>1. i \in 1 .. Len(s) /\ Len(s) + 1 \in i + 1 .. Len(s) + 1
      BY <1>1, <1>4
    <2>2. e \notin B /\ s[i] \in A
      BY <1>1, <1>2, <2>1
    <2>3. \A j \in i + 1 .. Len(s) : s[j] \notin B
      <3> TAKE j \in i + 1 .. Len(s)
      <3>1. j \in i + 1 .. Len(s) + 1 /\ j \in 1 .. Len(s)
        BY <1>1, <2>1
      <3> QED BY <1>1, <1>2, <3>1
    <2> QED BY <2>1, <2>2, <2>3 DEF Left
  <1> QED BY <1>3, <1>4

\* The ring after an append and its eviction
LEMMA LeftPush ==
    ASSUME NEW s \in Seq(Event), NEW e \in Event, NEW A, NEW B,
           Left(Evict(Append(s, e)), A, B)
    PROVE  e \in A \/ (e \notin B /\ Left(s, A, B))
  <1>1. Append(s, e) \in Seq(Event)
    OBVIOUS
  <1> QED BY <1>1, LeftEvict, LeftAppend

\* A summary in between changes nothing of it.
LEMMA LeftInserted ==
    ASSUME NEW s, NEW k, NEW t, Len(s) \in Nat, Inserted(s, k, t),
           NEW A, NEW B, CompactionSummary \notin A, Left(t, A, B)
    PROVE  Left(s, A, B)
  <1>1. /\ k \in 1 .. Len(s) /\ k \in Nat /\ Len(t) = Len(s) + 1
        /\ \A i \in 1 .. k : t[i] = s[i]
        /\ t[k + 1] = CompactionSummary
        /\ \A i \in k + 2 .. Len(s) + 1 : t[i] = s[i - 1]
    BY DEF Inserted
  <1>2. PICK i \in 1 .. Len(s) + 1 :
           t[i] \in A /\ \A j \in i + 1 .. Len(s) + 1 : t[j] \notin B
    BY <1>1 DEF Left
  <1>3. CASE i <= k
    <2>1. i \in 1 .. k /\ i \in 1 .. Len(s)
      BY <1>1, <1>3
    <2>2. s[i] \in A
      BY <1>1, <1>2, <2>1
    <2>3. \A j \in i + 1 .. Len(s) : s[j] \notin B
      <3> TAKE j \in i + 1 .. Len(s)
      <3>1. CASE j <= k
        <4>1. j \in 1 .. k /\ j \in i + 1 .. Len(s) + 1
          BY <1>1, <2>1, <3>1
        <4> QED BY <1>1, <1>2, <4>1
      <3>2. CASE j > k
        <4>1. j + 1 \in k + 2 .. Len(s) + 1 /\ j + 1 \in i + 1 .. Len(s) + 1 /\ (j + 1) - 1 = j
          BY <1>1, <2>1, <3>2
        <4> QED BY <1>1, <1>2, <4>1
      <3> QED BY <1>1, <3>1, <3>2
    <2> QED BY <2>1, <2>2, <2>3 DEF Left
  <1>4. CASE i > k
    <2>1. i # k + 1
      BY <1>1, <1>2
    <2>2. i \in k + 2 .. Len(s) + 1 /\ i - 1 \in 1 .. Len(s)
      BY <1>1, <1>4, <2>1
    <2>3. s[i - 1] \in A
      BY <1>1, <1>2, <2>2
    <2>4. \A j \in (i - 1) + 1 .. Len(s) : s[j] \notin B
      <3> TAKE j \in (i - 1) + 1 .. Len(s)
      <3>1. /\ j + 1 \in k + 2 .. Len(s) + 1 /\ j + 1 \in i + 1 .. Len(s) + 1
            /\ (j + 1) - 1 = j
        BY <1>1, <2>2
      <3> QED BY <1>1, <1>2, <3>1
    <2> QED BY <2>2, <2>3, <2>4 DEF Left
  <1> QED BY <1>1, <1>3, <1>4

-----------------------------------------------------------------------------
(* Announced switches                                                      *)

\* The switches of what is left of a log are announced too.
LEMMA AnnouncedSuffix ==
    ASSUME NEW s \in Seq(Event), NEW t \in Seq(Event), NEW d \in 0 .. Len(s),
           Len(t) = Len(s) - d,
           \A i \in 1 .. Len(s) - d : t[i] = s[i + d],
           Announced(s)
    PROVE  Announced(t)
  <1> SUFFICES ASSUME NEW i \in OfKind(t, {"RequestHeader"}),
                      NEW j \in OfKind(t, {"RequestHeader"}),
                      i < j, t[i].model # t[j].model
               PROVE  \E n \in i + 1 .. j : t[n] = UserMessage("notice")
    BY DEF Announced
  <1>0. Len(s) \in Nat /\ d \in Nat
    OBVIOUS
  <1>1. i \in 1 .. Len(s) - d /\ j \in 1 .. Len(s) - d
    BY DEF OfKind
  <1>2. t[i] = s[i + d] /\ t[j] = s[j + d]
    BY <1>1
  <1>3. /\ i + d \in OfKind(s, {"RequestHeader"}) /\ j + d \in OfKind(s, {"RequestHeader"})
        /\ i + d < j + d
    <2>1. i + d \in DOMAIN s /\ j + d \in DOMAIN s /\ i + d < j + d
      BY <1>0, <1>1
    <2> QED BY <1>2, <2>1 DEF OfKind
  <1>4. PICK n \in (i + d) + 1 .. j + d : s[n] = UserMessage("notice")
    BY <1>2, <1>3 DEF Announced
  <1>5. n - d \in i + 1 .. j /\ n - d \in 1 .. Len(s) - d /\ (n - d) + d = n
    BY <1>0, <1>1
  <1> QED BY <1>4, <1>5

\* The same after an eviction
LEMMA AnnouncedEvict ==
    ASSUME NEW s \in Seq(Event), Announced(s)
    PROVE  Announced(Evict(s))
  BY EvictIndex, AnnouncedSuffix

\* A header after a notice, or one for the model all other headers name, is
\* announced.
LEMMA AnnouncedAppend ==
    ASSUME NEW s \in Seq(Event), NEW e \in Event, Announced(s),
           e.kind = "RequestHeader" => ~Left(s, Others(e.model), Notices)
    PROVE  Announced(Append(s, e))
  <1> DEFINE t == Append(s, e)
  <1>1. /\ Len(s) \in Nat /\ Len(t) = Len(s) + 1 /\ t[Len(s) + 1] = e
        /\ \A i \in 1 .. Len(s) : t[i] = s[i] /\ s[i] \in Event
        /\ DOMAIN t = 1 .. Len(s) + 1 /\ DOMAIN s = 1 .. Len(s)
    OBVIOUS
  <1> HIDE DEF t
  <1> SUFFICES ASSUME NEW i \in OfKind(t, {"RequestHeader"}),
                      NEW j \in OfKind(t, {"RequestHeader"}),
                      i < j, t[i].model # t[j].model
               PROVE  \E n \in i + 1 .. j : t[n] = UserMessage("notice")
    BY DEF Announced, t
  <1>2. i \in 1 .. Len(s) /\ j \in 1 .. Len(s) + 1 /\ t[i] = s[i]
    BY <1>1 DEF OfKind
  <1>3. CASE j \in 1 .. Len(s)
    <2>1. i \in OfKind(s, {"RequestHeader"}) /\ j \in OfKind(s, {"RequestHeader"})
      BY <1>1, <1>2, <1>3 DEF OfKind
    <2>2. PICK n \in i + 1 .. j : s[n] = UserMessage("notice")
      BY <1>1, <1>2, <1>3, <2>1 DEF Announced
    <2>3. n \in 1 .. Len(s)
      BY <1>1, <1>2, <1>3
    <2> QED BY <1>1, <2>2, <2>3
  <1>4. CASE j = Len(s) + 1
    <2>1. e.kind = "RequestHeader" /\ t[j] = e
      BY <1>1, <1>4 DEF OfKind
    <2>2. s[i] \in Others(e.model)
      BY <1>1, <1>2, <2>1 DEF OfKind, Others
    <2>3. ~ \A n \in i + 1 .. Len(s) : s[n] \notin Notices
      BY <1>2, <2>1, <2>2 DEF Left
    <2>4. PICK n \in i + 1 .. Len(s) : s[n] = UserMessage("notice")
      BY <2>3 DEF Notices
    <2>5. n \in i + 1 .. j /\ n \in 1 .. Len(s)
      BY <1>1, <1>2, <1>4
    <2> QED BY <1>1, <2>4, <2>5
  <1> QED BY <1>1, <1>2, <1>3, <1>4

\* A summary in between hides no notice.
LEMMA AnnouncedInserted ==
    ASSUME NEW s \in Seq(Event), NEW k, NEW t, Inserted(s, k, t), Announced(s)
    PROVE  Announced(t)
  <1>1. /\ k \in 1 .. Len(s) /\ k \in Nat /\ Len(t) = Len(s) + 1 /\ Len(s) \in Nat
        /\ \A i \in 1 .. k : t[i] = s[i]
        /\ t[k + 1] = CompactionSummary
        /\ \A i \in k + 2 .. Len(s) + 1 : t[i] = s[i - 1]
        /\ DOMAIN t = 1 .. Len(s) + 1 /\ DOMAIN s = 1 .. Len(s)
    BY DEF Inserted
  <1> DEFINE at(i) == IF i <= k THEN i ELSE i - 1
  <1> SUFFICES ASSUME NEW i \in OfKind(t, {"RequestHeader"}),
                      NEW j \in OfKind(t, {"RequestHeader"}),
                      i < j, t[i].model # t[j].model
               PROVE  \E n \in i + 1 .. j : t[n] = UserMessage("notice")
    BY DEF Announced
  <1>2. ASSUME NEW h \in OfKind(t, {"RequestHeader"})
        PROVE  /\ at(h) \in OfKind(s, {"RequestHeader"}) /\ t[h] = s[at(h)]
               /\ h # k + 1 /\ h \in 1 .. Len(s) + 1
    <2>1. h \in 1 .. Len(s) + 1 /\ t[h].kind = "RequestHeader"
      BY <1>1 DEF OfKind
    <2>2. h # k + 1
      BY <1>1, <2>1 DEF CompactionSummary
    <2>3. at(h) \in 1 .. Len(s) /\ t[h] = s[at(h)]
      <3>1. CASE h <= k
        BY <1>1, <2>1, <3>1
      <3>2. CASE h > k
        BY <1>1, <2>1, <2>2, <3>2
      <3> QED BY <1>1, <2>1, <3>1, <3>2
    <2> HIDE DEF at
    <2> QED BY <1>1, <2>1, <2>2, <2>3 DEF OfKind
  <1>3. at(i) < at(j)
    BY <1>1, <1>2
  <1>4. PICK n \in at(i) + 1 .. at(j) : s[n] = UserMessage("notice")
    <2> HIDE DEF at
    <2> QED BY <1>2, <1>3 DEF Announced
  <1>5. CASE n <= k
    <2>1. n \in 1 .. k /\ n \in i + 1 .. j
      BY <1>1, <1>2, <1>5
    <2> QED BY <1>1, <1>4, <2>1
  <1>6. CASE n > k
    <2>1. n + 1 \in k + 2 .. Len(s) + 1 /\ n + 1 \in i + 1 .. j /\ (n + 1) - 1 = n
      BY <1>1, <1>2, <1>6
    <2> QED BY <1>1, <1>4, <2>1
  <1> QED BY <1>1, <1>5, <1>6

\* Nothing is left behind in t that is not in s, and no switch goes unannounced.
Quiet(s, t) ==
    /\ \A c \in CallId : Waits(t, c) => Waits(s, c)
    /\ \A c \in Ids : Dangles(t, c) => Dangles(s, c)
    /\ \A c \in Ids : Has(t, c) => Has(s, c)
    /\ \A m : Left(t, Others(m), Notices) => Left(s, Others(m), Notices)
    /\ Announced(s) => Announced(t)

\* Events that ask for no call, start or answer none of the LLM's, and name
\* no model
Plain(e) ==
    /\ e \in Event
    /\ e.kind # "RequestHeader"
    /\ e.kind = "AssistantMessage" => e.calls = <<>>
    /\ e.kind \in {"ToolCall", "ToolResult"} => e.id[1] = "wf"

\* The events that are plain
LEMMA PlainEvents ==
    /\ \A t \in Nat : Plain(TurnStart(t))
    /\ \A t \in Nat, r \in Reason : Plain(TurnEnd(t, r))
    /\ \A t \in Nat, s \in Nat : Plain(StepStart(t, s)) /\ Plain(StepEnd(t, s))
    /\ \A w \in UserRole : Plain(UserMessage(w))
    /\ Plain(AssistantMessage(<<>>))
    /\ \A n \in Nat : Plain(ToolCall(<<"wf", n>>)) /\ Plain(ToolResult(<<"wf", n>>))
  <1>1. /\ \A t \in Nat : Plain(TurnStart(t))
        /\ \A t \in Nat, r \in Reason : Plain(TurnEnd(t, r))
        /\ \A t \in Nat, s \in Nat : Plain(StepStart(t, s)) /\ Plain(StepEnd(t, s))
        /\ \A w \in UserRole : Plain(UserMessage(w))
    BY EventTypes DEF Plain, TurnStart, TurnEnd, StepStart, StepEnd, UserMessage
  <1>2. Plain(AssistantMessage(<<>>))
    <2>1. <<>> \in Seq(CallId)
      OBVIOUS
    <2> QED BY <2>1, EventTypes DEF Plain, AssistantMessage
  <1>3. ASSUME NEW n \in Nat
        PROVE  Plain(ToolCall(<<"wf", n>>)) /\ Plain(ToolResult(<<"wf", n>>))
    <2>1. <<"wf", n>> \in CallId /\ <<"wf", n>>[1] = "wf"
      BY DEF CallId
    <2> QED BY <2>1, EventTypes DEF Plain, ToolCall, ToolResult
  <1> QED BY <1>1, <1>2, <1>3

\* What a plain event is not
LEMMA PlainIsNone ==
    ASSUME NEW e, Plain(e)
    PROVE  /\ \A c : e \notin Asks(c)
           /\ \A c \in Ids : e # ToolCall(c) /\ e # ToolResult(c)
           /\ \A m : e \notin Others(m)
  <1>1. \A c : e \notin Asks(c)
    <2> SUFFICES ASSUME NEW c, e \in Asks(c) PROVE FALSE
      OBVIOUS
    <2>1. e.kind = "AssistantMessage" /\ \E n \in DOMAIN e.calls : e.calls[n] = c
      BY DEF Asks
    <2>2. e.calls = <<>>
      BY <2>1 DEF Plain
    <2>3. DOMAIN <<>> = {}
      OBVIOUS
    <2> QED BY <2>1, <2>2, <2>3
  <1>2. \A c \in Ids : e # ToolCall(c) /\ e # ToolResult(c)
    <2> SUFFICES ASSUME NEW c \in Ids, e.kind \in {"ToolCall", "ToolResult"} /\ e.id = c
                 PROVE  FALSE
      BY DEF ToolCall, ToolResult
    <2>1. c[1] = "llm"
      BY DEF Ids
    <2> QED BY <2>1 DEF Plain
  <1>3. \A m : e \notin Others(m)
    BY DEF Plain, Others
  <1> QED BY <1>1, <1>2, <1>3

\* One quiet change after another is quiet.
LEMMA QuietTrans ==
    ASSUME NEW s, NEW t, NEW u, Quiet(s, t), Quiet(t, u)
    PROVE  Quiet(s, u)
  BY DEF Quiet

\* So is no change.
LEMMA QuietSame ==
    ASSUME NEW s
    PROVE  Quiet(s, s)
  BY DEF Quiet

\* Appending a plain event
LEMMA QuietPush ==
    ASSUME NEW s \in Seq(Event), NEW e, Plain(e)
    PROVE  Quiet(s, Evict(Append(s, e)))
  <1> DEFINE t == Evict(Append(s, e))
  <1>1. e \in Event /\ e.kind # "RequestHeader"
    BY DEF Plain
  <1>2. \A c \in CallId : Waits(t, c) => Waits(s, c)
    BY <1>1, LeftPush, PlainIsNone DEF Waits
  <1>3. \A c \in Ids : Dangles(t, c) => Dangles(s, c)
    BY <1>1, LeftPush, PlainIsNone DEF Dangles
  <1>4. \A c \in Ids : Has(t, c) => Has(s, c)
    BY <1>1, LeftPush, PlainIsNone DEF Has
  <1>5. \A m : Left(t, Others(m), Notices) => Left(s, Others(m), Notices)
    BY <1>1, LeftPush, PlainIsNone
  <1>6. Announced(s) => Announced(t)
    <2>1. Append(s, e) \in Seq(Event)
      BY <1>1
    <2> QED BY <1>1, <2>1, AnnouncedAppend, AnnouncedEvict
  <1> QED BY <1>2, <1>3, <1>4, <1>5, <1>6 DEF Quiet

\* Dropping the oldest events
LEMMA QuietSuffix ==
    ASSUME NEW s \in Seq(Event), NEW t \in Seq(Event), NEW d \in 0 .. Len(s),
           Len(t) = Len(s) - d,
           \A i \in 1 .. Len(s) - d : t[i] = s[i + d]
    PROVE  Quiet(s, t)
  <1>1. Len(s) \in Nat
    OBVIOUS
  <1>2. \A A, B : Left(t, A, B) => Left(s, A, B)
    BY <1>1, LeftSuffix
  <1>3. Announced(s) => Announced(t)
    BY AnnouncedSuffix
  <1> QED BY <1>2, <1>3 DEF Quiet, Waits, Dangles, Has

\* An eviction
LEMMA QuietEvict ==
    ASSUME NEW s \in Seq(Event)
    PROVE  Quiet(s, Evict(s))
  <1>1. PICK d \in 0 .. Len(s) :
           /\ Len(Evict(s)) = Len(s) - d
           /\ \A i \in 1 .. Len(s) - d : Evict(s)[i] = s[i + d]
    BY EvictIndex
  <1>2. Evict(s) \in Seq(Event)
    BY EvictIndex
  <1> QED BY <1>1, <1>2, QuietSuffix

\* A compaction
LEMMA QuietCompaction ==
    ASSUME NEW l \in Log, NEW keep \in Nat
    PROVE  /\ Quiet(l.events, ApplyCompaction(l, keep).events)
           /\ ApplyCompaction(l, keep).lastModel = l.lastModel
  <1> DEFINE s == l.events
             t == ApplyCompaction(l, keep).events
             k == Len(s) - keep
  <1>0. s \in Seq(Event) /\ Len(s) \in Nat
    BY DEF Log
  <1>1. CASE Len(s) <= keep
    BY <1>1, QuietSame DEF ApplyCompaction
  <1>2. CASE Len(s) > keep
    <2>1. /\ Inserted(s, k, t)
          /\ ApplyCompaction(l, keep) = [l EXCEPT !.events = t]
      BY <1>2, CompactionShape
    <2>2. [l EXCEPT !.events = t].lastModel = l.lastModel
      BY DEF Log
    <2> HIDE DEF s, t, k
    <2>3. /\ \A c : CompactionSummary \notin Asks(c)
          /\ \A c : CompactionSummary \notin {ToolCall(c)}
          /\ \A c : CompactionSummary \notin {ToolResult(c)}
          /\ \A m : CompactionSummary \notin Others(m)
      BY DEF CompactionSummary, Asks, ToolCall, ToolResult, Others
    <2>4. \A A, B : CompactionSummary \notin A /\ Left(t, A, B) => Left(s, A, B)
      BY <1>0, <2>1, LeftInserted
    <2>5. Announced(s) => Announced(t)
      BY <1>0, <2>1, AnnouncedInserted
    <2>6. Quiet(s, t)
      BY <2>3, <2>4, <2>5 DEF Quiet, Waits, Dangles, Has
    <2> QED BY <2>1, <2>2, <2>6 DEF s, t
  <1> QED BY <1>0, <1>1, <1>2

\* Logs instead of their events; the model of the last turn is kept too.
Still(l, r) == r \in Log /\ r.lastModel = l.lastModel /\ Quiet(l.events, r.events)

\* One still change after another is still.
LEMMA StillTrans ==
    ASSUME NEW l, NEW r, NEW q, Still(l, r), Still(r, q)
    PROVE  Still(l, q)
  BY QuietTrans DEF Still

\* Appending a plain event to a log
LEMMA StillAppend ==
    ASSUME NEW l \in Log, NEW e, Plain(e)
    PROVE  Still(l, AppendEvent(l, e))
  <1> DEFINE t == Evict(Append(l.events, e))
  <1>1. l.events \in Seq(Event) /\ Append(l.events, e) \in Seq(Event)
    BY DEF Log, Plain
  <1>2. t \in Seq(Event) /\ Quiet(l.events, t)
    BY <1>1, EvictIndex, QuietPush
  <1>3. AppendEvent(l, e) = [l EXCEPT !.events = t]
    BY DEF AppendEvent
  <1> HIDE DEF t
  <1> QED BY <1>2, <1>3 DEF Still, Log

\* The start of a turn and of a step
LEMMA StillBegin ==
    ASSUME NEW l \in Log
    PROVE  Still(l, BeginTurn(l)) /\ Still(l, BeginStep(l))
  <1> DEFINE t == Evict(Append(l.events, TurnStart(l.turn + 1)))
             u == Evict(Append(l.events, StepStart(l.turn, l.step + 1)))
  <1>1. /\ l.events \in Seq(Event) /\ l.turn \in Nat /\ l.turn + 1 \in Nat /\ l.step + 1 \in Nat
        /\ l.lastModel \in Model \cup {NoModel}
    BY DEF Log
  <1>2. Plain(TurnStart(l.turn + 1)) /\ Plain(StepStart(l.turn, l.step + 1))
    BY <1>1, PlainEvents
  <1>3. /\ Append(l.events, TurnStart(l.turn + 1)) \in Seq(Event)
        /\ Append(l.events, StepStart(l.turn, l.step + 1)) \in Seq(Event)
    BY <1>1, <1>2 DEF Plain
  <1>4. t \in Seq(Event) /\ Quiet(l.events, t) /\ u \in Seq(Event) /\ Quiet(l.events, u)
    BY <1>1, <1>2, <1>3, EvictIndex, QuietPush
  <1> HIDE DEF t, u
  <1>5. /\ BeginTurn(l) = [l EXCEPT !.turn = l.turn + 1, !.step = 0, !.events = t]
        /\ BeginStep(l) = [l EXCEPT !.step = l.step + 1, !.events = u]
    BY DEF BeginTurn, BeginStep, t, u
  <1>6. /\ BeginTurn(l) = [events |-> t, turn |-> l.turn + 1, step |-> 0,
                           lastModel |-> l.lastModel]
        /\ BeginStep(l) = [events |-> u, turn |-> l.turn, step |-> l.step + 1,
                           lastModel |-> l.lastModel]
    BY <1>5 DEF Log
  <1> QED BY <1>1, <1>4, <1>6 DEF Still, Log

\* Their ends
LEMMA StillClose ==
    ASSUME NEW l \in Log, NEW r \in Reason
    PROVE  /\ Still(l, EndStep(l)) /\ Still(l, EndTurn(l, r))
           /\ Still(l, EndTurn(EndStep(l), r))
  <1>1. ASSUME NEW q \in Log
        PROVE  Still(q, EndStep(q)) /\ Still(q, EndTurn(q, r))
    <2>1. Plain(StepEnd(q.turn, q.step)) /\ Plain(TurnEnd(q.turn, r))
      BY PlainEvents DEF Log
    <2> QED BY <2>1, StillAppend DEF EndStep, EndTurn
  <1>2. EndStep(l) \in Log /\ Still(l, EndStep(l)) /\ Still(l, EndTurn(l, r))
    BY <1>1 DEF Still
  <1>3. Still(EndStep(l), EndTurn(EndStep(l), r))
    BY <1>1, <1>2
  <1> QED BY <1>2, <1>3, StillTrans

-----------------------------------------------------------------------------
(* Every call is answered, every switch announced                          *)

\* The inductive invariant of the answers and of the notices
Answering == Asked /\ Paired /\ Fresh
Announcing == "compact" \notin Commands => AllTold
JInv == IInv /\ Answering /\ Announcing

\* The steps that leave nothing behind and run none of the LLM's tools
LEMMA StillStep ==
    ASSUME JInv, Still(log, log'), flash' = flash, callsMade' = callsMade,
           cancelled' = cancelled,
           pc \in Running \cup {"returned"}, pc # "tool",
           pc = "tools" => pending = <<>> \/ cancelled,
           pc' \notin {"tools", "tool"},
           pc' = "stream" => stream'.fin # "done",
           pc' \in {"pre", "compacting"} => stream'.fin = "open"
    PROVE  Answering' /\ Announcing'
  <1>1. Quiet(log.events, log'.events) /\ log'.lastModel = log.lastModel
    BY DEF Still
  <1>2. Asked'
    <2>1. ~cancelled => \A c \in CallId : ~Waits(log.events, c)
      BY DEF JInv, Answering, Asked
    <2>2. ~cancelled => \A c \in CallId : ~Waits(log'.events, c)
      BY <1>1, <2>1 DEF Quiet
    <2> QED BY <2>2 DEF Asked
  <1>3. Paired'
    BY <1>1 DEF JInv, Answering, Paired, Quiet
  <1>4. Fresh'
    <2>1. Coming' = <<>>
      BY DEF Coming
    <2>2. \A k \in Nat : <<"llm", k>> \in Ids
      BY DEF Ids
    <2>3. DOMAIN Coming' = {}
      BY <2>1
    <2> QED BY <1>1, <2>2, <2>3 DEF JInv, Answering, Fresh, Quiet
  <1>5. Announcing'
    BY <1>1 DEF JInv, Announcing, AllTold, Told, Quiet
  <1> QED BY <1>2, <1>3, <1>4, <1>5 DEF Answering

\* What the type invariant says of the variables these proofs use
LEMMA LogIn ==
    ASSUME IInv
    PROVE  log \in Log /\ log.events \in Seq(Event) /\ flash \in Log /\ flash.events \in Seq(Event)
           /\ callsMade \in Nat /\ pending \in Seq(CallId) /\ stream.calls \in Seq(CallId)
           /\ KeepRecent * 6 \in Nat
  BY Ranges DEF IInv, TypeOK, Log

\* The steps of a turn that append plain events only, one lemma per kind: the
\* start of a step,
LEMMA EnterStepQuiet ==
    ASSUME JInv, EnterStep
    PROVE  Answering' /\ Announcing'
  BY LogIn, StillBegin, StillStep DEF JInv, EnterStep, Running, NoStream

\* the returns of the loop,
LEMMA ReturnsQuiet ==
    ASSUME JInv, AbortAtTop \/ StopBeforeStep \/ StopAfterStep
    PROVE  Answering' /\ Announcing'
  <1>1. \A r \in Reason : Still(log, EndTurn(log, r)) /\ Still(log, EndTurn(EndStep(log), r))
    BY LogIn, StillClose DEF JInv
  <1>2. Still(log, log')
    BY <1>1 DEF AbortAtTop, StopBeforeStep, StopAfterStep, Reason
  <1> QED BY <1>2, StillStep DEF AbortAtTop, StopBeforeStep, StopAfterStep, StepDone, Running, turnVars

\* the end of one step and the start of the next,
LEMMA NextStepQuiet ==
    ASSUME JInv, NextStep
    PROVE  Answering' /\ Announcing'
  <1>1. Still(log, EndStep(log))
    BY LogIn, StillClose DEF JInv, Reason
  <1> QED BY <1>1, StillStep DEF NextStep, StepDone, Running

\* the decisions before a request and a compaction,
LEMMA ProceedQuiet ==
    ASSUME JInv, PlanProceed \/ TodoProceed \/ Compacted
    PROVE  Answering' /\ Announcing'
  <1>1. log \in Log /\ Plain(UserMessage("guidance")) /\ KeepRecent * 6 \in Nat
    BY LogIn, PlainEvents DEF JInv, UserRole
  <1>2. /\ Still(log, log) /\ Still(log, AppendEvent(log, UserMessage("guidance")))
    BY <1>1, QuietSame, StillAppend DEF Still
  <1>3. Compacted => Still(log, log')
    <2>1. Good(ApplyCompaction(log, KeepRecent * 6))
      BY <1>1, CompactionGood, LogFacts DEF JInv
    <2>2. Still(log, ApplyCompaction(log, KeepRecent * 6))
      BY <1>1, <2>1, QuietCompaction DEF Still, Good
    <2> QED BY <1>2, <2>2 DEF Compacted
  <1>4. Still(log, log')
    BY <1>2, <1>3 DEF PlanProceed, TodoProceed, OpenContext
  <1>5. stream.fin = "open"
    BY DEF JInv, Answering, Fresh, PlanProceed, TodoProceed, Compacted
  <1>6. pc' \in {"compacting", "stream"} /\ pc \in {"pre", "compacting"}
    BY DEF PlanProceed, TodoProceed, Compacted, OpenContext
  <1>7. UNCHANGED <<flash, callsMade, cancelled, stream>>
    BY DEF PlanProceed, TodoProceed, Compacted
  <1> QED BY <1>4, <1>5, <1>6, <1>7, StillStep DEF Running

\* what the stream brings before its end,
LEMMA StreamQuiet ==
    ASSUME JInv, RecvDelta \/ RecvError
    PROVE  Answering' /\ Announcing'
  <1>1. Still(log, log)
    BY LogIn, QuietSame DEF Still, JInv
  <1>2. stream'.fin # "done"
    BY DEF RecvDelta, RecvError, JInv, IInv, TypeOK
  <1> QED BY <1>1, <1>2, StillStep DEF RecvDelta, RecvError, Running

\* the failures that end step and turn,
LEMMA FailsQuiet ==
    ASSUME JInv, RecvCancelled \/ StreamFailed \/ JudgeFailed
    PROVE  Answering' /\ Announcing'
  <1>1. /\ log \in Log /\ "Error" \in Reason
        /\ Still(log, log) /\ Still(log, AppendEvent(log, AssistantMessage(<<>>)))
    BY LogIn, PlainEvents, StillAppend, QuietSame DEF JInv, Still, Reason
  <1>2. PICK l \in Log : Still(log, l) /\ log' = EndTurn(EndStep(l), "Error")
    BY <1>1 DEF RecvCancelled, StreamFailed, JudgeFailed, FailStep, Still
  <1>3. Still(log, log')
    BY <1>1, <1>2, StillClose, StillTrans
  <1> QED BY <1>3, StillStep DEF RecvCancelled, StreamFailed, JudgeFailed, FailStep, Running

\* and the calls of a scripted turn.
LEMMA WorkflowQuiet ==
    ASSUME JInv, WorkflowStep
    PROVE  Answering' /\ Announcing'
  <1>1. log \in Log /\ current \in Nat /\ skill \in Skill
    BY DEF JInv, IInv, TypeOK
  <1>2. CASE ForceTool
    <2>1. PICK i \in 0 .. Len(skill.steps) - 1 : log' = AppendEvent(log, ToolCall(<<"wf", i>>))
      BY <1>2 DEF ForceTool
    <2>2. Plain(ToolCall(<<"wf", i>>))
      BY PlainEvents
    <2>3. Still(log, log')
      BY <1>1, <2>1, <2>2, StillAppend
    <2> QED BY <1>2, <2>3, StillStep DEF ForceTool, Running
  <1>3. CASE EndForcedTool
    <2>1. Still(log, log')
      BY <1>1, <1>3, PlainEvents, StillAppend DEF EndForcedTool
    <2> QED BY <1>3, <2>1, StillStep DEF EndForcedTool, Running
  <1>4. CASE ForceLlm
    <2>1. Still(log, log')
      BY <1>1, <1>4, QuietSame DEF ForceLlm, Still
    <2> QED BY <1>4, <2>1, StillStep DEF ForceLlm, Running
  <1>5. CASE JudgeAnswered
    <2>1. Still(log, log')
      BY <1>1, <1>5, PlainEvents, StillAppend DEF JudgeAnswered
    <2> QED BY <1>5, <2>1, StillStep DEF JudgeAnswered, Running
  <1>6. CASE JudgeFailed
    BY <1>6, FailsQuiet
  <1> QED BY <1>2, <1>3, <1>4, <1>5, <1>6 DEF WorkflowStep

\* A new turn settles what the turns before it left.
LEMMA StartTurnQuiet ==
    ASSUME JInv, NEW m \in Model, NEW k \in Skills, StartTurn(m, k)
    PROVE  Answering' /\ Announcing'
  <1> DEFINE a == BeginTurn(log)
             b == IF ModelSwitched(log, m)
                  THEN AppendEvent(a, UserMessage("notice")) ELSE a
             h == RequestHeader(m)
             c == AppendEvent(b, h)
             d == SetLastModel(c, m)
             e == AppendEvent(d, UserMessage("input"))
  <1>0. /\ pc = "idle" /\ log \in Log
        /\ Plain(UserMessage("notice")) /\ Plain(UserMessage("input"))
        /\ h \in Event /\ h.kind = "RequestHeader" /\ h.model = m
    BY LogIn, PlainEvents, EventTypes DEF StartTurn, UserRole, RequestHeader, JInv
  <1>1. Still(log, a) /\ \A x : ~Waits(a.events, x)
    <2>1. Still(log, a)
      BY <1>0, StillBegin
    <2>2. ASSUME NEW x, Waits(a.events, x) PROVE FALSE
      <3> DEFINE s == log.events
                 f == TurnStart(log.turn + 1)
      <3>1. s \in Seq(Event) /\ f \in Event /\ f \notin Asks(x) /\ f \in Settles(x)
        <4>1. log.turn + 1 \in Nat
          BY <1>0 DEF Log
        <4> QED BY <1>0, <4>1, EventTypes DEF Log, Asks, Settles, TurnStart
      <3>2. a.events = Evict(Append(s, f))
        BY <1>0 DEF BeginTurn, Log
      <3> HIDE DEF s, f, a
      <3> QED BY <2>2, <3>1, <3>2, LeftPush DEF Waits
    <2> QED BY <2>1, <2>2
  <1> HIDE DEF a
  <1>2. Still(a, b) /\ Still(log, b)
    BY <1>0, <1>1, StillAppend, StillTrans, QuietSame DEF Still
  <1>3. Quiet(b.events, b.events) /\ b \in Log /\ b.events \in Seq(Event) /\ b.lastModel = log.lastModel
    BY <1>2, QuietSame DEF Still, Log
  <1>n. ModelSwitched(log, m) => \A x : ~Left(b.events, Others(x), Notices)
    <2> SUFFICES ASSUME ModelSwitched(log, m), NEW x, Left(b.events, Others(x), Notices) PROVE FALSE
      OBVIOUS
    <2> DEFINE f == UserMessage("notice")
               s == a.events
    <2>1. /\ s \in Seq(Event) /\ f \in Event /\ f \in Notices /\ f \notin Others(x)
          /\ a \in Log
      BY <1>0, <1>1 DEF Still, Log, Plain, Notices, Others, UserMessage
    <2>2. b.events = Evict(Append(s, f))
      BY <2>1 DEF AppendEvent, Log
    <2> HIDE DEF b, f, s
    <2> QED BY <2>1, <2>2, LeftPush
  <1> HIDE DEF b
  <1>4. /\ c.events = Evict(Append(b.events, h)) /\ c \in Log
    <2> DEFINE t == Evict(Append(b.events, h))
    <2>0. Append(b.events, h) \in Seq(Event)
      BY <1>0, <1>3
    <2>1. t \in Seq(Event)
      BY <2>0, EvictIndex
    <2>2. c = [b EXCEPT !.events = t]
      BY DEF AppendEvent
    <2> HIDE DEF t, c, h
    <2> QED BY <1>3, <2>1, <2>2 DEF Log, t
  <1> HIDE DEF c
  <1>5. d \in Log /\ d.events = c.events /\ d.lastModel = m
    BY <1>4 DEF Log, SetLastModel
  <1> HIDE DEF d
  <1>6. Still(d, e) /\ log' = e
    BY <1>0, <1>5, StillAppend DEF StartTurn, OpenTurn, a, b, c, d
  <1> HIDE DEF e
  <1>7. /\ \A x \in CallId : ~Waits(log'.events, x)
        /\ \A x \in Ids : Dangles(log'.events, x) => Dangles(log.events, x)
        /\ \A x \in Ids : Has(log'.events, x) => Has(log.events, x)
    <2>1. /\ \A x : h \notin Asks(x) /\ h # ToolCall(x) /\ h # ToolResult(x)
      BY DEF Asks, ToolCall, ToolResult, RequestHeader
    <2> HIDE DEF h
    <2>2. /\ \A x \in CallId : Waits(d.events, x) => Waits(b.events, x)
          /\ \A x \in Ids : Dangles(d.events, x) => Dangles(b.events, x)
          /\ \A x \in Ids : Has(d.events, x) => Has(b.events, x)
      BY <1>0, <1>3, <1>4, <1>5, <2>1, LeftPush DEF Waits, Dangles, Has
    <2>3. Quiet(a.events, b.events) /\ Quiet(log.events, b.events) /\ Quiet(d.events, log'.events)
      BY <1>2, <1>6 DEF Still
    <2>4. \A x \in CallId : ~Waits(b.events, x)
      BY <1>1, <2>3 DEF Quiet
    <2> QED BY <2>2, <2>3, <2>4 DEF Quiet
  <1>8. Told(log) => Told(log')
    <2> SUFFICES ASSUME Told(log) PROVE Told(log')
      OBVIOUS
    <2>1. ~Left(b.events, Others(m), Notices)
      <3>1. CASE ModelSwitched(log, m)
        BY <1>n, <3>1
      <3>2. CASE ~ModelSwitched(log, m)
        <4>1. log.lastModel \in {NoModel, m}
          BY <3>2 DEF ModelSwitched
        <4>2. Others(m) \subseteq Others(log.lastModel)
          BY <4>1, ModelAssumption DEF Others, Event
        <4>3. ~Left(b.events, Others(log.lastModel), Notices)
          BY <1>2 DEF Told, Still, Quiet
        <4> QED BY <4>2, <4>3 DEF Left
      <3> QED BY <3>1, <3>2
    <2>2. Announced(b.events)
      BY <1>2 DEF Told, Still, Quiet
    <2>3. Announced(c.events)
      <3>1. Announced(Append(b.events, h)) /\ Append(b.events, h) \in Seq(Event)
        BY <1>0, <1>3, <2>1, <2>2, AnnouncedAppend
      <3> QED BY <1>4, <3>1, AnnouncedEvict
    <2>4. ~Left(c.events, Others(m), Notices)
      <3>1. h \notin Others(m)
        BY <1>0 DEF Others
      <3> HIDE DEF h
      <3> QED BY <1>0, <1>3, <1>4, <2>1, <3>1, LeftPush
    <2>5. Announced(log'.events) /\ ~Left(log'.events, Others(m), Notices) /\ log'.lastModel = m
      BY <1>5, <1>6, <2>3, <2>4 DEF Still, Quiet
    <2> QED BY <2>5 DEF Told
  <1>9. UNCHANGED <<flash, stream, pending, callsMade>> /\ pc' = "top"
    BY DEF StartTurn
  <1>10. Asked'
    BY <1>7 DEF Asked
  <1>11. Paired'
    BY <1>0, <1>7, <1>9 DEF Paired, JInv, Answering
  <1>12. Fresh'
    <2>1. Coming' = <<>>
      BY <1>9 DEF Coming
    <2>2. \A x \in Nat : <<"llm", x>> \in Ids
      BY DEF Ids
    <2>3. DOMAIN Coming' = {}
      BY <2>1
    <2> QED BY <1>7, <1>9, <2>2, <2>3 DEF JInv, Answering, Fresh
  <1>13. Announcing'
    BY <1>8, <1>9 DEF JInv, Announcing, AllTold
  <1> QED BY <1>10, <1>11, <1>12, <1>13 DEF Answering

\* Cancelling a turn only sets the flag.
LEMMA CancelQuiet ==
    ASSUME JInv, Cancel
    PROVE  Answering' /\ Announcing'
  <1>1. UNCHANGED <<log, flash, pc, stream, pending, callsMade>> /\ cancelled'
    BY DEF Cancel
  <1>2. Asked'
    BY <1>1 DEF Asked
  <1>3. Coming' = Coming
    BY <1>1 DEF Coming
  <1> QED BY <1>1, <1>2, <1>3
          DEF JInv, Answering, Announcing, Paired, Fresh, AllTold

\* Nothing happens.
LEMMA SameQuiet ==
    ASSUME JInv, UNCHANGED vars
    PROVE  Answering' /\ Announcing'
  <1>1. UNCHANGED <<log, flash, pc, stream, pending, callsMade, cancelled>>
    BY DEF vars
  <1>2. Coming' = Coming
    BY <1>1 DEF Coming
  <1> QED BY <1>1, <1>2
          DEF JInv, Answering, Announcing, Asked, Paired, Fresh, AllTold

\* The ids of the answer's calls are new.
LEMMA RecvDoneQuiet ==
    ASSUME JInv, RecvDone
    PROVE  Answering' /\ Announcing'
  <1>1. PICK n \in 0 .. MaxBatch :
           /\ callsMade + n <= MaxCalls
           /\ stream' = [stream EXCEPT !.fin = "done",
                           !.calls = [i \in 1 .. n |-> <<"llm", callsMade + i>>]]
           /\ callsMade' = callsMade + n
    BY DEF RecvDone
  <1>2. n \in Nat /\ callsMade \in Nat
    BY LogIn, BoundsAssumption DEF JInv
  <1>3. pc = "stream" /\ UNCHANGED <<log, flash, pc, cancelled, pending>> /\ ~cancelled
    BY DEF RecvDone
  <1> DEFINE new == [i \in 1 .. n |-> <<"llm", callsMade + i>>]
  <1>4. Coming' = new
    <2>1. stream'.fin = "done" /\ stream'.calls = new
      BY <1>1 DEF JInv, IInv, TypeOK
    <2> QED BY <1>3, <2>1 DEF Coming
  <1>5. Asked'
    BY <1>3 DEF JInv, Answering, Asked
  <1>6. Paired'
    BY <1>3 DEF JInv, Answering, Paired
  <1>7. Fresh'
    <2>1. \A k \in Nat : Has(log'.events, <<"llm", k>>) \/ Has(flash'.events, <<"llm", k>>)
                         => k <= callsMade
      BY <1>3 DEF JInv, Answering, Fresh
    <2>2. \A k \in Nat : k <= callsMade => k <= callsMade'
      BY <1>1, <1>2
    <2>3. ASSUME NEW i \in 1 .. n
          PROVE  /\ \E k \in Nat : k <= callsMade' /\ new[i] = <<"llm", k>>
                 /\ ~Has(log'.events, new[i])
                 /\ \A m \in 1 .. n : m # i => new[m] # new[i]
      <3>1. new[i] = <<"llm", callsMade + i>> /\ callsMade + i \in Nat
        BY <1>2
      <3>2. callsMade + i <= callsMade' /\ ~(callsMade + i <= callsMade)
        BY <1>1, <1>2
      <3>3. ~Has(log'.events, new[i])
        BY <2>1, <3>1, <3>2
      <3>4. \A m \in 1 .. n : m # i => new[m] # new[i]
        BY <1>2
      <3> QED BY <3>1, <3>2, <3>3, <3>4
    <2>4. DOMAIN new = 1 .. n
      OBVIOUS
    <2> HIDE DEF new
    <2> QED BY <1>3, <1>4, <2>1, <2>2, <2>3, <2>4 DEF Fresh
  <1>8. Announcing'
    BY <1>3 DEF JInv, Announcing, AllTold
  <1> QED BY <1>5, <1>6, <1>7, <1>8 DEF Answering

\* What an appended event of the LLM's own means for Told
LEMMA ToldAppend ==
    ASSUME NEW l \in Log, NEW e \in Event, e.kind # "RequestHeader", Told(l)
    PROVE  Told(AppendEvent(l, e))
  <1> DEFINE s == l.events
             t == Evict(Append(s, e))
  <1>1. s \in Seq(Event) /\ Append(s, e) \in Seq(Event)
    BY DEF Log
  <1>2. Announced(t)
    BY <1>1, AnnouncedAppend, AnnouncedEvict DEF Told
  <1>3. ~Left(t, Others(l.lastModel), Notices)
    <2>1. e \notin Others(l.lastModel) /\ ~Left(s, Others(l.lastModel), Notices)
      BY DEF Others, Told
    <2> HIDE DEF s
    <2> QED BY <1>1, <2>1, LeftPush
  <1>4. AppendEvent(l, e).events = t /\ AppendEvent(l, e).lastModel = l.lastModel
    BY DEF AppendEvent, Log
  <1> HIDE DEF t
  <1> QED BY <1>2, <1>3, <1>4 DEF Told

\* An event that names no model leaves every switch announced.
LEMMA AnnouncingAppend ==
    ASSUME JInv, NEW e \in Event, e.kind # "RequestHeader",
           log' = AppendEvent(log, e), flash' = flash
    PROVE  Announcing'
  BY LogIn, ToldAppend DEF JInv, Announcing, AllTold

\* The message of the answer makes its calls wait.
LEMMA StreamClosedQuiet ==
    ASSUME JInv, StreamClosed
    PROVE  Answering' /\ Announcing'
  <1> DEFINE s == log.events
             e == AssistantMessage(stream.calls)
  <1>1. /\ pc = "stream" /\ stream.fin = "done" /\ pc' = "tools" /\ pending' = stream.calls
        /\ UNCHANGED <<flash, cancelled, stream, callsMade>>
        /\ log' = AppendEvent(log, e)
    BY DEF StreamClosed
  <1>2. s \in Seq(Event) /\ e \in Event /\ e.kind = "AssistantMessage" /\ e.calls = stream.calls
    BY LogIn, EventTypes DEF AssistantMessage, JInv
  <1>3. log'.events = Evict(Append(s, e))
    BY <1>1, LogIn DEF AppendEvent, Log, JInv
  <1>4. /\ \A c : e # ToolCall(c) /\ e # ToolResult(c)
        /\ \A c : e \in Asks(c) => \E n \in DOMAIN stream.calls : stream.calls[n] = c
    BY DEF Asks, ToolCall, ToolResult, AssistantMessage
  <1>5. Announcing'
    BY <1>1, <1>2, AnnouncingAppend
  <1> HIDE DEF s, e
  <1>6. Asked'
    <2>1. ASSUME ~cancelled, NEW c \in CallId, Waits(log'.events, c)
          PROVE  \E n \in DOMAIN pending' : pending'[n] = c
      <3>1. ~Waits(s, c)
        BY <1>1, <2>1 DEF JInv, Answering, Asked, Running, s
      <3>2. e \in Asks(c)
        BY <1>2, <1>3, <2>1, <3>1, LeftPush DEF Waits
      <3> QED BY <1>1, <1>4, <3>2
    <2> QED BY <1>1, <2>1 DEF Asked
  <1>7. \A c \in Ids : ~Dangles(log'.events, c)
    <2>1. \A c \in Ids : ~Dangles(s, c)
      BY <1>1 DEF JInv, Answering, Paired, s
    <2>2. \A c : e \notin {ToolCall(c)}
      BY <1>4
    <2>3. ASSUME NEW c \in Ids, Dangles(log'.events, c) PROVE FALSE
      <3>1. Left(s, {ToolCall(c)}, {ToolResult(c)})
        BY <1>2, <1>3, <2>2, <2>3, LeftPush DEF Dangles
      <3> QED BY <2>1, <3>1 DEF Dangles
    <2> QED BY <2>3
  <1>8. Paired'
    BY <1>1, <1>7 DEF JInv, Answering, Paired
  <1>9. Fresh'
    <2>1. \A c : Has(log'.events, c) => Has(s, c)
      BY <1>2, <1>3, <1>4, LeftPush DEF Has
    <2>2. Coming' = Coming
      BY <1>1 DEF Coming
    <2> QED BY <1>1, <2>1, <2>2 DEF JInv, Answering, Fresh, s
  <1> QED BY <1>5, <1>6, <1>8, <1>9 DEF Answering

\* A call is started: it dangles until its result.
LEMMA BeginToolQuiet ==
    ASSUME JInv, BeginTool
    PROVE  Answering' /\ Announcing'
  <1> DEFINE s == log.events
             c0 == Head(pending)
             e == ToolCall(c0)
  <1>1. /\ pc = "tools" /\ pending # <<>> /\ pc' = "tool"
        /\ UNCHANGED <<flash, cancelled, stream, pending, callsMade>>
        /\ log' = AppendEvent(log, e)
    BY DEF BeginTool
  <1>2. s \in Seq(Event) /\ c0 \in CallId /\ e \in Event /\ e.kind = "ToolCall" /\ e.id = c0
    BY <1>1, LogIn, EventTypes DEF ToolCall, JInv
  <1>3. log'.events = Evict(Append(s, e))
    BY <1>1, LogIn DEF AppendEvent, Log, JInv
  <1>4. /\ \A c : e \notin Asks(c) /\ e # ToolResult(c)
        /\ \A c : e \in {ToolCall(c)} => c = c0
    BY DEF Asks, ToolCall, ToolResult
  <1>5. Announcing'
    BY <1>1, <1>2, AnnouncingAppend
  <1> HIDE DEF s, e
  <1>6. Asked'
    <2>1. \A c : Waits(log'.events, c) => Waits(s, c)
      BY <1>2, <1>3, <1>4, LeftPush DEF Waits
    <2> QED BY <1>1, <2>1 DEF JInv, Answering, Asked, Running, s
  <1>7. \A c \in Ids : Dangles(log'.events, c) => c = c0
    <2>1. \A c \in Ids : ~Dangles(s, c)
      BY <1>1 DEF JInv, Answering, Paired, s
    <2> QED BY <1>2, <1>3, <1>4, <2>1, LeftPush DEF Dangles
  <1>8. Paired'
    BY <1>1, <1>7 DEF JInv, Answering, Paired
  <1>9. Fresh'
    <2>1. \A c : Has(log'.events, c) => Has(s, c)
      BY <1>2, <1>3, <1>4, LeftPush DEF Has
    <2>2. Coming' = Coming
      BY <1>1 DEF Coming
    <2> QED BY <1>1, <2>1, <2>2 DEF JInv, Answering, Fresh, s
  <1> QED BY <1>5, <1>6, <1>8, <1>9 DEF Answering

\* A call is answered, and the calls still to make are other ones.
LEMMA EndToolQuiet ==
    ASSUME JInv, EndTool
    PROVE  Answering' /\ Announcing'
  <1> DEFINE s == log.events
             c0 == Head(pending)
             e == ToolResult(c0)
             rest == Tail(pending)
  <1>1. /\ pc = "tool" /\ pc' = "tools" /\ pending' = rest
        /\ UNCHANGED <<flash, cancelled, stream, callsMade>>
        /\ log' = AppendEvent(log, e)
    BY DEF EndTool
  <1>2. pending # <<>> /\ pending \in Seq(CallId)
    BY <1>1, LogIn DEF JInv, IInv, Awaits
  <1>3. /\ c0 = pending[1] /\ 1 \in DOMAIN pending /\ c0 \in CallId
        /\ rest \in Seq(CallId)
        /\ \A n \in DOMAIN rest : n + 1 \in DOMAIN pending /\ rest[n] = pending[n + 1] /\ n + 1 # 1
        /\ \A n \in DOMAIN pending : n # 1 =>
              n - 1 \in DOMAIN rest /\ rest[n - 1] = pending[n]
    BY <1>2
  <1>4. Coming = pending /\ Coming' = rest
    BY <1>1 DEF Coming
  <1>5. s \in Seq(Event) /\ e \in Event /\ e.kind = "ToolResult"
    BY <1>3, LogIn, EventTypes DEF ToolResult, JInv
  <1>6. log'.events = Evict(Append(s, e))
    BY <1>1, LogIn DEF AppendEvent, Log, JInv
  <1>7. /\ \A c : e \notin Asks(c) /\ e # ToolCall(c)
        /\ \A c : e \in {ToolResult(c)} => c = c0
        /\ e \in Settles(c0) /\ e \in {ToolResult(c0)}
    BY <1>5 DEF Asks, ToolCall, ToolResult, Settles
  <1>8. Announcing'
    BY <1>1, <1>5, AnnouncingAppend
  <1> HIDE DEF s, e, rest, c0
  <1>9. Asked'
    <2>1. ASSUME ~cancelled, NEW c \in CallId, Waits(log'.events, c)
          PROVE  \E n \in DOMAIN rest : rest[n] = c
      <3>1. Waits(s, c) /\ e \notin Settles(c)
        BY <1>5, <1>6, <1>7, <2>1, LeftPush DEF Waits
      <3>2. PICK n \in DOMAIN pending : pending[n] = c
        BY <1>1, <2>1, <3>1 DEF JInv, Answering, Asked, Running, s
      <3>3. n # 1
        BY <1>3, <1>7, <3>1, <3>2
      <3> QED BY <1>3, <3>2, <3>3
    <2> QED BY <1>1, <2>1 DEF Asked
  <1>10. \A c \in Ids : ~Dangles(log'.events, c)
    <2>1. \A c \in Ids : Dangles(s, c) => c = c0
      BY <1>1 DEF JInv, Answering, Paired, s, c0
    <2>2. \A c : e \notin {ToolCall(c)}
      BY <1>7
    <2>3. ASSUME NEW c \in Ids, Dangles(log'.events, c) PROVE FALSE
      <3>1. e \notin {ToolResult(c)} /\ Left(s, {ToolCall(c)}, {ToolResult(c)})
        BY <1>5, <1>6, <2>2, <2>3, LeftPush DEF Dangles
      <3> QED BY <1>7, <2>1, <3>1 DEF Dangles
    <2> QED BY <2>3
  <1>11. Paired'
    BY <1>1, <1>10 DEF JInv, Answering, Paired
  <1>12. Fresh'
    <2>1. \A c : Has(log'.events, c) => Has(s, c) \/ c = c0
      BY <1>5, <1>6, <1>7, LeftPush DEF Has
    <2>2. \A n \in DOMAIN pending :
             /\ \E k \in Nat : k <= callsMade /\ pending[n] = <<"llm", k>>
             /\ ~Has(s, pending[n])
             /\ \A m \in DOMAIN pending : m # n => pending[m] # pending[n]
      BY <1>4 DEF JInv, Answering, Fresh, s
    <2>3. PICK k0 \in Nat : k0 <= callsMade /\ c0 = <<"llm", k0>>
      BY <1>3, <2>2
    <2>4. \A k \in Nat : Has(log'.events, <<"llm", k>>) \/ Has(flash.events, <<"llm", k>>)
                            => k <= callsMade
      <3>1. \A k \in Nat : Has(s, <<"llm", k>>) \/ Has(flash.events, <<"llm", k>>)
                            => k <= callsMade
        BY DEF JInv, Answering, Fresh, s
      <3>2. \A k \in Nat : <<"llm", k>> = c0 => k = k0
        BY <2>3
      <3> QED BY <2>1, <2>3, <3>1, <3>2
    <2>5. \A n \in DOMAIN rest :
             /\ \E k \in Nat : k <= callsMade /\ rest[n] = <<"llm", k>>
             /\ ~Has(log'.events, rest[n])
             /\ \A m \in DOMAIN rest : m # n => rest[m] # rest[n]
      <3> TAKE n \in DOMAIN rest
      <3>1. n \in Nat /\ n + 1 \in DOMAIN pending /\ rest[n] = pending[n + 1] /\ n + 1 # 1
        BY <1>3
      <3>2. rest[n] # c0 /\ ~Has(s, rest[n])
        BY <1>3, <2>2, <3>1
      <3>3. ASSUME NEW m \in DOMAIN rest, m # n PROVE rest[m] # rest[n]
        <4>1. m \in Nat /\ m + 1 \in DOMAIN pending /\ rest[m] = pending[m + 1] /\ m + 1 # n + 1
          BY <1>3, <3>1, <3>3
        <4> QED BY <2>2, <3>1, <4>1
      <3> QED BY <2>1, <2>2, <3>1, <3>2, <3>3
    <2> QED BY <1>1, <1>4, <2>4, <2>5 DEF Fresh
  <1> QED BY <1>8, <1>9, <1>11, <1>12 DEF Answering

-----------------------------------------------------------------------------
(* Between turns                                                           *)

\* The end of a turn saves the log.
LEMMA ReturnQuiet ==
    ASSUME JInv, ReturnSession
    PROVE  Answering' /\ Announcing'
  <1>1. /\ pc = "returned" /\ pc' = "idle" /\ (flash' = log \/ flash' = flash)
        /\ UNCHANGED <<log, stream, pending, cancelled, callsMade>>
    BY DEF ReturnSession, Saved
  <1>2. Asked'
    BY <1>1 DEF Asked, Running
  <1>3. Paired'
    BY <1>1 DEF Paired, JInv, Answering
  <1>4. Fresh'
    <2>1. Coming' = Coming
      BY <1>1 DEF Coming
    <2> QED BY <1>1, <2>1 DEF JInv, Answering, Fresh
  <1>5. Announcing'
    BY <1>1 DEF JInv, Announcing, AllTold
  <1> QED BY <1>2, <1>3, <1>4, <1>5 DEF Answering

\* Between turns the log is replaced by what some log left.
LEMMA RestQuiet ==
    ASSUME JInv, pc' = "idle", callsMade' = callsMade,
           NEW s \in {log.events, flash.events, <<>>}, Quiet(s, log'.events),
           pc \in {"idle", "returned"} \/ s = flash.events,
           flash' \in {log', flash},
           "compact" \notin Commands => Told(log')
    PROVE  Answering' /\ Announcing'
  <1>0. \A A, B : ~Left(<<>>, A, B)
    BY DEF Left
  <1>1. Asked'
    BY DEF Asked, Running
  <1>2. \A c \in Ids : ~Dangles(s, c)
    BY <1>0 DEF JInv, Answering, Paired, Dangles
  <1>3. Paired'
    BY <1>2 DEF Paired, Quiet, JInv, Answering
  <1>4. Fresh'
    <2>1. Coming' = <<>>
      BY DEF Coming
    <2>2. \A k \in Nat : <<"llm", k>> \in Ids
      BY DEF Ids
    <2>3. DOMAIN Coming' = {}
      BY <2>1
    <2>4. \A k \in Nat : Has(s, <<"llm", k>>) => k <= callsMade
      BY <1>0 DEF JInv, Answering, Fresh, Has
    <2>5. \A k \in Nat : Has(log'.events, <<"llm", k>>) => k <= callsMade
      BY <2>2, <2>4 DEF Quiet
    <2>6. \A k \in Nat : Has(flash.events, <<"llm", k>>) => k <= callsMade
      BY DEF JInv, Answering, Fresh
    <2> QED BY <2>3, <2>5, <2>6 DEF Fresh
  <1>5. Announcing'
    BY DEF JInv, Announcing, AllTold
  <1> QED BY <1>1, <1>3, <1>4, <1>5 DEF Answering

\* /clear leaves an empty log.
LEMMA ClearQuiet ==
    ASSUME JInv, ClearCommand
    PROVE  Answering' /\ Announcing'
  <1>1. /\ pc = "idle" /\ pc' = "idle" /\ log'.events = <<>> /\ flash' \in {log', flash}
        /\ callsMade' = callsMade
    BY DEF ClearCommand, Clear, NewLog, Saved
  <1>2. Quiet(<<>>, log'.events)
    BY <1>1, QuietSame
  <1>3. Told(log')
    <2>1. OfKind(<<>>, {"RequestHeader"}) = {}
      BY DEF OfKind
    <2> QED BY <1>1, <2>1 DEF Told, Announced, Left
  <1> QED BY <1>1, <1>2, <1>3, RestQuiet

\* /compact appends the last events to a cleared log.
LEMMA CompactQuiet ==
    ASSUME JInv, CompactCommand
    PROVE  Answering' /\ Announcing'
  <1> DEFINE s == log.events
             n == Len(s) - CompactKeep + 1
             t == SubSeq(s, n, Len(s))
  <1>1. /\ pc = "idle" /\ pc' = "idle" /\ flash' \in {log', flash}
        /\ "compact" \in Commands /\ callsMade' = callsMade
        /\ log' = Reappended(t)
    BY DEF CompactCommand, Saved
  <1>2. s \in Seq(Event) /\ Len(s) \in Nat /\ n \in 1 .. Len(s) /\ n - 1 \in 0 .. Len(s)
    BY LogIn DEF CompactCommand, CompactKeep, JInv
  <1>3. log'.events = Evict(t)
    BY <1>1 DEF Reappended
  <1> HIDE DEF s, n
  <1>4. t \in Seq(Event) /\ Len(t) = Len(s) - (n - 1)
    <2>1. \A i \in n .. Len(s) : s[i] \in Event
      BY <1>2
    <2>2. t \in Seq(Event) /\ Len(t) = Len(s) - n + 1
      BY <1>2, <2>1, SubSeqProperties
    <2> HIDE DEF t
    <2> QED BY <1>2, <2>2
  <1>5. \A i \in 1 .. Len(s) - (n - 1) : t[i] = s[i + (n - 1)]
    <2>1. \A i \in n .. Len(s) : s[i] \in Event
      BY <1>2
    <2>2. \A i \in 1 .. Len(s) - n + 1 : t[i] = s[n + i - 1]
      BY <1>2, <2>1, SubSeqProperties
    <2> HIDE DEF t
    <2> TAKE i \in 1 .. Len(s) - (n - 1)
    <2>3. i \in 1 .. Len(s) - n + 1 /\ n + i - 1 = i + (n - 1)
      BY <1>2
    <2> QED BY <2>2, <2>3
  <1> HIDE DEF t
  <1>6. Quiet(s, t)
    BY <1>2, <1>4, <1>5, QuietSuffix
  <1>7. Quiet(s, log'.events)
    BY <1>3, <1>4, <1>6, QuietEvict, QuietTrans
  <1> QED BY <1>1, <1>7, RestQuiet DEF s

\* A restart only evicts from the checkpoint.
LEMMA CrashQuiet ==
    ASSUME JInv, Crash
    PROVE  Answering' /\ Announcing'
  <1>1. pc' = "idle" /\ flash' = flash /\ callsMade' = callsMade /\ log' = Load(flash)
    BY DEF Crash
  <1> DEFINE r == [flash EXCEPT !.events = Evict(flash.events)]
  <1>2. flash \in Log /\ flash.events \in Seq(Event) /\ Ended(flash.events) /\ Chained(flash.events)
    BY LogIn, LogFacts DEF JInv, Good
  <1>3. r.events = Evict(flash.events) /\ r.lastModel = flash.lastModel
    BY <1>2 DEF Log
  <1>4. log' = r
    <2>1. Evict(flash.events) \in Seq(Event) /\ Ended(Evict(flash.events))
      BY <1>2, EvictChained DEF Ended
    <2>2. ~TurnOpen(r.events)
      BY <1>3, <2>1, EndedNotOpen
    <2>3. Load(flash) = Repair(r)
      BY DEF Load
    <2> HIDE DEF r
    <2> QED BY <1>1, <2>2, <2>3 DEF Repair
  <1> HIDE DEF r
  <1>5. Quiet(flash.events, log'.events)
    BY <1>2, <1>3, <1>4, QuietEvict
  <1>6. "compact" \notin Commands => Told(log')
    BY <1>3, <1>4, <1>5 DEF JInv, Announcing, AllTold, Told, Quiet
  <1> QED BY <1>1, <1>5, <1>6, RestQuiet

-----------------------------------------------------------------------------

\* The invariant holds at the start,
LEMMA JInit == Init => JInv
  <1> SUFFICES ASSUME Init PROVE JInv
    OBVIOUS
  <1>1. log.events = <<>> /\ flash.events = <<>> /\ pc = "idle" /\ Coming = <<>>
    BY DEF Init, NewLog, Coming
  <1>2. \A A, B : ~Left(<<>>, A, B)
    BY DEF Left
  <1>3. OfKind(<<>>, {"RequestHeader"}) = {} /\ DOMAIN <<>> = {}
    BY DEF OfKind
  <1>4. Asked /\ Paired
    BY <1>1, <1>2 DEF Asked, Paired, Dangles, Running
  <1>5. Fresh
    BY <1>1, <1>2, <1>3 DEF Fresh, Has
  <1>6. Announcing
    BY <1>1, <1>2, <1>3 DEF Announcing, AllTold, Told, Announced
  <1> QED BY <1>4, <1>5, <1>6, InitOK DEF JInv, Answering

\* every step keeps it,
LEMMA JNext == JInv /\ [Next]_vars => JInv'
  <1> SUFFICES ASSUME JInv, [Next]_vars PROVE JInv'
    OBVIOUS
  <1>1. IInv'
    BY NextOK DEF JInv
  <1>2. CASE \E m \in Model, k \in Skills : StartTurn(m, k)
    BY <1>1, <1>2, StartTurnQuiet DEF JInv
  <1>3. CASE EnterStep \/ AbortAtTop \/ StopBeforeStep
    BY <1>1, <1>3, EnterStepQuiet, ReturnsQuiet DEF JInv
  <1>4. CASE LlmStep
    BY <1>1, <1>4, ProceedQuiet, StreamQuiet, RecvDoneQuiet, FailsQuiet, StreamClosedQuiet,
       BeginToolQuiet, EndToolQuiet
    DEF LlmStep, JInv
  <1>5. CASE WorkflowStep
    BY <1>1, <1>5, WorkflowQuiet DEF JInv
  <1>6. CASE NextStep \/ StopAfterStep \/ ReturnSession
    BY <1>1, <1>6, NextStepQuiet, ReturnsQuiet, ReturnQuiet DEF JInv
  <1>7. CASE Cancel \/ ClearCommand \/ CompactCommand \/ Crash
    BY <1>1, <1>7, CancelQuiet, ClearQuiet, CompactQuiet, CrashQuiet DEF JInv
  <1>8. CASE UNCHANGED vars
    BY <1>1, <1>8, SameQuiet DEF JInv
  <1> QED BY <1>2, <1>3, <1>4, <1>5, <1>6, <1>7, <1>8 DEF Next, TurnStep

\* and so it holds in every behaviour.
LEMMA AlwaysJ == Spec => []JInv
  BY JInit, JNext, PTL DEF Spec

\* The index found is the last of its kind.
LEMMA LastOfKindLast ==
    ASSUME NEW evs \in Seq(Event), NEW K
    PROVE  /\ LastOfKind(evs, K) \in 0 .. Len(evs)
           /\ \A j \in OfKind(evs, K) : j <= LastOfKind(evs, K)
  <1>1. CASE OfKind(evs, K) = {}
    BY <1>1 DEF LastOfKind
  <1>2. CASE OfKind(evs, K) # {}
    <2>1. \E i \in OfKind(evs, K) : \A j \in OfKind(evs, K) : j <= i
      <3> DEFINE T == {Len(evs) - i : i \in OfKind(evs, K)}
      <3>1. T \subseteq Nat /\ T # {}
        BY <1>2 DEF OfKind
      <3>2. PICK m \in T : \A n \in T : m <= n
        <4> HIDE DEF T
        <4> QED BY <3>1, Least
      <3>3. PICK i \in OfKind(evs, K) : m = Len(evs) - i
        BY <3>2
      <3>4. \A j \in OfKind(evs, K) : j <= i
        <4> TAKE j \in OfKind(evs, K)
        <4>1. Len(evs) - i <= Len(evs) - j
          BY <3>2, <3>3
        <4>2. i \in Nat /\ j \in Nat /\ Len(evs) \in Nat
          BY DEF OfKind
        <4> QED BY <4>1, <4>2
      <3> QED BY <3>4
    <2> QED BY <1>2, <2>1 DEF LastOfKind, OfKind
  <1> QED BY <1>1, <1>2

\* A call of the latest turn without a result waits, and nothing after the
\* message that asked for it settles it.
LEMMA UnmetWaits ==
    ASSUME NEW s \in Seq(Event), NEW c, c \in Unmet(LatestTurn(s))
    PROVE  /\ c \in CallId
           /\ \E i \in 1 .. Len(s) :
                 s[i] \in Asks(c) /\ \A j \in i + 1 .. Len(s) : s[j] \notin Settles(c)
  <1> DEFINE evs == LatestTurn(s)
             f == LastOfKind(s, {"TurnStart"})
             d == IF f = 0 THEN 0 ELSE f - 1
  <1>1. /\ Len(s) \in Nat
        /\ f \in 0 .. Len(s) /\ \A j \in OfKind(s, {"TurnStart"}) : j <= f
    BY LastOfKindLast
  <1>2. /\ d \in 0 .. Len(s) /\ Len(evs) = Len(s) - d /\ evs \in Seq(Event)
        /\ \A j \in 1 .. Len(s) - d : evs[j] = s[j + d]
        /\ f <= d + 1
    <2>1. CASE f = 0
      BY <1>1, <2>1 DEF LatestTurn
    <2>2. CASE f # 0
      <3>1. f \in 1 .. Len(s) /\ evs = SubSeq(s, f, Len(s)) /\ d = f - 1
        BY <1>1, <2>2, SMTT(30) DEF LatestTurn
      <3> HIDE DEF f, d, evs
      <3>2. \A j \in f .. Len(s) : s[j] \in Event
        BY <1>1, <3>1
      <3>3. /\ evs \in Seq(Event) /\ Len(evs) = Len(s) - f + 1
            /\ \A j \in 1 .. Len(s) - f + 1 : evs[j] = s[f + j - 1]
        BY <1>1, <3>1, <3>2, SubSeqProperties
      <3>4. \A j \in 1 .. Len(s) - d : evs[j] = s[j + d]
        <4> TAKE j \in 1 .. Len(s) - d
        <4>1. j \in 1 .. Len(s) - f + 1 /\ f + j - 1 = j + d
          BY <1>1, <3>1
        <4> QED BY <3>3, <4>1
      <3> QED BY <1>1, <3>1, <3>3, <3>4
    <2> QED BY <2>1, <2>2
  <1> HIDE DEF f, d, evs
  <1>3. PICK i \in OfKind(evs, {"AssistantMessage"}) :
           /\ c \in CallsOf(evs[i])
           /\ \A j \in OfKind(evs, {"ToolResult"}) : j > i => evs[j].id # c
    BY DEF Unmet, evs
  <1>4. PICK n \in DOMAIN evs[i].calls : evs[i].calls[n] = c
    BY <1>3 DEF CallsOf
  <1>5. /\ i \in 1 .. Len(s) - d /\ evs[i] \in Event /\ evs[i].kind = "AssistantMessage"
        /\ evs[i] = s[i + d]
    BY <1>2 DEF OfKind
  <1>6. c \in CallId
    <2>1. evs[i].calls \in Seq(CallId)
      BY <1>5 DEF Event
    <2>2. \A q \in Seq(CallId) : \A m \in DOMAIN q : q[m] \in CallId
      OBVIOUS
    <2> QED BY <1>4, <2>1, <2>2, Zenon
  <1>7. i + d \in 1 .. Len(s) /\ s[i + d] \in Asks(c)
    BY <1>1, <1>2, <1>4, <1>5 DEF Asks
  <1>8. ASSUME NEW j \in (i + d) + 1 .. Len(s), s[j] \in Settles(c) PROVE FALSE
    <2>1. j \in DOMAIN s /\ j > f
      BY <1>1, <1>2, <1>5, <1>8
    <2>2. j \notin OfKind(s, {"TurnStart"})
      BY <1>1, <1>2, <2>1 DEF OfKind
    <2>3. s[j] = ToolResult(c)
      BY <1>8, <2>1, <2>2 DEF Settles, OfKind
    <2>4. j - d \in 1 .. Len(s) - d /\ (j - d) + d = j /\ j - d > i
      BY <1>1, <1>2, <1>5, <1>8
    <2>5. evs[j - d] = ToolResult(c) /\ j - d \in DOMAIN evs
      BY <1>2, <2>3, <2>4
    <2>6. j - d \in OfKind(evs, {"ToolResult"}) /\ evs[j - d].id = c
      BY <2>5 DEF OfKind, ToolResult
    <2> QED BY <1>3, <2>4, <2>6
  <1> QED BY <1>6, <1>7, <1>8

\* A call that waits for nothing has been answered within its turn.
LEMMA AskedAnswers ==
    ASSUME JInv
    PROVE  CallsAnswered
  <1> SUFFICES ASSUME ~cancelled, pc \in {"returned", "top", "pre"},
                      NEW c \in Unmet(ThisTurn)
               PROVE  FALSE
    BY DEF CallsAnswered
  <1>1. log.events \in Seq(Event)
    BY LogIn DEF JInv
  <1>2. c \in CallId /\ Waits(log.events, c)
    BY <1>1, UnmetWaits DEF Waits, Left, ThisTurn
  <1> QED BY <1>2 DEF JInv, Answering, Asked, Running

\* In every behaviour a turn that was not cancelled has answered every call its
\* LLM asked for before the LLM is asked again and when the turn returns.
THEOREM AlwaysAnswered == Spec => []CallsAnswered
  BY AlwaysJ, AskedAnswers, PTL

\* In every behaviour without /compact, whose new log does not know the model of the
\* last turn, the LLM that takes over is told so: between the headers of two
\* turns of different models stands the notice of the switch.
THEOREM AlwaysAnnounced == "compact" \notin Commands => (Spec => []SwitchAnnounced)
  <1> SUFFICES ASSUME "compact" \notin Commands PROVE Spec => []SwitchAnnounced
    OBVIOUS
  <1>1. JInv => SwitchAnnounced
    BY DEF JInv, Announcing, AllTold, Told, Announced, SwitchAnnounced, UserMessage
  <1> QED BY AlwaysJ, <1>1, PTL

-----------------------------------------------------------------------------
\* A log with events after it that ask for nothing
Closing(s, t) ==
    /\ t \in Seq(Event) /\ Len(s) <= Len(t)
    /\ \A i \in 1 .. Len(s) : t[i] = s[i]
    /\ \A i \in OfKind(t, {"AssistantMessage"}) : i <= Len(s)

\* What is loaded is what the ring holds and the events that close it.
LEMMA LoadCloses ==
    ASSUME log \in Log
    PROVE  Closing(Evict(log.events), Load(log).events)
  <1> DEFINE ev == Evict(log.events)
             r == [log EXCEPT !.events = ev]
             evs == Load(log).events
  <1>1. ev \in Seq(Event) /\ r \in Log /\ r.events = ev /\ Load(log) = Repair(r)
    <2>1. ev \in Seq(Event)
      BY EvictIndex DEF Log
    <2> HIDE DEF ev
    <2> QED BY <2>1 DEF Log, Load, ev
  <1> HIDE DEF ev, r
  <1>2. Len(ev) \in Nat /\ DOMAIN ev = 1 .. Len(ev)
    BY <1>1
  <1>3. CASE ~TurnOpen(ev)
    <2>1. evs = ev
      BY <1>1, <1>3 DEF Repair
    <2> HIDE DEF evs
    <2> QED BY <1>1, <1>2, <2>1 DEF Closing, OfKind, evs, ev
  <1>4. CASE TurnOpen(ev)
    <2> DEFINE open == Unanswered(ev)
               I == {i \in OfKind(ev, {"ToolCall"}) : ev[i].id \notin AnsweredIds(ev)}
               fixes == [i \in DOMAIN open |-> ToolResult(open[i].id)]
               turn == ev[LastOfKind(ev, {"TurnStart"})].turn
               final == TurnEnd(turn, "Aborted")
               full == (ev \o fixes) \o <<final>>
               Quit == {e \in Event : e.kind # "AssistantMessage"}
    <2>1. /\ open \in Seq(Event)
          /\ \A k \in DOMAIN open : \E i \in I \cap DOMAIN ev : open[k] = ev[i]
      <3>1. open = Picked(ev, I)
        BY DEF Unanswered
      <3> HIDE DEF open, I
      <3> QED BY <1>1, <3>1, PickedElements
    <2>2. evs = full
      <3>1. Repair(r) = [r EXCEPT !.events = full]
        BY <1>1, <1>4 DEF Repair
      <3> HIDE DEF full
      <3>2. [r EXCEPT !.events = full].events = full
        BY <1>1 DEF Log
      <3> QED BY <1>1, <3>1, <3>2 DEF evs
    <2>3. final \in Quit
      <3>1. LastOfKind(ev, {"TurnStart"}) \in OfKind(ev, {"TurnStart"})
        BY <1>1, <1>4, LastOfKindIn DEF TurnOpen
      <3>2. ev[LastOfKind(ev, {"TurnStart"})] \in Event /\ ev[LastOfKind(ev, {"TurnStart"})].kind = "TurnStart"
        BY <1>1, <3>1 DEF OfKind
      <3>3. turn \in Nat
        BY <3>2 DEF Event
      <3> HIDE DEF turn
      <3> QED BY <3>3 DEF TurnEnd, Event, Reason
    <2>4. fixes \in Seq(Quit)
      <3>1. \A k \in DOMAIN open : ToolResult(open[k].id) \in Quit
        <4> TAKE k \in DOMAIN open
        <4>1. PICK i \in I \cap DOMAIN ev : open[k] = ev[i]
          BY <2>1
        <4>2. ev[i] \in Event /\ ev[i].kind = "ToolCall"
          BY <1>1, <4>1 DEF OfKind
        <4>3. open[k].id \in CallId
          BY <4>1, <4>2 DEF Event
        <4> HIDE DEF open
        <4> QED BY <4>3 DEF ToolResult, Event
      <3>2. DOMAIN open = 1 .. Len(open) /\ Len(open) \in Nat
        BY <2>1
      <3> HIDE DEF open, Quit
      <3> QED BY <3>1, <3>2
    <2> HIDE DEF fixes, final, open, full
    <2> DEFINE tail == fixes \o <<final>>
    <2>5. tail \in Seq(Quit) /\ full = ev \o tail
      <3> HIDE DEF Quit
      <3> QED BY <1>1, <2>3, <2>4, SMTT(30) DEF full
    <2>6. tail \in Seq(Event) /\ \A k \in 1 .. Len(tail) : tail[k].kind # "AssistantMessage"
      <3> HIDE DEF tail
      <3> QED BY <2>5
    <2> HIDE DEF tail, Quit
    <2>7. /\ full \in Seq(Event) /\ Len(full) = Len(ev) + Len(tail) /\ Len(tail) \in Nat
          /\ \A i \in 1 .. Len(ev) + Len(tail) :
                full[i] = IF i <= Len(ev) THEN ev[i] ELSE tail[i - Len(ev)]
      BY <1>1, <2>5, <2>6, ConcatProperties
    <2>8. \A i \in OfKind(full, {"AssistantMessage"}) : i <= Len(ev)
      <3> SUFFICES ASSUME NEW i \in OfKind(full, {"AssistantMessage"}), ~(i <= Len(ev)) PROVE FALSE
        BY <1>2, <2>7 DEF OfKind
      <3>1. i \in 1 .. Len(ev) + Len(tail) /\ full[i].kind = "AssistantMessage"
        BY <2>7 DEF OfKind
      <3>2. i - Len(ev) \in 1 .. Len(tail) /\ full[i] = tail[i - Len(ev)]
        BY <1>2, <2>7, <3>1
      <3> QED BY <2>6, <3>1, <3>2
    <2>9. Len(ev) <= Len(full) /\ \A i \in 1 .. Len(ev) : full[i] = ev[i]
      BY <1>2, <2>7
    <2> QED BY <2>2, <2>7, <2>8, <2>9 DEF Closing, ev
  <1> QED BY <1>3, <1>4

\* Every call the LLM's turn started is answered in what is loaded, as long
\* as the turn's first event is still in the ring.
LEMMA NothingDangles ==
    ASSUME JInv, OpeningKept
    PROVE  LET evs == Load(log).events
           IN  /\ ~TurnOpen(evs)
               /\ \A i \in OfKind(evs, {"ToolCall"}) : evs[i].id[1] = "llm" =>
                     \E j \in OfKind(evs, {"ToolResult"}) :
                        j > i /\ evs[j].id = evs[i].id
  <1> DEFINE s == log.events
             ev == Evict(s)
             r == [log EXCEPT !.events = ev]
             evs == Load(log).events
  <1>1. s \in Seq(Event) /\ ev \in Seq(Event) /\ r \in Log /\ r.events = ev
    <2>1. log \in Log /\ s \in Seq(Event)
      BY LogIn DEF JInv
    <2>2. ev \in Seq(Event)
      BY <2>1, EvictIndex
    <2> HIDE DEF ev
    <2> QED BY <2>1, <2>2 DEF Log
  <1>2. Load(log) = Repair(r)
    BY DEF Load
  <1>3. \A c \in Ids : Dangles(ev, c) => pc = "tool" /\ ~Has(ev, c)
    <2> SUFFICES ASSUME NEW c \in Ids, Dangles(ev, c) PROVE pc = "tool" /\ ~Has(ev, c)
      OBVIOUS
    <2>1. Dangles(s, c) /\ (Has(ev, c) => Has(s, c))
      BY <1>1, QuietEvict DEF Quiet
    <2>2. pc = "tool" /\ c = Head(pending)
      BY <2>1 DEF JInv, Answering, Paired
    <2>3. pending # <<>> /\ pending \in Seq(CallId)
      BY <2>2, LogIn DEF JInv, IInv, Awaits
    <2>4. Coming = pending /\ 1 \in DOMAIN pending /\ c = pending[1]
      BY <2>2, <2>3 DEF Coming
    <2>5. ~Has(s, c)
      BY <2>4 DEF JInv, Answering, Fresh
    <2> QED BY <2>1, <2>2, <2>5
  <1> HIDE DEF ev, r
  <1>4. CASE ~TurnOpen(ev)
    <2>1. evs = ev
      BY <1>1, <1>2, <1>4 DEF Repair
    <2>2. \A c \in Ids : ~Dangles(ev, c)
      BY <1>3, <1>4 DEF OpeningKept, ev
    <2> HIDE DEF evs
    <2>3. ASSUME NEW i \in OfKind(ev, {"ToolCall"}), ev[i].id[1] = "llm"
          PROVE  \E j \in OfKind(ev, {"ToolResult"}) : j > i /\ ev[j].id = ev[i].id
      <3>1. i \in 1 .. Len(ev) /\ ev[i] \in Event /\ ev[i].kind = "ToolCall"
        BY <1>1 DEF OfKind
      <3>2. ev[i].id \in CallId /\ ev[i] = ToolCall(ev[i].id)
        BY <3>1 DEF Event, ToolCall
      <3>3. ev[i].id \in Ids
        BY <2>3, <3>2 DEF CallId, Ids
      <3>4. PICK j \in i + 1 .. Len(ev) : ev[j] = ToolResult(ev[i].id)
        BY <2>2, <3>1, <3>2, <3>3 DEF Dangles, Left
      <3>5. j \in DOMAIN ev /\ j > i
        BY <1>1, <3>1, <3>4
      <3> QED BY <3>4, <3>5 DEF OfKind, ToolResult
    <2> QED BY <1>4, <2>1, <2>3 DEF evs
  <1>5. CASE TurnOpen(ev)
    <2> DEFINE open == Unanswered(ev)
               I == {i \in OfKind(ev, {"ToolCall"}) : ev[i].id \notin AnsweredIds(ev)}
               fixes == [i \in DOMAIN open |-> ToolResult(open[i].id)]
               turn == ev[LastOfKind(ev, {"TurnStart"})].turn
               final == TurnEnd(turn, "Aborted")
               full == (ev \o fixes) \o <<final>>
    <2>1. /\ open \in Seq(Event)
          /\ \A i \in I \cap DOMAIN ev : \E k \in DOMAIN open : open[k] = ev[i]
      <3>1. open = Picked(ev, I)
        BY DEF Unanswered
      <3> HIDE DEF open, I
      <3> QED BY <1>1, <3>1, PickedElements
    <2>2. evs = full
      <3>1. Repair(r) = [r EXCEPT !.events = full]
        BY <1>1, <1>5 DEF Repair
      <3> HIDE DEF full, evs
      <3>2. [r EXCEPT !.events = full].events = full
        BY <1>1 DEF Log
      <3> QED BY <1>2, <3>1, <3>2 DEF evs
    <2> DEFINE E == {ev[i] : i \in DOMAIN ev} \cup {fixes[i] : i \in DOMAIN fixes} \cup {final}
    <2>3. fixes \in Seq(E) /\ ev \in Seq(E) /\ <<final>> \in Seq(E) /\ Len(fixes) = Len(open)
          /\ Len(fixes) \in Nat /\ Len(ev) \in Nat /\ DOMAIN fixes = 1 .. Len(open)
          /\ DOMAIN open = 1 .. Len(open)
      <3>1. DOMAIN open = 1 .. Len(open) /\ Len(open) \in Nat
        BY <2>1
      <3>2. fixes \in Seq(E) /\ Len(fixes) = Len(open)
        <4> HIDE DEF open
        <4> QED BY <3>1
      <3>3. ev \in Seq(E)
        BY <1>1
      <3>4. <<final>> \in Seq(E)
        BY DEF E
      <3> QED BY <1>1, <3>1, <3>2, <3>3, <3>4
    <2>e. ev \o fixes \in Seq(E) /\ full \in Seq(E)
      <3> HIDE DEF E, fixes, final
      <3> QED BY <2>3, ConcatProperties
    <2>4. /\ Len(full) = Len(ev) + Len(fixes) + 1
          /\ \A i \in 1 .. Len(ev) : full[i] = ev[i]
          /\ \A i \in 1 .. Len(fixes) : full[Len(ev) + i] = fixes[i]
          /\ full[Len(full)] = final
      <3> DEFINE h == ev \o fixes
                 z == <<final>>
      <3>0. Len(z) = 1 /\ z[1] = final
        OBVIOUS
      <3>z. full = h \o z /\ z \in Seq(E)
        BY <2>3
      <3> HIDE DEF E, fixes, final, z, full
      <3>1. /\ h \in Seq(E) /\ Len(h) = Len(ev) + Len(fixes)
            /\ \A i \in 1 .. Len(ev) + Len(fixes) :
                  h[i] = IF i <= Len(ev) THEN ev[i] ELSE fixes[i - Len(ev)]
        BY <2>3, ConcatProperties
      <3> HIDE DEF h
      <3>2. /\ Len(full) = Len(h) + Len(z)
            /\ \A i \in 1 .. Len(h) + Len(z) :
                  full[i] = IF i <= Len(h) THEN h[i] ELSE z[i - Len(h)]
        BY <3>z, <3>1, ConcatProperties
      <3>3. \A i \in 1 .. Len(ev) : full[i] = ev[i]
        <4> TAKE i \in 1 .. Len(ev)
        <4>1. i \in 1 .. Len(h) + Len(z) /\ i <= Len(h) /\ i \in 1 .. Len(ev) + Len(fixes) /\ i <= Len(ev)
          BY <2>3, <3>0, <3>1
        <4> QED BY <3>1, <3>2, <4>1
      <3>4. \A i \in 1 .. Len(fixes) : full[Len(ev) + i] = fixes[i]
        <4> TAKE i \in 1 .. Len(fixes)
        <4> DEFINE k == Len(ev) + i
        <4>1. /\ k \in 1 .. Len(h) + Len(z) /\ k <= Len(h) /\ k \in 1 .. Len(ev) + Len(fixes)
              /\ ~(k <= Len(ev)) /\ k - Len(ev) = i
          BY <2>3, <3>0, <3>1
        <4> HIDE DEF k
        <4> QED BY <3>1, <3>2, <4>1 DEF k
      <3>5. full[Len(full)] = final
        <4>1. Len(full) = Len(h) + 1 /\ Len(full) \in 1 .. Len(h) + Len(z) /\ ~(Len(full) <= Len(h))
              /\ Len(full) - Len(h) = 1
          BY <2>3, <3>0, <3>1, <3>2
        <4> QED BY <3>0, <3>2, <4>1
      <3> QED BY <3>0, <3>1, <3>2, <3>3, <3>4, <3>5
    <2> HIDE DEF full, E
    <2>5. ~TurnOpen(full)
      <3>1. full[Len(full)].kind = "TurnEnd" /\ Len(full) \in DOMAIN full
        BY <2>3, <2>e, <2>4 DEF TurnEnd
      <3>2. Len(full) \in OfKind(full, {"TurnEnd"}) /\ DOMAIN full = 1 .. Len(full) /\ Len(full) \in Nat
        BY <2>e, <3>1 DEF OfKind
      <3> QED BY <3>2 DEF TurnOpen, OfKind
    <2>6. ASSUME NEW i \in OfKind(full, {"ToolCall"}), full[i].id[1] = "llm"
          PROVE  \E j \in OfKind(full, {"ToolResult"}) : j > i /\ full[j].id = full[i].id
      <3>0. i \in 1 .. Len(full) /\ full[i].kind = "ToolCall" /\ DOMAIN full = 1 .. Len(full)
        BY <2>e DEF OfKind
      <3>1. i \in 1 .. Len(ev)
        <4>1. i # Len(full)
          BY <2>4, <3>0 DEF TurnEnd
        <4>2. ASSUME i > Len(ev) PROVE FALSE
          <5>1. i - Len(ev) \in 1 .. Len(fixes) /\ Len(ev) + (i - Len(ev)) = i
            BY <2>3, <2>4, <3>0, <4>1, <4>2
          <5>2. full[i] = fixes[i - Len(ev)]
            BY <2>4, <5>1
          <5>3. full[i].kind = "ToolResult"
            <6>1. i - Len(ev) \in DOMAIN open
              BY <2>3, <5>1
            <6> HIDE DEF open
            <6> QED BY <5>2, <6>1 DEF ToolResult
          <5> QED BY <3>0, <5>3
        <4> QED BY <2>3, <3>0, <4>2
      <3>2. full[i] = ev[i] /\ ev[i] \in Event /\ ev[i].kind = "ToolCall" /\ i \in OfKind(ev, {"ToolCall"})
        BY <1>1, <2>4, <3>0, <3>1 DEF OfKind
      <3> DEFINE c == ev[i].id
      <3>3. c \in CallId /\ ev[i] = ToolCall(c)
        BY <3>2 DEF Event, ToolCall
      <3>4. c \in Ids
        BY <2>6, <3>2, <3>3 DEF CallId, Ids
      <3> HIDE DEF c
      <3>5. CASE c \notin AnsweredIds(ev)
        <4>1. i \in I \cap DOMAIN ev
          BY <3>2, <3>5 DEF OfKind, c
        <4>2. PICK k \in DOMAIN open : open[k] = ev[i]
          BY <2>1, <4>1
        <4>3. k \in 1 .. Len(fixes) /\ fixes[k] = ToolResult(c)
          <5>1. k \in 1 .. Len(fixes)
            BY <2>3, <4>2
          <5> HIDE DEF open
          <5> QED BY <4>2, <5>1 DEF c
        <4> HIDE DEF fixes
        <4>4. /\ Len(ev) + k \in DOMAIN full /\ Len(ev) + k > i
              /\ full[Len(ev) + k] = ToolResult(c)
          BY <2>3, <2>4, <3>0, <3>1, <4>3
        <4>5. Len(ev) + k \in OfKind(full, {"ToolResult"}) /\ full[Len(ev) + k].id = full[i].id
          BY <3>2, <4>4 DEF OfKind, ToolResult, c
        <4> QED BY <4>4, <4>5
      <3>6. CASE c \in AnsweredIds(ev)
        <4>1. PICK q \in OfKind(ev, {"ToolResult"}) : ev[q].id = c
          BY <3>6 DEF AnsweredIds
        <4>2. q \in 1 .. Len(ev) /\ ev[q] = ToolResult(c)
          <5>1. q \in 1 .. Len(ev) /\ ev[q] \in Event /\ ev[q].kind = "ToolResult"
            BY <1>1 DEF OfKind
          <5> QED BY <4>1, <5>1 DEF Event, ToolResult
        <4>3. Has(ev, c)
          BY <4>2 DEF Has, Left
        <4>4. ~Dangles(ev, c)
          BY <1>3, <3>4, <4>3
        <4>5. PICK j \in i + 1 .. Len(ev) : ev[j] = ToolResult(c)
          BY <3>1, <3>3, <4>4 DEF Dangles, Left
        <4>6. j \in 1 .. Len(ev) /\ j \in DOMAIN full /\ j > i
          BY <2>3, <2>4, <3>0, <3>1, <4>5
        <4>7. full[j] = ToolResult(c)
          BY <2>4, <4>5, <4>6
        <4> QED BY <3>2, <4>6, <4>7 DEF OfKind, ToolResult, c
      <3> QED BY <3>5, <3>6
    <2> HIDE DEF evs
    <2> QED BY <2>2, <2>5, <2>6 DEF evs
  <1> QED BY <1>4, <1>5

\* What is loaded owes only calls that the interrupted turn had not begun.
LEMMA OwedNotBegun ==
    ASSUME JInv, OpeningKept, pc # "idle", ~cancelled,
           NEW c \in Unmet(LatestTurn(Load(log).events))
    PROVE  c \in NotBegun
  <1> DEFINE s == log.events
             ev == Evict(s)
             evs == Load(log).events
  <1>1. log \in Log /\ s \in Seq(Event) /\ ev \in Seq(Event) /\ Len(ev) \in Nat
    <2>1. log \in Log /\ s \in Seq(Event)
      BY LogIn DEF JInv
    <2>2. ev \in Seq(Event)
      BY <2>1, EvictIndex
    <2> HIDE DEF ev
    <2> QED BY <2>1, <2>2
  <1>2. Closing(ev, evs)
    BY <1>1, LoadCloses
  <1> HIDE DEF ev, evs
  <1>3. PICK i \in 1 .. Len(evs) :
           evs[i] \in Asks(c) /\ \A j \in i + 1 .. Len(evs) : evs[j] \notin Settles(c)
    BY <1>2, UnmetWaits DEF Closing, evs
  <1>4. c \in CallId
    BY <1>2, UnmetWaits DEF Closing, evs
  <1>5. Len(evs) \in Nat /\ Len(ev) <= Len(evs) /\ i \in 1 .. Len(ev) /\ evs[i] = ev[i]
    <2>1. i \in OfKind(evs, {"AssistantMessage"})
      BY <1>2, <1>3 DEF Closing, OfKind, Asks
    <2> QED BY <1>1, <1>2, <1>3, <2>1 DEF Closing
  <1>6. Waits(ev, c)
    <2>1. \A j \in i + 1 .. Len(ev) : ev[j] \notin Settles(c)
      <3> TAKE j \in i + 1 .. Len(ev)
      <3>1. j \in i + 1 .. Len(evs) /\ j \in 1 .. Len(ev)
        BY <1>1, <1>5
      <3> QED BY <1>2, <1>3, <3>1 DEF Closing
    <2> QED BY <1>3, <1>5, <2>1 DEF Waits, Left
  <1>7. Waits(s, c)
    BY <1>1, <1>6, LeftEvict DEF Waits, ev
  <1>8. pc \in Running \cup {"returned"}
    BY DEF JInv, IInv, TypeOK
  <1>9. pc \in {"tools", "tool"} /\ \E n \in DOMAIN pending : pending[n] = c
    BY <1>4, <1>7, <1>8 DEF JInv, Answering, Asked
  <1>10. PICK n \in 1 .. Len(pending) : pending[n] = c
    BY <1>9 DEF JInv, IInv, TypeOK
  <1>11. CASE pc = "tools"
    BY <1>10, <1>11 DEF NotBegun
  <1>12. CASE pc = "tool" /\ n # 1
    BY <1>10, <1>12 DEF NotBegun
  <1>13. CASE pc = "tool" /\ n = 1
    <2>1. c = Head(pending) /\ c \in Ids
      <3>1. pending \in Seq(CallId)
        BY DEF JInv, IInv, TypeOK
      <3>2. c = Head(pending) /\ n \in DOMAIN pending /\ Coming = pending
        BY <1>10, <1>13, <3>1 DEF Coming
      <3>3. \E k \in Nat : c = <<"llm", k>>
        BY <1>10, <3>2 DEF JInv, Answering, Fresh
      <3> QED BY <3>2, <3>3 DEF Ids
    <2>2. s # <<>> /\ s[Len(s)] = ToolCall(c)
      BY <1>13, <2>1 DEF JInv, IInv, Awaits, Running, Final
    <2>3. Len(ev) \in 1 .. Len(evs) /\ evs[Len(ev)] = ToolCall(c)
      <3>1. PICK d \in 0 .. Len(s) :
               /\ Len(ev) = Len(s) - d
               /\ \A k \in 1 .. Len(s) - d : ev[k] = s[k + d]
               /\ s # <<>> => d < Len(s)
        BY <1>1, EvictIndex DEF ev
      <3> HIDE DEF s
      <3>2. Len(s) \in Nat /\ d < Len(s)
        BY <1>1, <2>2, <3>1
      <3>3. Len(ev) \in 1 .. Len(s) - d /\ Len(ev) + d = Len(s)
        BY <3>1, <3>2
      <3>4. ev[Len(ev)] = s[Len(s)]
        BY <3>1, <3>3
      <3>5. Len(ev) \in 1 .. Len(ev) /\ Len(ev) \in 1 .. Len(evs)
        BY <1>1, <1>5
      <3>6. evs[Len(ev)] = ev[Len(ev)]
        BY <1>2, <3>5 DEF Closing
      <3> QED BY <2>2, <3>4, <3>5, <3>6
    <2>4. Len(ev) \in OfKind(evs, {"ToolCall"}) /\ evs[Len(ev)].id = c
      BY <1>2, <2>3 DEF Closing, OfKind, ToolCall
    <2>5. c[1] = "llm"
      BY <2>1 DEF Ids
    <2>6. PICK j \in OfKind(evs, {"ToolResult"}) : j > Len(ev) /\ evs[j].id = c
      BY <2>4, <2>5, NothingDangles DEF evs
    <2>7. j \in 1 .. Len(evs) /\ j \in i + 1 .. Len(evs) /\ evs[j] \in Event /\ evs[j].kind = "ToolResult"
      BY <1>1, <1>2, <1>5, <2>6 DEF Closing, OfKind
    <2>8. evs[j] \in Settles(c)
      BY <2>6, <2>7 DEF Settles, Event, ToolResult
    <2> QED BY <1>3, <2>7, <2>8
  <1> QED BY <1>9, <1>10, <1>11, <1>12, <1>13

\* In every behaviour the log a restart would load has no open turn, no call
\* that was begun without a result, and owes the LLM only the calls of the
\* interrupted batch that were not begun, provided that a crash in a running
\* call leaves the start of its turn in the ring: repair_interrupted_turn looks
\* for it to tell an open turn.
THEOREM RecoversClosed == Spec => [](OpeningKept => RecoveredClosed)
  <1>1. JInv => (OpeningKept => RecoveredClosed)
    BY NothingDangles, OwedNotBegun DEF RecoveredClosed
  <1> QED BY AlwaysJ, <1>1, PTL

-----------------------------------------------------------------------------
(* Steps that do nothing                                                   *)

\* The log ends with a step that did nothing.
EmptyLast(evs) ==
    /\ Len(evs) >= 2
    /\ evs[Len(evs) - 1].kind = "StepStart" /\ evs[Len(evs)].kind = "StepEnd"

\* A step that did nothing is the last of its turn.
EmptyEnds(evs) ==
    \A i \in 1 .. Len(evs) - 2 :
       evs[i].kind = "StepStart" /\ evs[i + 1].kind = "StepEnd" =>
          evs[i + 2].kind \in {"TurnEnd", "CompactionSummary"}

\* Steps that did nothing are the last of their turns, and none is open.
Tidy(evs) == EmptyEnds(evs) /\ ~EmptyLast(evs)

\* A compaction is begun only when it leaves something out.
Worthwhile == pc = "compacting" => Len(DeriveMessages(log)) > KeepRecent + 2

\* The inductive invariant of the compactions
KInv == IInv /\ Tidy(log.events) /\ Tidy(flash.events) /\ Worthwhile

-----------------------------------------------------------------------------

\* What is left of a tidy log is tidy.
LEMMA TidySuffix ==
    ASSUME NEW s \in Seq(Event), NEW t \in Seq(Event), NEW d \in 0 .. Len(s),
           Len(t) = Len(s) - d,
           \A i \in 1 .. Len(s) - d : t[i] = s[i + d],
           Tidy(s)
    PROVE  Tidy(t)
  <1>0. Len(s) \in Nat /\ Len(t) \in Nat /\ d \in Nat
    OBVIOUS
  <1>1. EmptyEnds(t)
    <2> SUFFICES ASSUME NEW i \in 1 .. Len(t) - 2,
                        t[i].kind = "StepStart", t[i + 1].kind = "StepEnd"
                 PROVE  t[i + 2].kind \in {"TurnEnd", "CompactionSummary"}
      BY DEF EmptyEnds
    <2>1. /\ i \in 1 .. Len(s) - d /\ i + 1 \in 1 .. Len(s) - d /\ i + 2 \in 1 .. Len(s) - d
          /\ i + d \in 1 .. Len(s) - 2 /\ (i + 1) + d = (i + d) + 1 /\ (i + 2) + d = (i + d) + 2
      BY <1>0
    <2>2. t[i] = s[i + d] /\ t[i + 1] = s[(i + d) + 1] /\ t[i + 2] = s[(i + d) + 2]
      BY <2>1
    <2> QED BY <2>1, <2>2 DEF Tidy, EmptyEnds
  <1>2. ~EmptyLast(t)
    <2> SUFFICES ASSUME EmptyLast(t) PROVE FALSE
      OBVIOUS
    <2>1. /\ Len(t) \in 1 .. Len(s) - d /\ Len(t) - 1 \in 1 .. Len(s) - d
          /\ Len(t) + d = Len(s) /\ (Len(t) - 1) + d = Len(s) - 1 /\ Len(s) >= 2
      BY <1>0 DEF EmptyLast
    <2>2. t[Len(t)] = s[Len(s)] /\ t[Len(t) - 1] = s[Len(s) - 1]
      BY <2>1
    <2> QED BY <2>1, <2>2 DEF Tidy, EmptyLast
  <1> QED BY <1>1, <1>2 DEF Tidy

\* So is the log after an eviction.
LEMMA TidyEvict ==
    ASSUME NEW s \in Seq(Event), Tidy(s)
    PROVE  Tidy(Evict(s))
  <1>1. PICK d \in 0 .. Len(s) :
           /\ Len(Evict(s)) = Len(s) - d
           /\ \A i \in 1 .. Len(s) - d : Evict(s)[i] = s[i + d]
    BY EvictIndex
  <1>2. Evict(s) \in Seq(Event)
    BY EvictIndex
  <1> QED BY <1>1, <1>2, TidySuffix

\* Appending: an empty step must be followed by the end of the turn, and
\* only the end of a step can end an empty one.
LEMMA EmptyAppend ==
    ASSUME NEW s \in Seq(Event), NEW e \in Event, EmptyEnds(s),
           EmptyLast(s) => e.kind \in {"TurnEnd", "CompactionSummary"}
    PROVE  LET t == Append(s, e)
           IN  /\ t \in Seq(Event) /\ EmptyEnds(t)
               /\ e.kind # "StepEnd" => ~EmptyLast(t)
               /\ s # <<>> /\ Final(s).kind # "StepStart" => ~EmptyLast(t)
  <1> DEFINE t == Append(s, e)
  <1>1. /\ Len(s) \in Nat /\ t \in Seq(Event) /\ Len(t) = Len(s) + 1 /\ t[Len(s) + 1] = e
        /\ \A i \in 1 .. Len(s) : t[i] = s[i]
    OBVIOUS
  <1> HIDE DEF t
  <1>2. EmptyEnds(t)
    <2> SUFFICES ASSUME NEW i \in 1 .. Len(t) - 2,
                        t[i].kind = "StepStart", t[i + 1].kind = "StepEnd"
                 PROVE  t[i + 2].kind \in {"TurnEnd", "CompactionSummary"}
      BY DEF EmptyEnds
    <2>1. i \in 1 .. Len(s) /\ i + 1 \in 1 .. Len(s) /\ t[i] = s[i] /\ t[i + 1] = s[i + 1]
      BY <1>1
    <2>2. CASE i + 2 = Len(s) + 1
      <3>1. i = Len(s) - 1 /\ i + 1 = Len(s) /\ Len(s) >= 2
        BY <1>1, <2>1, <2>2
      <3>2. EmptyLast(s)
        BY <2>1, <3>1 DEF EmptyLast
      <3> QED BY <1>1, <2>2, <3>2
    <2>3. CASE i + 2 # Len(s) + 1
      <3>1. i \in 1 .. Len(s) - 2 /\ i + 2 \in 1 .. Len(s)
        BY <1>1, <2>1, <2>3
      <3> QED BY <1>1, <2>1, <3>1 DEF EmptyEnds
    <2> QED BY <2>2, <2>3
  <1>3. e.kind # "StepEnd" => ~EmptyLast(t)
    BY <1>1 DEF EmptyLast
  <1>4. s # <<>> /\ Final(s).kind # "StepStart" => ~EmptyLast(t)
    <2> SUFFICES ASSUME s # <<>>, EmptyLast(t) PROVE Final(s).kind = "StepStart"
      OBVIOUS
    <2>1. Len(t) - 1 = Len(s) /\ Len(s) \in 1 .. Len(s)
      BY <1>1
    <2> QED BY <1>1, <2>1 DEF EmptyLast, Final
  <1> QED BY <1>1, <1>2, <1>3, <1>4 DEF t

\* A log whose events are tidy
TidyLog(l) == l \in Log /\ Tidy(l.events)

\* append_event appends and evicts.
LEMMA AppendEventIs ==
    ASSUME NEW l \in Log, NEW e \in Event
    PROVE  /\ AppendEvent(l, e) \in Log
           /\ AppendEvent(l, e).events = Evict(Append(l.events, e))
  <1> DEFINE t == Evict(Append(l.events, e))
  <1>1. Append(l.events, e) \in Seq(Event)
    BY DEF Log
  <1>2. t \in Seq(Event)
    BY <1>1, EvictIndex
  <1>3. AppendEvent(l, e) = [l EXCEPT !.events = t]
    BY DEF AppendEvent
  <1> HIDE DEF t
  <1> QED BY <1>2, <1>3 DEF Log, t

\* Appending an event that does not end an empty step
LEMMA TidyAppend ==
    ASSUME NEW l, TidyLog(l), NEW e \in Event,
           \/ e.kind # "StepEnd"
           \/ l.events # <<>> /\ Final(l.events).kind # "StepStart"
    PROVE  TidyLog(AppendEvent(l, e))
  <1>1. l.events \in Seq(Event) /\ l \in Log /\ Tidy(l.events)
    BY DEF TidyLog, Log
  <1>2. Append(l.events, e) \in Seq(Event) /\ Tidy(Append(l.events, e))
    BY <1>1, EmptyAppend DEF Tidy
  <1> QED BY <1>1, <1>2, TidyEvict, AppendEventIs DEF TidyLog

\* The start of a turn and of a step
LEMMA TidyBegin ==
    ASSUME NEW l, TidyLog(l)
    PROVE  TidyLog(BeginTurn(l)) /\ TidyLog(BeginStep(l))
  <1>1. /\ l.events \in Seq(Event) /\ Tidy(l.events) /\ l.turn + 1 \in Nat /\ l.turn \in Nat
        /\ l.step + 1 \in Nat
    BY DEF TidyLog, Log
  <1>2. ASSUME NEW e \in Event, e.kind # "StepEnd"
        PROVE  Tidy(Evict(Append(l.events, e)))
    <2>1. Append(l.events, e) \in Seq(Event) /\ Tidy(Append(l.events, e))
      BY <1>1, <1>2, EmptyAppend DEF Tidy
    <2> QED BY <2>1, TidyEvict
  <1>3. /\ BeginTurn(l).events = Evict(Append(l.events, TurnStart(l.turn + 1)))
        /\ BeginStep(l).events = Evict(Append(l.events, StepStart(l.turn, l.step + 1)))
    BY DEF BeginTurn, BeginStep, TidyLog, Log
  <1>4. /\ TurnStart(l.turn + 1) \in Event /\ TurnStart(l.turn + 1).kind # "StepEnd"
        /\ StepStart(l.turn, l.step + 1) \in Event
        /\ StepStart(l.turn, l.step + 1).kind # "StepEnd"
    BY <1>1, EventTypes DEF TurnStart, StepStart
  <1>5. BeginTurn(l) \in Log /\ BeginStep(l) \in Log
    BY StillBegin DEF Still, TidyLog
  <1> QED BY <1>2, <1>3, <1>4, <1>5 DEF TidyLog

\* The end of a turn
LEMMA TidyEndTurn ==
    ASSUME NEW l, TidyLog(l), NEW r \in Reason
    PROVE  TidyLog(EndTurn(l, r))
  <1>1. TurnEnd(l.turn, r) \in Event /\ TurnEnd(l.turn, r).kind # "StepEnd"
    BY EventTypes DEF TidyLog, Log, TurnEnd
  <1> QED BY <1>1, TidyAppend DEF EndTurn

\* The end of a step, empty or not, and of its turn
LEMMA TidyClose ==
    ASSUME NEW l, TidyLog(l), NEW r \in Reason
    PROVE  TidyLog(EndTurn(EndStep(l), r))
  <1> DEFINE e == StepEnd(l.turn, l.step)
             d == EndStep(l)
             f == TurnEnd(d.turn, r)
             s == Evict(Append(l.events, e))
  <1>1. l \in Log /\ l.events \in Seq(Event) /\ Tidy(l.events) /\ e \in Event
    BY EventTypes DEF TidyLog, Log
  <1>2. d \in Log /\ d.events = s
    BY <1>1, AppendEventIs DEF EndStep
  <1>3. f \in Event /\ f.kind = "TurnEnd" /\ d.turn \in Nat
    BY <1>2, EventTypes DEF Log, TurnEnd
  <1> HIDE DEF e, d, f
  <1>4. EndTurn(d, r).events = Evict(Append(s, f)) /\ EndTurn(d, r) \in Log
    BY <1>2, <1>3, AppendEventIs DEF EndTurn, f
  <1>5. Append(l.events, e) \in Seq(Event) /\ EmptyEnds(Append(l.events, e))
    BY <1>1, EmptyAppend DEF Tidy
  <1>6. s \in Seq(Event) /\ EmptyEnds(s)
    <2> DEFINE a == Append(l.events, e)
    <2>1. PICK k \in 0 .. Len(a) :
             /\ Len(s) = Len(a) - k
             /\ \A i \in 1 .. Len(a) - k : s[i] = a[i + k]
      BY <1>5, EvictIndex
    <2>2. s \in Seq(Event)
      BY <1>5, EvictIndex
    <2>3. Len(a) \in Nat /\ a \in Seq(Event) /\ EmptyEnds(a)
      BY <1>5
    <2> HIDE DEF s, a
    <2>4. EmptyEnds(s)
      <3> SUFFICES ASSUME NEW i \in 1 .. Len(s) - 2,
                          s[i].kind = "StepStart", s[i + 1].kind = "StepEnd"
                   PROVE  s[i + 2].kind \in {"TurnEnd", "CompactionSummary"}
        BY DEF EmptyEnds
      <3>1. /\ i \in 1 .. Len(a) - k /\ i + 1 \in 1 .. Len(a) - k /\ i + 2 \in 1 .. Len(a) - k
            /\ i + k \in 1 .. Len(a) - 2 /\ (i + 1) + k = (i + k) + 1 /\ (i + 2) + k = (i + k) + 2
        BY <2>1, <2>3
      <3>2. s[i] = a[i + k] /\ s[i + 1] = a[(i + k) + 1] /\ s[i + 2] = a[(i + k) + 2]
        BY <2>1, <3>1
      <3> QED BY <2>3, <3>1, <3>2 DEF EmptyEnds
    <2> QED BY <2>2, <2>4
  <1> HIDE DEF s
  <1>7. Append(s, f) \in Seq(Event) /\ Tidy(Append(s, f))
    BY <1>3, <1>6, EmptyAppend DEF Tidy
  <1>8. Tidy(Evict(Append(s, f)))
    BY <1>7, TidyEvict
  <1> QED BY <1>4, <1>8 DEF TidyLog, d

\* A summary in between keeps a log tidy.
LEMMA TidyInserted ==
    ASSUME NEW s \in Seq(Event), NEW k, NEW t, Inserted(s, k, t), Tidy(s)
    PROVE  Tidy(t)
  <1>1. /\ k \in 1 .. Len(s) /\ k \in Nat /\ Len(t) = Len(s) + 1 /\ Len(s) \in Nat
        /\ \A i \in 1 .. k : t[i] = s[i]
        /\ t[k + 1].kind = "CompactionSummary"
        /\ \A i \in k + 2 .. Len(s) + 1 : t[i] = s[i - 1]
    BY DEF Inserted, CompactionSummary
  <1>2. EmptyEnds(t)
    <2> SUFFICES ASSUME NEW i \in 1 .. Len(t) - 2,
                        t[i].kind = "StepStart", t[i + 1].kind = "StepEnd",
                        t[i + 2].kind # "CompactionSummary"
                 PROVE  t[i + 2].kind = "TurnEnd"
      BY DEF EmptyEnds
    <2>1. i # k + 1 /\ i + 1 # k + 1 /\ i + 2 # k + 1
      BY <1>1
    <2>2. CASE i + 2 <= k
      <3>1. i \in 1 .. k /\ i + 1 \in 1 .. k /\ i + 2 \in 1 .. k /\ i \in 1 .. Len(s) - 2
        BY <1>1, <2>2
      <3> QED BY <1>1, <3>1 DEF Tidy, EmptyEnds
    <2>3. CASE i > k + 1
      <3>1. /\ i \in k + 2 .. Len(s) + 1 /\ i + 1 \in k + 2 .. Len(s) + 1 /\ i + 2 \in k + 2 .. Len(s) + 1
            /\ i - 1 \in 1 .. Len(s) - 2 /\ (i + 1) - 1 = (i - 1) + 1 /\ (i + 2) - 1 = (i - 1) + 2
        BY <1>1, <2>3
      <3>2. t[i] = s[i - 1] /\ t[i + 1] = s[(i - 1) + 1] /\ t[i + 2] = s[(i - 1) + 2]
        BY <1>1, <3>1
      <3> QED BY <3>1, <3>2 DEF Tidy, EmptyEnds
    <2> QED BY <1>1, <2>1, <2>2, <2>3
  <1>3. ~EmptyLast(t)
    <2> SUFFICES ASSUME EmptyLast(t) PROVE FALSE
      OBVIOUS
    <2>1. Len(t) - 1 = Len(s) /\ Len(t) = Len(s) + 1
          /\ t[Len(s)].kind = "StepStart" /\ t[Len(s) + 1].kind = "StepEnd"
      BY <1>1 DEF EmptyLast
    <2>2. k + 1 # Len(s) + 1 /\ k + 1 # Len(s)
      BY <1>1, <2>1
    <2>3. /\ Len(s) \in k + 2 .. Len(s) + 1 /\ Len(s) + 1 \in k + 2 .. Len(s) + 1
          /\ (Len(s) + 1) - 1 = Len(s) /\ Len(s) >= 2
      BY <1>1, <2>2
    <2>4. t[Len(s)] = s[Len(s) - 1] /\ t[Len(s) + 1] = s[Len(s)]
      BY <1>1, <2>3
    <2> QED BY <2>1, <2>3, <2>4 DEF Tidy, EmptyLast
  <1> QED BY <1>2, <1>3 DEF Tidy

\* So does a compaction.
LEMMA TidyCompaction ==
    ASSUME NEW l, TidyLog(l), NEW keep \in Nat
    PROVE  Tidy(ApplyCompaction(l, keep).events)
  <1>1. l \in Log /\ l.events \in Seq(Event) /\ Len(l.events) \in Nat
    BY DEF TidyLog, Log
  <1>2. CASE Len(l.events) <= keep
    BY <1>2 DEF ApplyCompaction, TidyLog
  <1>3. CASE Len(l.events) > keep
    BY <1>1, <1>3, CompactionShape, TidyInserted DEF TidyLog
  <1> QED BY <1>1, <1>2, <1>3

-----------------------------------------------------------------------------
(* Every step keeps the log tidy                                           *)

\* The invariant holds at the start.
LEMMA InitTidy == Init => KInv
  <1> SUFFICES ASSUME Init PROVE KInv
    OBVIOUS
  <1>1. log.events = <<>> /\ flash.events = <<>> /\ pc = "idle"
    BY DEF Init, NewLog
  <1>2. Tidy(<<>>)
    BY DEF Tidy, EmptyEnds, EmptyLast
  <1> QED BY <1>1, <1>2, InitOK DEF KInv, Worthwhile

\* The logs of a state are tidy.
LEMMA TidyNow ==
    ASSUME KInv
    PROVE  TidyLog(log) /\ TidyLog(flash)
  BY DEF KInv, IInv, TypeOK, TidyLog

\* The actions that append: the start of a turn,
LEMMA StartTidy ==
    ASSUME KInv, NEW m \in Model, NEW k \in Skills, StartTurn(m, k)
    PROVE  Tidy(log'.events)
  <1> DEFINE a == BeginTurn(log)
             b == IF ModelSwitched(log, m)
                  THEN AppendEvent(a, UserMessage("notice")) ELSE a
             c == AppendEvent(b, RequestHeader(m))
             d == SetLastModel(c, m)
             e == AppendEvent(d, UserMessage("input"))
  <1>0. /\ \A w \in UserRole : UserMessage(w) \in Event /\ UserMessage(w).kind # "StepEnd"
        /\ RequestHeader(m) \in Event /\ RequestHeader(m).kind # "StepEnd"
    BY EventTypes DEF UserMessage, RequestHeader
  <1>1. TidyLog(a)
    BY TidyNow, TidyBegin
  <1> HIDE DEF a
  <1>2. TidyLog(b)
    BY <1>0, <1>1, TidyAppend DEF UserRole
  <1> HIDE DEF b
  <1>3. TidyLog(c)
    BY <1>0, <1>2, TidyAppend
  <1> HIDE DEF c
  <1>4. TidyLog(d)
    BY <1>3 DEF TidyLog, Log, SetLastModel
  <1> HIDE DEF d
  <1>5. TidyLog(e)
    BY <1>0, <1>4, TidyAppend DEF UserRole
  <1>6. log' = e
    BY DEF StartTurn, OpenTurn, a, b, c, d
  <1> QED BY <1>5, <1>6 DEF TidyLog

\* the returns of the loop,
LEMMA EndTidy ==
    ASSUME KInv, AbortAtTop \/ StopBeforeStep \/ StopAfterStep
    PROVE  Tidy(log'.events)
  <1>1. \A r \in Reason : TidyLog(EndTurn(log, r)) /\ TidyLog(EndTurn(EndStep(log), r))
    BY TidyNow, TidyClose, TidyEndTurn
  <1> QED BY <1>1 DEF AbortAtTop, StopBeforeStep, StopAfterStep, Reason, TidyLog

\* the end of one step and the start of the next,
LEMMA NextTidy ==
    ASSUME KInv, NextStep
    PROVE  Tidy(log'.events)
  <1>1. /\ log.events # <<>> /\ Final(log.events).kind # "StepStart"
    BY DEF KInv, IInv, Awaits, NextStep, StepDone, Running
  <1>2. StepEnd(log.turn, log.step) \in Event
    BY TidyNow, EventTypes DEF TidyLog, Log
  <1> QED BY <1>1, <1>2, TidyNow, TidyAppend DEF NextStep, EndStep, TidyLog

\* and the failures that end step and turn.
LEMMA FailTidy ==
    ASSUME KInv, RecvCancelled \/ StreamFailed \/ JudgeFailed
    PROVE  Tidy(log'.events)
  <1>1. TidyLog(AppendEvent(log, AssistantMessage(<<>>)))
    <2>1. <<>> \in Seq(CallId)
      OBVIOUS
    <2>2. AssistantMessage(<<>>) \in Event /\ AssistantMessage(<<>>).kind # "StepEnd"
      BY <2>1, EventTypes DEF AssistantMessage
    <2> QED BY <2>2, TidyNow, TidyAppend
  <1>2. PICK l : TidyLog(l) /\ log' = EndTurn(EndStep(l), "Error")
    BY <1>1, TidyNow DEF RecvCancelled, StreamFailed, JudgeFailed, FailStep
  <1> QED BY <1>2, TidyClose DEF Reason, TidyLog

\* The steps of a turn that append one event, none of them the end of a step
LEMMA AppendTidy ==
    ASSUME KInv, StreamClosed \/ BeginTool \/ EndTool \/ ForceTool
                 \/ EndForcedTool \/ JudgeAnswered \/ TodoProceed
    PROVE  Tidy(log'.events)
  <1>1. /\ pending \in Seq(CallId) /\ stream.calls \in Seq(CallId) /\ current \in Nat
        /\ skill \in Skill /\ <<>> \in Seq(CallId)
        /\ pc = "tool" => pending # <<>>
    BY DEF KInv, IInv, TypeOK, Awaits
  <1>2. \E e \in Event : e.kind # "StepEnd" /\ log' = AppendEvent(log, e)
    <2>1. CASE StreamClosed
      <3> DEFINE e == AssistantMessage(stream.calls)
      <3>1. e \in Event /\ e.kind # "StepEnd" /\ log' = AppendEvent(log, e)
        BY <1>1, <2>1, EventTypes DEF AssistantMessage, StreamClosed
      <3> QED BY <3>1
    <2>2. CASE BeginTool
      <3> DEFINE e == ToolCall(Head(pending))
      <3>1. e \in Event /\ e.kind # "StepEnd" /\ log' = AppendEvent(log, e)
        BY <1>1, <2>2, EventTypes DEF ToolCall, BeginTool
      <3> QED BY <3>1
    <2>3. CASE EndTool
      <3> DEFINE e == ToolResult(Head(pending))
      <3>1. e \in Event /\ e.kind # "StepEnd" /\ log' = AppendEvent(log, e)
        BY <1>1, <2>3, EventTypes DEF ToolResult, EndTool
      <3> QED BY <3>1
    <2>4. CASE ForceTool
      <3>1. PICK i \in 0 .. Len(skill.steps) - 1 : log' = AppendEvent(log, ToolCall(<<"wf", i>>))
        BY <2>4 DEF ForceTool
      <3>2. ToolCall(<<"wf", i>>) \in Event /\ ToolCall(<<"wf", i>>).kind # "StepEnd"
        BY EventTypes DEF ToolCall, CallId
      <3> QED BY <3>1, <3>2
    <2>5. CASE EndForcedTool
      <3> DEFINE e == ToolResult(<<"wf", current>>)
      <3>1. e \in Event /\ e.kind # "StepEnd" /\ log' = AppendEvent(log, e)
        BY <1>1, <2>5, EventTypes DEF ToolResult, CallId, EndForcedTool
      <3> QED BY <3>1
    <2>6. CASE JudgeAnswered
      <3> DEFINE e == AssistantMessage(<<>>)
      <3>1. e \in Event /\ e.kind # "StepEnd" /\ log' = AppendEvent(log, e)
        BY <1>1, <2>6, EventTypes DEF AssistantMessage, JudgeAnswered
      <3> QED BY <3>1
    <2>7. CASE TodoProceed
      <3> DEFINE e == UserMessage("guidance")
      <3>1. e \in Event /\ e.kind # "StepEnd" /\ log' = AppendEvent(log, e)
        BY <2>7, EventTypes DEF UserMessage, UserRole, TodoProceed, OpenContext
      <3> QED BY <3>1
    <2> QED BY <2>1, <2>2, <2>3, <2>4, <2>5, <2>6, <2>7
  <1> QED BY <1>2, TidyNow, TidyAppend DEF TidyLog

\* Between turns: the checkpoint takes the log or stays.
LEMMA RestTidy ==
    ASSUME KInv, ReturnSession \/ ClearCommand \/ CompactCommand \/ Crash
    PROVE  Tidy(log'.events) /\ Tidy(flash'.events)
  <1>1. Tidy(log.events) /\ Tidy(flash.events)
    BY DEF KInv
  <1>2. CASE ReturnSession
    BY <1>1, <1>2 DEF ReturnSession, Saved
  <1>3. CASE ClearCommand
    <2>1. log'.events = <<>> /\ flash' \in {log', flash}
      BY <1>3 DEF ClearCommand, Clear, NewLog, Saved
    <2>2. Tidy(<<>>)
      BY DEF Tidy, EmptyEnds, EmptyLast
    <2> QED BY <1>1, <2>1, <2>2
  <1>4. CASE CompactCommand
    <2> DEFINE s == log.events
               n == Len(s) - CompactKeep + 1
               t == SubSeq(s, n, Len(s))
    <2>1. flash' \in {log', flash} /\ log'.events = Evict(t)
      BY <1>4 DEF CompactCommand, Saved, Reappended
    <2>2. s \in Seq(Event) /\ Len(s) \in Nat /\ n \in 1 .. Len(s) /\ n - 1 \in 0 .. Len(s)
      BY <1>4, LogIn DEF CompactCommand, CompactKeep, KInv
    <2> HIDE DEF s, n
    <2>3. \A i \in n .. Len(s) : s[i] \in Event
      BY <2>2
    <2>4. /\ t \in Seq(Event) /\ Len(t) = Len(s) - n + 1
          /\ \A i \in 1 .. Len(s) - n + 1 : t[i] = s[n + i - 1]
      BY <2>2, <2>3, SubSeqProperties
    <2> HIDE DEF t
    <2>5. Len(t) = Len(s) - (n - 1) /\ \A i \in 1 .. Len(s) - (n - 1) : t[i] = s[i + (n - 1)]
      <3>1. Len(t) = Len(s) - (n - 1)
        BY <2>2, <2>4
      <3>2. \A i \in 1 .. Len(s) - (n - 1) : i \in 1 .. Len(s) - n + 1 /\ n + i - 1 = i + (n - 1)
        BY <2>2
      <3> QED BY <2>4, <3>1, <3>2
    <2>6. Tidy(t)
      BY <1>1, <2>2, <2>4, <2>5, TidySuffix DEF s
    <2> QED BY <1>1, <2>1, <2>4, <2>6, TidyEvict
  <1>5. CASE Crash
    <2> DEFINE r == [flash EXCEPT !.events = Evict(flash.events)]
    <2>1. flash \in Log /\ flash.events \in Seq(Event) /\ Ended(flash.events) /\ Chained(flash.events)
      BY LogIn, LogFacts DEF KInv, Good
    <2>2. r.events = Evict(flash.events)
      BY <2>1 DEF Log
    <2>3. ~TurnOpen(r.events)
      <3>1. Evict(flash.events) \in Seq(Event) /\ Ended(Evict(flash.events))
        BY <2>1, EvictChained DEF Ended
      <3> QED BY <2>2, <3>1, EndedNotOpen
    <2>4. Load(flash) = Repair(r)
      BY DEF Load
    <2> HIDE DEF r
    <2>5. log' = r /\ flash' = flash
      BY <1>5, <2>3, <2>4 DEF Crash, Repair
    <2> QED BY <1>1, <2>1, <2>2, <2>5, TidyEvict
  <1> QED BY <1>2, <1>3, <1>4, <1>5

\* Every step keeps the invariant,
LEMMA NextK == KInv /\ [Next]_vars => KInv'
  <1> SUFFICES ASSUME KInv, [Next]_vars PROVE KInv'
    OBVIOUS
  <1>1. IInv' /\ Tidy(log.events) /\ Tidy(flash.events)
    BY NextOK DEF KInv
  <1>2. Tidy(log'.events) /\ Tidy(flash'.events)
    <2>1. CASE \E m \in Model, k \in Skills : StartTurn(m, k)
      <3>1. flash' = flash
        BY <2>1 DEF StartTurn
      <3> QED BY <1>1, <2>1, <3>1, StartTidy
    <2>2. CASE EnterStep
      BY <1>1, <2>2, TidyNow, TidyBegin DEF EnterStep, TidyLog
    <2>3. CASE AbortAtTop \/ StopBeforeStep \/ StopAfterStep
      <3>1. flash' = flash
        BY <2>3 DEF AbortAtTop, StopBeforeStep, StopAfterStep
      <3> QED BY <1>1, <2>3, <3>1, EndTidy
    <2>4. CASE NextStep
      <3>1. flash' = flash
        BY <2>4 DEF NextStep
      <3> QED BY <1>1, <2>4, <3>1, NextTidy
    <2>5. CASE RecvCancelled \/ StreamFailed \/ JudgeFailed
      <3>1. flash' = flash
        BY <2>5 DEF RecvCancelled, StreamFailed, JudgeFailed
      <3> QED BY <1>1, <2>5, <3>1, FailTidy
    <2>6. CASE StreamClosed \/ BeginTool \/ EndTool \/ ForceTool
                 \/ EndForcedTool \/ JudgeAnswered \/ TodoProceed
      <3>1. flash' = flash
        BY <2>6 DEF StreamClosed, BeginTool, EndTool, ForceTool, EndForcedTool, JudgeAnswered,
                    TodoProceed
      <3> QED BY <1>1, <2>6, <3>1, AppendTidy
    <2>7. CASE ReturnSession \/ ClearCommand \/ CompactCommand \/ Crash
      BY <2>7, RestTidy
    <2>8. CASE Compacted
      <3>1. Tidy(ApplyCompaction(log, KeepRecent * 6).events)
        BY TidyNow, TidyCompaction, Ranges
      <3> QED BY <1>1, <2>8, <3>1 DEF Compacted
    <2>9. CASE PlanProceed \/ RecvDelta \/ RecvDone \/ RecvError \/ ForceLlm \/ Cancel
               \/ UNCHANGED vars
      BY <1>1, <2>9 DEF PlanProceed, OpenContext, RecvDelta, RecvDone, RecvError, ForceLlm,
                        Cancel, vars
    <2> QED BY <2>1, <2>2, <2>3, <2>4, <2>5, <2>6, <2>7, <2>8, <2>9
            DEF Next, TurnStep, LlmStep, WorkflowStep
  <1>3. Worthwhile'
    <2> SUFFICES ASSUME pc' = "compacting"
                 PROVE  Len(DeriveMessages(log')) > KeepRecent + 2
      BY DEF Worthwhile
    <2>1. CASE PlanProceed \/ TodoProceed
      BY <2>1 DEF PlanProceed, TodoProceed, OpenContext, WorthCompacting
    <2>2. CASE Cancel \/ UNCHANGED vars
      BY <2>2 DEF Cancel, vars, KInv, Worthwhile
    <2>3. CASE ~(PlanProceed \/ TodoProceed \/ Cancel \/ UNCHANGED vars)
      BY <2>3 DEF Next, TurnStep, LlmStep, WorkflowStep, StartTurn, EnterStep, AbortAtTop,
         StopBeforeStep, Compacted, RecvDelta, RecvDone, RecvError, RecvCancelled, FailStep,
         StreamFailed, StreamClosed, BeginTool, EndTool, ForceTool, EndForcedTool, ForceLlm,
         JudgeAnswered, JudgeFailed, NextStep, StopAfterStep, ReturnSession, ClearCommand,
         CompactCommand, Crash
    <2> QED BY <2>1, <2>2, <2>3
  <1> QED BY <1>1, <1>2, <1>3 DEF KInv

\* and so it holds in every behaviour.
LEMMA AlwaysK == Spec => []KInv
  BY InitTidy, NextK, PTL DEF Spec

-----------------------------------------------------------------------------
(* A compaction loses nothing                                              *)

\* From an event of the kind on, a piece of log without a summary that ends
\* where a compaction may happen has this much to spare: five for an event
\* the model sees, minus one for any other.
Spare(e) ==
    CASE e.kind = "TurnEnd" -> 1
      [] e.kind = "TurnStart" -> 2
      [] e.kind = "RequestHeader" -> 3
      [] e.kind = "UserMessage" -> IF e.role = "input" THEN 4 ELSE 3
      [] e.kind = "StepStart" -> 0 - 1
      [] e.kind = "StepEnd" -> 0 - 2
      [] e.kind = "AssistantMessage" -> 3
      [] e.kind = "ToolCall" -> 2
      [] e.kind = "ToolResult" -> 3
      [] OTHER -> 0

\* What an event adds to what a log has to spare
Worth(e) == IF e.kind \in Surface THEN 5 ELSE 0 - 1

\* One event back
LEMMA SpareBack ==
    ASSUME NEW e \in Event, NEW f \in Event, Follows(e, f),
           e.kind # "CompactionSummary", f.kind # "CompactionSummary",
           NEW g \in Int, g >= Spare(f),
           e.kind = "StepStart" /\ f.kind = "StepEnd" => g >= 0
    PROVE  /\ Worth(e) + g >= Spare(e)
           /\ f.kind = "TurnEnd" => Worth(e) + g >= 0
  <1>1. CASE f.kind = "TurnStart"
    BY <1>1 DEF Follows, Spare, Worth, Surface
  <1>2. CASE f.kind = "TurnEnd"
    BY <1>2 DEF Follows, Spare, Worth, Surface
  <1>3. CASE f.kind = "RequestHeader"
    BY <1>3 DEF Follows, Spare, Worth, Surface
  <1>4. CASE f.kind = "UserMessage"
    BY <1>4 DEF Follows, Spare, Worth, Surface
  <1>5. CASE f.kind = "StepStart"
    BY <1>5 DEF Follows, Spare, Worth, Surface
  <1>6. CASE f.kind = "StepEnd"
    BY <1>6 DEF Follows, Spare, Worth, Surface
  <1>7. CASE f.kind = "AssistantMessage"
    BY <1>7 DEF Follows, Spare, Worth, Surface
  <1>8. CASE f.kind = "ToolCall"
    BY <1>8 DEF Follows, Spare, Worth, Surface
  <1>9. CASE f.kind = "ToolResult"
    BY <1>9 DEF Follows, Spare, Worth, Surface
  <1> QED BY <1>1, <1>2, <1>3, <1>4, <1>5, <1>6, <1>7, <1>8, <1>9 DEF Event

\* Of the latest events, one in six is seen by the model, whatever steps they
\* belong to.
LEMMA Dense ==
    ASSUME NEW s \in Seq(Event), Chained(s), EmptyEnds(s),
           NEW p \in 0 .. Len(s), p < Len(s),
           \A i \in p + 1 .. Len(s) : s[i].kind # "CompactionSummary",
           \/ Final(s).kind = "StepStart"
           \/ Final(s) = UserMessage("guidance")
    PROVE  LET u == Taken(s, OfKind(s, Surface))
           IN  6 * (Len(u[Len(s)]) - Len(u[p])) >= Len(s) - p - 2
  <1> DEFINE N == Len(s)
             I == OfKind(s, Surface)
             u == Taken(s, I)
             m(n) == Len(u[n])
             g(i) == 6 * (m(N) - m(i - 1)) - (N - (i - 1))
             Holds(i) == /\ g(i) >= Spare(s[i])
                         /\ i < N /\ s[i].kind = "StepEnd" /\ s[i + 1].kind = "TurnEnd"
                               => g(i) >= 0
             M == N - (p + 1)
             D == {k \in 0 .. M : Holds(N - k)}
  <1>1. N \in Nat /\ p \in Nat /\ M \in Nat /\ N \in 1 .. N
    OBVIOUS
  <1>2. /\ u[0] = <<>>
        /\ \A n \in 1 .. N : u[n] = IF n \in I THEN Append(u[n - 1], s[n]) ELSE u[n - 1]
    BY TakenSteps
  <1>3. \A n \in 0 .. N : u[n] \in Seq(Event)
    BY TakenType
  <1>4. \A n \in 1 .. N : s[n] \in Event /\ (n \in I <=> s[n].kind \in Surface)
    BY DEF OfKind
  <1> HIDE DEF u, I
  <1>5. \A n \in 0 .. N : m(n) \in Nat
    BY <1>3
  <1>6. \A n \in 1 .. N : m(n) = IF s[n].kind \in Surface THEN m(n - 1) + 1 ELSE m(n - 1)
    <2> TAKE n \in 1 .. N
    <2>1. u[n - 1] \in Seq(Event) /\ s[n] \in Event /\ n - 1 \in 0 .. N
      BY <1>1, <1>3, <1>4
    <2>2. Len(Append(u[n - 1], s[n])) = Len(u[n - 1]) + 1
      BY <2>1
    <2> QED BY <1>2, <1>4, <2>2
  <1> HIDE DEF m
  <1>7. \A i \in 1 .. N : g(i) \in Int
    <2> TAKE i \in 1 .. N
    <2>1. m(N) \in Nat /\ m(i - 1) \in Nat
      BY <1>1, <1>5
    <2> QED BY <1>1, <2>1
  <1>8. \A i \in 1 .. N : i < N => g(i) = Worth(s[i]) + g(i + 1)
    <2> SUFFICES ASSUME NEW i \in 1 .. N, i < N
                 PROVE  g(i) = Worth(s[i]) + g(i + 1)
      OBVIOUS
    <2>1. m(N) \in Nat /\ m(i - 1) \in Nat /\ m(i) \in Nat /\ (i + 1) - 1 = i
      BY <1>1, <1>5
    <2>2. m(i) = IF s[i].kind \in Surface THEN m(i - 1) + 1 ELSE m(i - 1)
      BY <1>6
    <2>3. g(i + 1) = 6 * (m(N) - m(i)) - (N - i)
      BY <2>1
    <2>4. CASE s[i].kind \in Surface
      <3>1. Worth(s[i]) = 5 /\ m(i) = m(i - 1) + 1
        BY <2>2, <2>4 DEF Worth
      <3>2. \A a, b, n, j \in Int :
               6 * (a - b) - (n - (j - 1)) = 5 + (6 * (a - (b + 1)) - (n - j))
        OBVIOUS
      <3>3. g(i) = 5 + (6 * (m(N) - (m(i - 1) + 1)) - (N - i))
        <4>1. m(N) \in Int /\ m(i - 1) \in Int /\ N \in Int /\ i \in Int
          BY <1>1, <2>1
        <4> QED BY <3>2, <4>1, SMTT(30)
      <3> QED BY <2>3, <3>1, <3>3
    <2>5. CASE s[i].kind \notin Surface
      <3>1. Worth(s[i]) = 0 - 1 /\ m(i) = m(i - 1)
        BY <2>2, <2>5 DEF Worth
      <3>2. \A x, n, j \in Int : x - (n - (j - 1)) = (x - (n - j)) - 1
        OBVIOUS
      <3>3. g(i) = (6 * (m(N) - m(i - 1)) - (N - i)) - 1
        <4> DEFINE x == 6 * (m(N) - m(i - 1))
        <4>1. x \in Int /\ N \in Int /\ i \in Int /\ g(i) = x - (N - (i - 1))
          BY <1>1, <2>1
        <4> HIDE DEF x, g
        <4>2. x - (N - (i - 1)) = (x - (N - i)) - 1
          BY <3>2, <4>1
        <4> QED BY <4>1, <4>2 DEF x
      <3>4. \A x \in Int : x - 1 = (0 - 1) + x
        OBVIOUS
      <3>5. 6 * (m(N) - m(i - 1)) - (N - i) \in Int
        BY <1>1, <2>1
      <3> QED BY <2>3, <3>1, <3>3, <3>4, <3>5
    <2> QED BY <2>4, <2>5
  <1>9. 0 \in D
    <2>1. g(N) = Worth(s[N])
      <3>1. m(N) \in Nat /\ m(N - 1) \in Nat
        BY <1>1, <1>5
      <3>2. m(N) = IF s[N].kind \in Surface THEN m(N - 1) + 1 ELSE m(N - 1)
        BY <1>1, <1>6
      <3> QED BY <1>1, <3>1, <3>2 DEF Worth
    <2>2. Worth(s[N]) >= Spare(s[N])
      <3>1. CASE Final(s).kind = "StepStart"
        BY <3>1 DEF Final, Worth, Spare, Surface
      <3>2. CASE Final(s) = UserMessage("guidance")
        BY <3>2 DEF Final, Worth, Spare, Surface, UserMessage
      <3> QED BY <3>1, <3>2
    <2> HIDE DEF g
    <2>3. Holds(N) /\ 0 \in 0 .. M /\ N - 0 = N
      BY <1>1, <2>1, <2>2
    <2> QED BY <2>3
  <1> HIDE DEF g
  <1>10. \A k \in 0 .. M : k < M /\ k \in D => k + 1 \in D
    <2> SUFFICES ASSUME NEW k \in 0 .. M, k < M, k \in D PROVE k + 1 \in D
      OBVIOUS
    <2> DEFINE i == N - (k + 1)
    <2>1. /\ i \in 1 .. N /\ i < N /\ i + 1 \in 1 .. N /\ i + 1 = N - k /\ i \in 1 .. N - 1
          /\ i \in p + 1 .. N /\ i + 1 \in p + 1 .. N /\ k + 1 \in 0 .. M
      BY <1>1
    <2>2. Holds(i + 1)
      BY <2>1
    <2> HIDE DEF i
    <2>3. /\ s[i] \in Event /\ s[i + 1] \in Event /\ Follows(s[i], s[i + 1])
          /\ s[i].kind # "CompactionSummary" /\ s[i + 1].kind # "CompactionSummary"
      BY <1>4, <2>1 DEF Chained
    <2>4. s[i].kind = "StepStart" /\ s[i + 1].kind = "StepEnd" => g(i + 1) >= 0
      <3> SUFFICES ASSUME s[i].kind = "StepStart", s[i + 1].kind = "StepEnd"
                   PROVE  g(i + 1) >= 0
        OBVIOUS
      <3>1. i + 1 < N
        <4>1. s[N].kind # "StepEnd"
          BY DEF Final, UserMessage
        <4>2. i + 1 # N
          BY <4>1
        <4> QED BY <1>1, <2>1, <4>2
      <3>2. i \in 1 .. N - 2 /\ i + 2 \in p + 1 .. N /\ (i + 1) + 1 = i + 2
        BY <1>1, <2>1, <3>1
      <3>3. s[i + 2].kind = "TurnEnd"
        BY <3>2 DEF EmptyEnds
      <3> QED BY <2>2, <3>1, <3>2, <3>3
    <2>5. /\ Worth(s[i]) + g(i + 1) >= Spare(s[i])
          /\ s[i + 1].kind = "TurnEnd" => Worth(s[i]) + g(i + 1) >= 0
      <3>1. g(i + 1) \in Int /\ g(i + 1) >= Spare(s[i + 1])
        BY <1>7, <2>1, <2>2
      <3> QED BY <2>3, <2>4, <3>1, SpareBack
    <2>6. g(i) = Worth(s[i]) + g(i + 1)
      BY <1>8, <2>1
    <2>7. Holds(i)
      BY <2>5, <2>6
    <2> QED BY <2>1, <2>7 DEF i
  <1>11. \A k \in 0 .. M : k \in D
    <2> HIDE DEF D
    <2> QED BY <1>1, <1>9, <1>10, UpTo
  <1>12. Holds(p + 1)
    <2>1. M \in 0 .. M /\ N - M = p + 1
      BY <1>1
    <2> QED BY <1>11, <2>1
  <1>13. g(p + 1) >= 0 - 2
    <2>1. p + 1 \in 1 .. N
      BY <1>1
    <2>2. g(p + 1) \in Int /\ s[p + 1] \in Event
      BY <1>4, <1>7, <2>1
    <2>3. Spare(s[p + 1]) \in Int /\ Spare(s[p + 1]) >= 0 - 2
      BY <2>2 DEF Spare, Event
    <2> QED BY <1>12, <2>2, <2>3
  <1>14. 6 * (m(N) - m(p)) - (N - p) >= 0 - 2
    <2>1. (p + 1) - 1 = p
      BY <1>1
    <2> QED BY <1>13, <2>1 DEF g
  <1>15. m(N) \in Nat /\ m(p) \in Nat
    BY <1>1, <1>5
  <1>16. 6 * (m(N) - m(p)) >= N - p - 2
    BY <1>1, <1>14, <1>15
  <1> QED BY <1>16 DEF m, u, I

-----------------------------------------------------------------------------
\* The summary a compaction puts in is the last one, or a later one still is.
LEMMA CompactionKeeps ==
    ASSUME NEW l \in Log, Chained(l.events), EmptyEnds(l.events), KeepRecent \in Nat,
           \/ Final(l.events).kind = "StepStart"
           \/ Final(l.events) = UserMessage("guidance"),
           Len(DeriveMessages(l)) > KeepRecent + 2
    PROVE  LET old == DeriveMessages(l)
               new == DeriveMessages(ApplyCompaction(l, KeepRecent * 6))
           IN  /\ Len(new) >= KeepRecent
               /\ Suffix(new, KeepRecent) = Suffix(old, KeepRecent)
  <1> DEFINE s == l.events
             K == KeepRecent
             keep == K * 6
             r == ApplyCompaction(l, keep)
             t == r.events
             p == Len(s) - keep
             S == {"CompactionSummary"}
             I == OfKind(s, Surface)
             J == OfKind(t, Surface)
             f == LastOfKind(s, S)
             h == LastOfKind(t, S)
             Is == {i \in I : i >= f}
             Jt == {i \in J : i >= h}
             old == DeriveMessages(l)
             new == DeriveMessages(r)
  <1>1. s \in Seq(Event) /\ Len(s) \in Nat /\ K \in Nat /\ keep \in Nat
        /\ Chained(s) /\ EmptyEnds(s)
    BY DEF Log
  <1>2. old = Picked(s, Is) /\ old \in Seq(Event) /\ Len(old) \in Nat /\ Len(old) > K + 2
    <2>1. old = Picked(s, Is)
      BY DerivePicks DEF Projection
    <2>2. Picked(s, Is) \in Seq(Event)
      <3> HIDE DEF Is
      <3> QED BY <1>1, PickedElements
    <2> HIDE DEF old
    <2> QED BY <2>1, <2>2 DEF old
  <1>3. CASE Len(s) <= keep
    <2>1. r = l
      BY <1>3 DEF ApplyCompaction
    <2>2. new = old
      BY <2>1
    <2> HIDE DEF new, old
    <2> QED BY <1>1, <1>2, <2>2 DEF new, old
  <1>4. CASE ~(Len(s) <= keep)
    <2>1. r = [l EXCEPT !.events = t] /\ Inserted(s, p, t)
      <3>1. Len(l.events) > keep
        BY <1>1, <1>4
      <3> QED BY <1>1, <3>1, CompactionShape
    <2>2. /\ p \in 1 .. Len(s) /\ t \in Seq(Event) /\ Len(t) = Len(s) + 1 /\ p \in Nat
          /\ \A i \in 1 .. p : t[i] = s[i]
          /\ t[p + 1] = CompactionSummary
          /\ \A i \in p + 2 .. Len(s) + 1 : t[i] = s[i - 1]
      BY <2>1 DEF Inserted
    <2>n. /\ p \in 0 .. Len(s) /\ p + 1 \in 0 .. Len(t)
          /\ Len(s) - p = Len(t) - (p + 1)
      <3>1. p \in Nat /\ p <= Len(s) /\ Len(t) = Len(s) + 1
        <4>1. p \in 1 .. Len(s) /\ Len(t) = Len(s) + 1 /\ Len(s) \in Nat
          BY <1>1, <2>2
        <4> HIDE DEF p, s, t
        <4> QED BY <4>1
      <3> DEFINE x == Len(s)
                 y == Len(t)
      <3>2. x \in Nat /\ y = x + 1
        BY <1>1, <3>1
      <3> HIDE DEF s, t, p
      <3>3. p \in Nat /\ p <= x
        BY <3>1
      <3> HIDE DEF x, y
      <3>4. p \in 0 .. x /\ p + 1 \in 0 .. y /\ x - p = y - (p + 1)
        BY <3>2, <3>3
      <3> QED BY <3>4 DEF x, y
    <2>3. r \in Log
      <3> HIDE DEF r, t
      <3>1. [l EXCEPT !.events = t] \in Log
        BY <2>2 DEF Log
      <3> QED BY <2>1, <3>1
    <2>4. new = Picked(t, Jt)
      BY <2>3, DerivePicks DEF Projection
    <2>5. /\ f \in 0 .. Len(s) /\ \A i \in OfKind(s, S) : i <= f
          /\ OfKind(s, S) # {} => f \in OfKind(s, S)
          /\ OfKind(s, S) = {} => f = 0
      <3> HIDE DEF s
      <3> QED BY <1>1, LastOfKindLast, LastOfKindIn DEF LastOfKind
    <2>6. /\ h \in 0 .. Len(t) /\ \A i \in OfKind(t, S) : i <= h
          /\ OfKind(t, S) # {} => h \in OfKind(t, S)
      <3> HIDE DEF t
      <3> QED BY <2>2, LastOfKindLast, LastOfKindIn
    <2>7. /\ \A i \in 1 .. Len(s) : /\ i \in I <=> s[i].kind \in Surface
                                    /\ i \in OfKind(s, S) <=> s[i].kind = "CompactionSummary"
          /\ \A i \in 1 .. Len(t) : /\ i \in J <=> t[i].kind \in Surface
                                    /\ i \in OfKind(t, S) <=> t[i].kind = "CompactionSummary"
          /\ \A i \in I : i \in 1 .. Len(s)
          /\ \A i \in J : i \in 1 .. Len(t)
          /\ \A i \in OfKind(s, S) : i \in 1 .. Len(s)
          /\ \A i \in OfKind(t, S) : i \in 1 .. Len(t)
      <3> HIDE DEF s, t
      <3>1. DOMAIN s = 1 .. Len(s) /\ DOMAIN t = 1 .. Len(t)
        BY <1>1, <2>2
      <3> QED BY <3>1 DEF OfKind
    <2>t. s \in Seq(Event) /\ t \in Seq(Event)
      BY <1>1, <2>2
    <2> HIDE DEF s, t, p, I, J, f, h, S, r
    <2>8. p + 1 \in OfKind(t, S) /\ h \in OfKind(t, S) /\ h >= p + 1 /\ p + 1 \in 1 .. Len(t)
      <3>1. p + 1 \in 1 .. Len(t) /\ t[p + 1].kind = "CompactionSummary"
        BY <1>1, <2>2 DEF CompactionSummary
      <3> QED BY <2>6, <2>7, <3>1
    <2>9. \A i \in 1 .. Len(s) - p : s[p + i] = t[(p + 1) + i]
      <3> TAKE i \in 1 .. Len(s) - p
      <3>1. (p + 1) + i \in p + 2 .. Len(s) + 1 /\ ((p + 1) + i) - 1 = p + i
        BY <1>1, <2>2
      <3> QED BY <2>2, <3>1
    <2> DEFINE A == {i \in I : i > p}
               B == {i \in J : i > p + 1}
               c == Picked(s, A)
    <2>10. \A i \in 1 .. Len(s) - p : p + i \in I <=> (p + 1) + i \in J
      <3> TAKE i \in 1 .. Len(s) - p
      <3>1. p + i \in 1 .. Len(s) /\ (p + 1) + i \in 1 .. Len(t)
        BY <1>1, <2>2
      <3> QED BY <2>7, <2>9, <3>1
    <2>11. CASE f > p
      <3>1. f \in OfKind(s, S) /\ f \in 1 .. Len(s) /\ s[f].kind = "CompactionSummary"
        BY <1>1, <2>2, <2>5, <2>7, <2>11
      <3>2. h = f + 1
        <4>1. f + 1 \in OfKind(t, S)
          <5>1. f + 1 \in p + 2 .. Len(s) + 1 /\ (f + 1) - 1 = f /\ f + 1 \in 1 .. Len(t)
            BY <1>1, <2>2, <2>11, <3>1
          <5> QED BY <2>2, <2>7, <3>1, <5>1
        <4>2. h >= f + 1 /\ h \in 1 .. Len(t) /\ t[h].kind = "CompactionSummary"
          BY <2>6, <2>7, <2>8, <4>1
        <4>3. h - 1 <= f
          <5>1. h \in p + 2 .. Len(s) + 1 /\ h - 1 \in 1 .. Len(s)
            BY <1>1, <2>2, <2>11, <3>1, <4>2
          <5>2. h - 1 \in OfKind(s, S)
            BY <2>2, <2>7, <4>2, <5>1
          <5> QED BY <2>5, <5>2
        <4> QED BY <3>1, <4>2, <4>3
      <3>3. Picked(s, Is) = Picked(t, Jt)
        <4>1. \A i \in 1 .. Len(s) - p : p + i \in Is <=> (p + 1) + i \in Jt
          <5> TAKE i \in 1 .. Len(s) - p
          <5>1. p + i >= f <=> (p + 1) + i >= h
            BY <1>1, <2>2, <3>1, <3>2
          <5> QED BY <2>10, <5>1
        <4>2. (\A i \in 1 .. p : i \notin Is) /\ (\A i \in 1 .. p + 1 : i \notin Jt)
          BY <1>1, <2>2, <2>11, <3>1, <3>2
        <4> HIDE DEF Is, Jt
        <4>3. SameAfter(s, Is, p, t, Jt, p + 1)
          BY <2>9, <2>n, <4>1, <4>2 DEF SameAfter
        <4> QED BY <2>t, <2>n, <4>3, PickedShift
      <3>4. new = old
        BY <1>2, <2>4, <3>3
      <3> HIDE DEF new, old
      <3> QED BY <1>1, <1>2, <3>4 DEF new, old, r
    <2>12. CASE ~(f > p)
      <3>1. \A i \in p + 1 .. Len(s) : s[i].kind # "CompactionSummary"
        <4> TAKE i \in p + 1 .. Len(s)
        <4>1. i \in 1 .. Len(s) /\ ~(i <= f)
          BY <1>1, <2>2, <2>5, <2>12
        <4> QED BY <2>5, <2>7, <4>1
      <3>2. h = p + 1
        <4>1. h \in 1 .. Len(t) /\ t[h].kind = "CompactionSummary"
          BY <2>7, <2>8
        <4>2. CASE h > p + 1
          <5>1. h \in p + 2 .. Len(s) + 1 /\ h - 1 \in p + 1 .. Len(s)
            BY <1>1, <2>2, <4>1, <4>2
          <5>2. t[h] = s[h - 1]
            BY <2>2, <5>1
          <5> QED BY <3>1, <4>1, <5>1, <5>2
        <4> QED BY <2>2, <2>8, <4>1, <4>2
      <3>3. c = Picked(t, B)
        <4>1. \A i \in 1 .. Len(s) - p : p + i \in A <=> (p + 1) + i \in B
          <5> TAKE i \in 1 .. Len(s) - p
          <5>1. p + i > p /\ (p + 1) + i > p + 1
            BY <2>2
          <5> QED BY <2>10, <5>1
        <4>2. (\A i \in 1 .. p : i \notin A) /\ (\A i \in 1 .. p + 1 : i \notin B)
          BY <2>2
        <4> HIDE DEF A, B
        <4>3. SameAfter(s, A, p, t, B, p + 1)
          BY <2>9, <2>n, <4>1, <4>2 DEF SameAfter
        <4> QED BY <2>t, <2>n, <4>3, PickedShift
      <3>4. /\ c \in Seq(Event)
            /\ \E a \in Seq(Event) : old = a \o c
            /\ \E b \in Seq(Event) : new = b \o c
            /\ Picked(s, I) = Taken(s, I)[p] \o c
        <4>1. After(Is, p, A) /\ After(Jt, p + 1, B) /\ After(I, p, A)
          <5>1. \A i \in I : i \in Nat
            BY <2>7
          <5>2. \A i \in J : i \in Nat
            BY <2>7
          <5>3. f \in Nat /\ h \in Nat
            BY <2>5, <2>6
          <5>4. \A i \in I : i > p => i >= f
            BY <2>2, <2>12, <5>1, <5>3
          <5>5. \A i \in J : i > p + 1 => i >= h
            BY <2>2, <3>2, <5>2, <5>3
          <5>6. {i \in Is : i > p} = A /\ {i \in Jt : i > p + 1} = B
            BY <5>4, <5>5
          <5> QED BY <5>6 DEF After
        <4> DEFINE a == Taken(s, Is)[p]
                   b == Taken(t, Jt)[p + 1]
        <4> HIDE DEF Is, Jt, A, B
        <4>2. Picked(s, Is) = a \o Picked(s, A) /\ a \in Seq(Event)
          <5>1. Picked(s, Is) = a \o Picked(s, A)
            BY <2>t, <2>n, <4>1, PickedApart
          <5> QED BY <2>t, <2>n, <5>1, TakenType
        <4>3. Picked(t, Jt) = b \o Picked(t, B) /\ b \in Seq(Event)
          <5>1. Picked(t, Jt) = b \o Picked(t, B)
            <6>1. t \in Seq(Event) /\ p + 1 \in 0 .. Len(t) /\ After(Jt, p + 1, B)
              BY <2>t, <2>n, <4>1
            <6> DEFINE q == p + 1
            <6> HIDE DEF q
            <6>2. q \in 0 .. Len(t) /\ After(Jt, q, B)
              BY <6>1 DEF q
            <6>3. Picked(t, Jt) = Taken(t, Jt)[q] \o Picked(t, B)
              BY <6>1, <6>2, PickedApart
            <6> QED BY <6>3 DEF q
          <5> QED BY <2>t, <2>n, <5>1, TakenType
        <4>4. Picked(s, I) = Taken(s, I)[p] \o c
          BY <2>t, <2>n, <4>1, PickedApart
        <4>5. c \in Seq(Event)
          BY <1>1, PickedElements
        <4> HIDE DEF c, a, b
        <4>6. old = a \o c
          BY <1>2, <4>1, <4>2 DEF c
        <4>7. new = b \o c
          BY <2>4, <3>3, <4>1, <4>3
        <4> HIDE DEF old, new
        <4> QED BY <4>2, <4>3, <4>4, <4>5, <4>6, <4>7
      <3> HIDE DEF c, old, new
      <3>5. K <= Len(c) /\ Len(c) \in Nat
        <4>1. CASE K = 0
          BY <3>4, <4>1
        <4>2. CASE K # 0
          <5> DEFINE u == Taken(s, I)
          <5>1. p \in 0 .. Len(s) /\ p < Len(s) /\ Len(s) - p = keep
            BY <1>1, <2>2, <4>2 DEF p
          <5>2. 6 * (Len(u[Len(s)]) - Len(u[p])) >= Len(s) - p - 2
            <6>1. Final(s).kind = "StepStart" \/ Final(s) = UserMessage("guidance")
              BY DEF s
            <6> QED BY <1>1, <3>1, <5>1, <6>1, Dense DEF I
          <5>3. u[Len(s)] = u[p] \o c /\ u[p] \in Seq(Event) /\ Len(u[p]) \in Nat
            <6>1. u[Len(s)] = u[p] \o c
              BY <3>4 DEF Picked
            <6>2. u[p] \in Seq(Event)
              BY <1>1, <5>1, TakenType
            <6> HIDE DEF u
            <6> QED BY <6>1, <6>2
          <5>4. Len(u[Len(s)]) = Len(u[p]) + Len(c)
            <6> HIDE DEF u
            <6> QED BY <3>4, <5>3
          <5>5. Len(c) \in Nat
            BY <3>4
          <5>6. 6 * Len(c) >= K * 6 - 2
            <6> HIDE DEF u
            <6>1. \A x, y \in Int : (x + y) - x = y
              OBVIOUS
            <6>2. Len(u[Len(s)]) - Len(u[p]) = Len(c)
              BY <5>3, <5>4, <5>5, <6>1
            <6> QED BY <5>1, <5>2, <6>2
          <5> QED BY <1>1, <5>5, <5>6
        <4> QED BY <4>1, <4>2
      <3>6. ASSUME NEW x \in Seq(Event), NEW a \in Seq(Event), x = a \o c
            PROVE  Len(x) >= K /\ Suffix(x, K) = Suffix(c, K)
        <4>1. K \in 0 .. Len(c) /\ Len(x) = Len(a) + Len(c) /\ Len(a) \in Nat
          BY <1>1, <3>4, <3>5, <3>6
        <4>2. Len(x) >= K
          BY <1>1, <3>5, <4>1
        <4>3. Suffix(x, K) = Suffix(c, K)
          BY <3>4, <3>6, <4>1, EndWithin DEF Suffix
        <4> QED BY <4>2, <4>3
      <3>7. new \in Seq(Event) /\ old \in Seq(Event)
        BY <1>2, <3>4
      <3>8. Len(new) >= K /\ Suffix(new, K) = Suffix(old, K)
        BY <3>4, <3>6, <3>7
      <3> QED BY <3>8 DEF new, old, r
    <2> QED BY <2>11, <2>12
  <1> QED BY <1>3, <1>4

\* In every behaviour a compaction before a request leaves the last KeepRecent
\* messages of the conversation as they were, at the end of what is sent: the
\* ring the kept events go through drops none of them.
THEOREM CompactionLosesNothing == Spec => KeptOrSummarised
  <1>1. ASSUME KInv, [Next]_vars
        PROVE  [pc = "compacting" /\ pc' = "stream" =>
                  LET old == DeriveMessages(log)
                      new == DeriveMessages(log')
                      kept == Suffix(old, KeepRecent)
                  IN  /\ Len(new) >= KeepRecent
                      /\ Suffix(new, KeepRecent) = kept]_vars
    <2> SUFFICES ASSUME pc = "compacting", pc' = "stream"
                 PROVE  /\ Len(DeriveMessages(log')) >= KeepRecent
                        /\ Suffix(DeriveMessages(log'), KeepRecent)
                             = Suffix(DeriveMessages(log), KeepRecent)
      OBVIOUS
    <2>1. Compacted
      BY <1>1 DEF Next, TurnStep, LlmStep, WorkflowStep, StartTurn, EnterStep, AbortAtTop,
         StopBeforeStep, PlanProceed, TodoProceed, RecvDelta, RecvDone, RecvError, RecvCancelled,
         FailStep, StreamFailed, StreamClosed, BeginTool, EndTool, ForceTool, EndForcedTool,
         ForceLlm, JudgeAnswered, JudgeFailed, NextStep, StepDone, StopAfterStep, ReturnSession,
         ClearCommand, CompactCommand, Crash, Cancel, vars
    <2>2. /\ log \in Log /\ Chained(log.events) /\ EmptyEnds(log.events) /\ KeepRecent \in Nat
          /\ \/ Final(log.events).kind = "StepStart"
             \/ Final(log.events) = UserMessage("guidance")
          /\ Len(DeriveMessages(log)) > KeepRecent + 2
      BY <1>1, BoundsAssumption, LogFacts
      DEF KInv, Good, Tidy, Worthwhile, IInv, Awaits, StepStart
    <2>3. CASE log' = ApplyCompaction(log, KeepRecent * 6)
      BY <2>2, <2>3, CompactionKeeps
    <2>4. CASE log' = log
      <3>1. DeriveMessages(log) \in Seq(Event)
        <4>1. log.events \in Seq(Event)
          BY <2>2 DEF Log
        <4>2. DeriveMessages(log) = Projection(log.events)
          BY <2>2, DerivePicks
        <4> QED BY <4>1, <4>2, PickedElements DEF Projection
      <3>2. Len(DeriveMessages(log)) \in Nat
        BY <3>1
      <3>3. Len(DeriveMessages(log)) >= KeepRecent
        BY <2>2, <3>2
      <3> QED BY <2>4, <3>3
    <2> QED BY <2>1, <2>3, <2>4 DEF Compacted
  <1> QED BY AlwaysK, <1>1, PTL DEF Spec, KeptOrSummarised
=============================================================================
