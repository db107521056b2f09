-------------------------- MODULE ChatServerProps ---------------------------
(***************************************************************************)
(* What the server promises its clients, and what the repository says of   *)
(* it that does not hold.                                                  *)
(***************************************************************************)
EXTENDS ChatServer

IsPrefixOf(s, t) == Len(s) <= Len(t) /\ SubSeq(t, 1, Len(s)) = s

-----------------------------------------------------------------------------
(* Memory and disk                                                         *)

\* A log in memory is the one in its file: whatever puts a log into the
\* cache (a new session, a load, the return of a turn, a command) leaves
\* cache and file agreeing, so that an eviction or a crash loses nothing but
\* the turns in flight.
NothingUnsaved == \A s \in DOMAIN cache : cache[s] = OnFlash(files, s)

\* The double-page cache holds at most its capacity of logs, although a
\* returning turn inserts its log without evicting, under a session that may
\* have left the cache meanwhile.
CacheBound == Cardinality(DOMAIN cache) <= CacheCapacity

\* No log, no file and no active session without an entry in the index: a
\* turn that returns after its session was deleted brings nothing back.
NothingOrphaned ==
    /\ active \in DOMAIN sessions \cup {NoSession}
    /\ DOMAIN cache \subseteq DOMAIN sessions
    /\ DOMAIN files \subseteq DOMAIN sessions

\* session_manager.rs: "inactive sessions are evicted to flash; active stays
\* in RAM": between turns the active session's log is in the cache, once a
\* client has opened it.
ActiveInRam ==
    Quiet /\ opened /\ active # NoSession => active \in DOMAIN cache

-----------------------------------------------------------------------------
(* Turns                                                                   *)

\* session_manager.rs: "Use `return_session` to put it back": every turn a
\* file records was held in the session of that file, and is recorded once.
TurnsStayHome ==
    \A s \in DOMAIN files :
       /\ \A i \in DOMAIN files[s] : asked[files[s][i]] = s
       /\ Cardinality({files[s][i] : i \in DOMAIN files[s]}) = Len(files[s])

\* README: the log is append-only. What a turn does from its request to its
\* return never takes earlier turns out of a file.
HistoryKept ==
    [][phase' # phase =>
         \A s \in DOMAIN files : IsPrefixOf(files[s], OnFlash(files', s))]_vars

\* A stored cancellation sender belongs to a turn that runs: a stop never
\* hits a turn that is over, whichever turns overlapped.
CancelTargetRuns == cancelTx # NoTurn => phase[cancelTx] = "running"

\* ServerState: "Cancellation sender for the currently active turn": the
\* only turn that runs can be stopped unless it was already.
StopWorks ==
    \A t \in Turn :
       {r \in Turn : phase[r] = "running"} = {t} /\ t \notin cancelled =>
          cancelTx = t

-----------------------------------------------------------------------------
(* With clients that wait, the server implements Conversations: what the    *)
(* files hold is what was said.                                            *)

Promise == INSTANCE Conversations WITH
    talk <- [s \in DOMAIN sessions |-> OnFlash(files, s)],
    current <- active

Promised == Promise!Spec
=============================================================================
