--------------------------- MODULE SessionManager ---------------------------
(***************************************************************************)
(* The registry of sessions of src/src/session_manager.rs: the index, the  *)
(* double-page cache of logs, the active session, the checkpoint files and *)
(* the index file.  The manager lives behind one mutex, so an action below *)
(* is what the code does while it holds the lock once; the owners of the   *)
(* manager (ChatServer) say when each of them happens.                     *)
(*                                                                         *)
(* A log is abstracted to the sequence of the turns it records: what one   *)
(* turn writes is AgentLoop's subject.  Titles and event counts are left   *)
(* out.  Of the updated_at stamps only the order is kept.                  *)
(***************************************************************************)
EXTENDS Naturals, Sequences, FiniteSets

CONSTANTS
    Session,         \* the session ids that may be generated
    NoSession,       \* active_id = None
    Turn,            \* the turns that may run
    CacheCapacity,   \* pages of the cache (2)
    SameMillis,      \* TRUE: two requests may fall in the same millisecond
    DiskFaults       \* TRUE: a write or removal of a file may fail

ASSUME SessionAssumption == NoSession \notin Session
ASSUME CapacityAssumption == CacheCapacity \in Nat \ {0}
ASSUME FaultsAssumption == SameMillis \in BOOLEAN /\ DiskFaults \in BOOLEAN

VARIABLES
    sessions,  \* the index in memory: the stamp of every known session
    cache,     \* the logs held in memory
    active,    \* active_id
    files,     \* the checkpoint files
    index      \* the index file

mgrVars == <<sessions, cache, active, files, index>>

-----------------------------------------------------------------------------
(* Partial functions from sessions                                         *)

Only(f, S) == [s \in DOMAIN f \cap S |-> f[s]]
Without(f, S) == [s \in DOMAIN f \ S |-> f[s]]
IsPartial(f, T) == DOMAIN f \subseteq Session /\ f \in [DOMAIN f -> T]

Just(s, v) == [r \in {s} |-> v]

\* f, and g where f is not defined
Over(f, g) ==
    [s \in DOMAIN f \cup DOMAIN g |-> IF s \in DOMAIN f THEN f[s] ELSE g[s]]

EmptyFcn == <<>>
FreshLog == <<>>

\* What a load of the session's file yields; a missing file is a fresh log.
OnFlash(fs, s) == IF s \in DOMAIN fs THEN fs[s] ELSE FreshLog

MgrTypeOK ==
    /\ IsPartial(sessions, Nat)
    /\ IsPartial(cache, Seq(Turn))
    /\ active \in Session \cup {NoSession}
    /\ IsPartial(files, Seq(Turn))
    /\ IsPartial(index, Nat)

-----------------------------------------------------------------------------
(* Files and stamps                                                        *)

\* The files after each of the given logs was checkpointed: temporary file
\* and rename, so that one write succeeds or leaves the file as it was.
Checkpointed(fs, logs) ==
    {Over(Only(logs, W), fs) :
        W \in IF DiskFaults THEN SUBSET DOMAIN logs ELSE {DOMAIN logs}}

\* save_index
SaveIndex(u) == index' = u \/ (DiskFaults /\ index' = index)

\* Files that neither the index in memory nor the one on disk names are
\* forgotten: ids are unique, so nothing will read them.
Reachable(fs) == Only(fs, DOMAIN sessions' \cup DOMAIN index')

\* Stamps renumbered in their order
Dense(u) ==
    [s \in DOMAIN u |-> Cardinality({u[r] : r \in {q \in DOMAIN u : u[q] < u[s]}})]

\* The stamps after session s got the current time, which is later than every
\* stamp or, in the same millisecond, equal to the latest of them.
Stamped(u, s) ==
    LET Now(n) == Dense(Over(Just(s, n), u))
        after  == Cardinality(DOMAIN u) + 1
        latest == {n \in {u[r] : r \in DOMAIN u} : \A r \in DOMAIN u : u[r] <= n}
    IN  {Now(n) : n \in {after} \cup (IF SameMillis THEN latest ELSE {})}

-----------------------------------------------------------------------------
(* The cache                                                               *)

\* Mutant of Victims: one log more than the capacity stays.
BugVictims(logs, spared, u) ==
    LET others == DOMAIN logs \ {spared}
    IN  {V \in SUBSET others :
           /\ \A v \in V, w \in others \ V : u[v] <= u[w]
           /\ Cardinality(DOMAIN logs \ V) > CacheCapacity + 1 => V = others
           /\ V # {} => Cardinality(DOMAIN logs \ V) > CacheCapacity}

\* evict_cache: the least recently used sessions but the spared one leave,
\* until the cache fits; which of two equal stamps is older is left open.
Victims(logs, spared, u) ==
    LET others == DOMAIN logs \ {spared}
    IN  {V \in SUBSET others :
           /\ \A v \in V, w \in others \ V : u[v] <= u[w]
           /\ Cardinality(DOMAIN logs \ V) > CacheCapacity => V = others
           /\ V # {} => Cardinality(DOMAIN logs \ V) >= CacheCapacity}

\* A victim is checkpointed before it leaves.
EvictCache(logs, spared, u, fs) ==
    \E V \in Victims(logs, spared, u) :
       /\ cache' = Without(logs, V)
       /\ files' \in Checkpointed(fs, Only(logs, V))

-----------------------------------------------------------------------------
(* The operations                                                          *)

\* generate_session_id: an id nothing refers to any more. That ids come round
\* again after a deletion is a bound, so that a few of them suffice.
Unused(s) == s \notin DOMAIN sessions \cup DOMAIN index \cup DOMAIN files

\* create: the cache is trimmed while the previous session is still the
\* active one, so that the new session may be a victim.
Create(s) ==
    /\ Unused(s)
    /\ \E u \in Stamped(sessions, s) :
          /\ sessions' = u
          /\ EvictCache(Over(Just(s, FreshLog), cache), active, u, files)
          /\ SaveIndex(u)
    /\ active' = s

\* Mutants of Switch: the cache is trimmed before the session becomes active;
\* the log of the session left is saved in the file of the one opened.
BugSwitch(s) ==
    /\ s \in DOMAIN sessions
    /\ \E saved \in Checkpointed(files, Only(cache, {active} \ {s})) :
          EvictCache(IF s \in DOMAIN cache THEN cache
                     ELSE Over(Just(s, OnFlash(saved, s)), cache),
                     active, sessions, saved)
    /\ sessions' \in Stamped(sessions, s)
    /\ active' = s
    /\ UNCHANGED index

BugSwitchPath(s) ==
    /\ s \in DOMAIN sessions
    /\ \E saved \in {files} \cup
          {Over(Just(s, cache[r]), files) : r \in DOMAIN cache \cap ({active} \ {s})} :
          EvictCache(IF s \in DOMAIN cache THEN cache
                     ELSE Over(Just(s, OnFlash(saved, s)), cache),
                     s, sessions, saved)
    /\ sessions' \in Stamped(sessions, s)
    /\ active' = s
    /\ UNCHANGED index

\* switch: the session left is checkpointed, the other one loaded. The index
\* file keeps the old stamps.
Switch(s) ==
    /\ s \in DOMAIN sessions
    /\ \E saved \in Checkpointed(files, Only(cache, {active} \ {s})) :
          EvictCache(IF s \in DOMAIN cache THEN cache
                     ELSE Over(Just(s, OnFlash(saved, s)), cache),
                     s, sessions, saved)
    /\ sessions' \in Stamped(sessions, s)
    /\ active' = s
    /\ UNCHANGED index

Rename(s) ==
    /\ s \in DOMAIN sessions
    /\ sessions' \in Stamped(sessions, s)
    /\ SaveIndex(sessions')
    /\ UNCHANGED <<cache, active, files>>

\* Mutant of Delete: active_id is not cleared.
BugDelete(s) ==
    /\ s \in DOMAIN sessions
    /\ sessions' = Dense(Without(sessions, {s}))
    /\ cache' = Without(cache, {s})
    /\ files' = Without(files, {s})
    /\ SaveIndex(sessions')
    /\ UNCHANGED active

Delete(s) ==
    /\ s \in DOMAIN sessions
    /\ sessions' = Dense(Without(sessions, {s}))
    /\ SaveIndex(sessions')
    /\ cache' = Without(cache, {s})
    /\ \/ files' = Without(files, {s})
       \/ DiskFaults /\ files' = Reachable(files)
    /\ active' = IF active = s THEN NoSession ELSE active

\* take_active: the log of the active session, or a fresh one when the cache
\* has none (unwrap_or_else), leaves the cache.
Taken == IF active \in DOMAIN cache THEN cache[active] ELSE FreshLog

TakeActive ==
    /\ cache' = Without(cache, {active})
    /\ UNCHANGED <<sessions, active, files, index>>

\* Mutants of ReturnSession: the turn ends without a checkpoint; it is not
\* checked that there is an active session.
BugReturnSession(log) ==
    IF active = NoSession THEN UNCHANGED mgrVars
    ELSE /\ cache' = Over(Just(active, log), cache)
         /\ sessions' \in Stamped(sessions, active)
         /\ SaveIndex(sessions')
         /\ UNCHANGED <<active, files>>

BugReturnNowhere(log) ==
    /\ cache' = Over(Just(active, log), cache)
    /\ sessions' \in Stamped(sessions, active)
    /\ SaveIndex(sessions')
    /\ files' \in Checkpointed(files, Just(active, log))
    /\ UNCHANGED active

\* return_session and checkpoint_active: the log becomes that of the session
\* which is active now, and is dropped when none is. Nothing is evicted.
ReturnSession(log) ==
    IF active = NoSession THEN UNCHANGED mgrVars
    ELSE /\ cache' = Over(Just(active, log), cache)
         /\ sessions' \in Stamped(sessions, active)
         /\ SaveIndex(sessions')
         /\ files' \in Checkpointed(files, Just(active, log))
         /\ UNCHANGED active

\* Mutant of RewriteActive: the command forgets the checkpoint.
BugRewriteActive(log) ==
    /\ active \in DOMAIN cache
    /\ cache' = [cache EXCEPT ![active] = log]
    /\ UNCHANGED <<sessions, active, files, index>>

\* A command rewrites the active session's log in place and checkpoints it.
RewriteActive(log) ==
    /\ active \in DOMAIN cache
    /\ cache' = [cache EXCEPT ![active] = log]
    /\ files' \in Checkpointed(files, Just(active, log))
    /\ UNCHANGED <<sessions, active, index>>

-----------------------------------------------------------------------------
(* The start of the process in web mode (main.rs): the index is loaded, the *)
(* latest session of it, or a new one, is made active and its log taken out *)
(* for a dispatcher that never returns it.                                  *)

Resume(s, fs) ==
    /\ s \in DOMAIN index /\ \A r \in DOMAIN index : index[r] <= index[s]
    /\ active' = s
    /\ sessions' \in Stamped(index, s)
    /\ UNCHANGED index
    /\ cache' = EmptyFcn
    /\ files' = Reachable(fs)

StartNew(s, fs) ==
    /\ DOMAIN index = {}
    /\ active' = s
    /\ sessions' = Just(s, 0)
    /\ SaveIndex(sessions')
    /\ cache' = EmptyFcn
    /\ files' = Reachable(fs)

\* The process dies and starts again on the files fs.
Restart(fs) == \E s \in Session : Resume(s, fs) \/ StartNew(s, fs)

MgrInit ==
    \E s \in Session :
       /\ active = s
       /\ sessions = Just(s, 0)
       /\ index \in {Just(s, 0)} \cup (IF DiskFaults THEN {EmptyFcn} ELSE {})
       /\ cache = EmptyFcn
       /\ files = EmptyFcn
=============================================================================
