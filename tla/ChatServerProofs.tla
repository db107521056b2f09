-------------------------- MODULE ChatServerProofs --------------------------
(***************************************************************************)
(* Proofs about the session manager and the server, for any sessions,      *)
(* turns and capacity and under every kind of overlap of Overlaps, unless  *)
(* a theorem says which.                                                   *)
(***************************************************************************)
EXTENDS ChatServerProps, FiniteSetTheorems, TLAPS

\* Stamps of finitely many sessions, none above their number
Stamps(u) ==
    /\ DOMAIN u \subseteq Session /\ IsFiniteSet(DOMAIN u)
    /\ u \in [DOMAIN u -> Nat]
    /\ \A r \in DOMAIN u : u[r] <= Cardinality(DOMAIN u)

-----------------------------------------------------------------------------
(* Stamps                                                                  *)

\* Renumbering keeps the order strict and stays below the number of stamps.
LEMMA DenseOK ==
    ASSUME NEW u, NEW S, IsFiniteSet(S), u \in [S -> Nat]
    PROVE  /\ Dense(u) \in [S -> Nat]
           /\ \A r \in S : Dense(u)[r] <= Cardinality(S)
           /\ \A r, q \in S : u[r] < u[q] => Dense(u)[r] < Dense(u)[q]
<1> DEFINE Q(s) == {q \in S : u[q] < u[s]}
           L(s) == {u[r] : r \in Q(s)}
<1>1. ASSUME NEW s \in S
      PROVE  IsFiniteSet(L(s)) /\ Cardinality(L(s)) \in Nat /\ Cardinality(L(s)) <= Cardinality(S)
  <2>1. /\ IsFiniteSet(Q(s)) /\ Cardinality(Q(s)) <= Cardinality(S)
    BY FS_Subset
  <2>2. [r \in Q(s) |-> u[r]] \in Surjection(Q(s), L(s))
    BY DEF Surjection
  <2>3. IsFiniteSet(L(s)) /\ Cardinality(L(s)) <= Cardinality(Q(s))
    <3> HIDE DEF Q, L
    <3> QED BY <2>1, <2>2, FS_Surjection
  <2>4. Cardinality(L(s)) \in Nat /\ Cardinality(Q(s)) \in Nat /\ Cardinality(S) \in Nat
    <3> HIDE DEF Q, L
    <3> QED BY <2>1, <2>3, FS_CardinalityType
  <2> HIDE DEF Q, L
  <2> QED BY <2>1, <2>3, <2>4
<1>2. Dense(u) = [s \in S |-> Cardinality(L(s))]
  BY DEF Dense
<1>3. ASSUME NEW r \in S, NEW q \in S, u[r] < u[q]
      PROVE  Cardinality(L(r)) < Cardinality(L(q))
  <2>1. L(r) \subseteq L(q) /\ u[r] \in L(q) /\ u[r] \notin L(r)
    BY <1>3
  <2> HIDE DEF L
  <2>2. Cardinality(L(r)) <= Cardinality(L(q)) /\ Cardinality(L(r)) # Cardinality(L(q))
    BY <1>1, <2>1, FS_Subset
  <2> QED BY <1>1, <2>2
<1> HIDE DEF L
<1> QED BY <1>1, <1>2, <1>3

\* With time that moves, the session stamped last is strictly the latest.
LEMMA StampedOK ==
    ASSUME NEW u, Stamps(u), NEW s \in Session, NEW v \in Stamped(u, s)
    PROVE  /\ Stamps(v) /\ DOMAIN v = DOMAIN u \cup {s}
           /\ ~SameMillis => \A r \in DOMAIN u \ {s} : v[r] < v[s]
<1> DEFINE after == Cardinality(DOMAIN u) + 1
           S == DOMAIN u \cup {s}
           Now(n) == Over(Just(s, n), u)
<1>1. Cardinality(DOMAIN u) \in Nat /\ IsFiniteSet(S)
  BY FS_CardinalityType, FS_AddElement DEF Stamps
<1>2. PICK n \in Nat : v = Dense(Now(n)) /\ (~SameMillis => n = after)
  BY <1>1 DEF Stamped, Stamps
<1>3. Now(n) \in [S -> Nat] /\ Now(n)[s] = n /\ \A r \in DOMAIN u \ {s} : Now(n)[r] = u[r]
  <2>1. IsPartial(Just(s, n), Nat) /\ DOMAIN Just(s, n) = {s} /\ Just(s, n)[s] = n
    BY DEF Just, IsPartial
  <2>2. IsPartial(u, Nat)
    BY DEF Stamps, IsPartial
  <2>3. IsPartial(Now(n), Nat) /\ DOMAIN Now(n) = {s} \cup DOMAIN u
    BY <2>1, <2>2 DEF Over, IsPartial
  <2>4. Now(n)[s] = n /\ \A r \in DOMAIN u \ {s} : Now(n)[r] = u[r]
    BY <2>1, <2>2 DEF Over, IsPartial
  <2> HIDE DEF Now
  <2> QED BY <2>3, <2>4 DEF IsPartial
<1> HIDE DEF Now
<1>4. /\ v \in [S -> Nat]
      /\ \A r \in S : v[r] <= Cardinality(S)
      /\ \A r, q \in S : Now(n)[r] < Now(n)[q] => v[r] < v[q]
  BY <1>1, <1>2, <1>3, DenseOK
<1>5. Stamps(v) /\ DOMAIN v = DOMAIN u \cup {s}
  BY <1>1, <1>4 DEF Stamps
<1>6. ASSUME ~SameMillis, NEW r \in DOMAIN u \ {s} PROVE v[r] < v[s]
  <2>1. u[r] <= Cardinality(DOMAIN u) /\ u[r] \in Nat
    BY DEF Stamps
  <2>2. Now(n)[r] < Now(n)[s]
    BY <1>1, <1>2, <1>3, <1>6, <2>1
  <2> QED BY <1>4, <2>2
<1> QED BY <1>5, <1>6

-----------------------------------------------------------------------------
(* Checkpoints and evictions                                               *)

LEMMA CheckpointedOK ==
    ASSUME NEW fs, IsPartial(fs, Seq(Turn)), NEW logs, IsPartial(logs, Seq(Turn)),
           NEW new \in Checkpointed(fs, logs)
    PROVE  /\ IsPartial(new, Seq(Turn))
           /\ DOMAIN new \subseteq DOMAIN fs \cup DOMAIN logs
           /\ ~DiskFaults => \A r : OnFlash(new, r) =
                                IF r \in DOMAIN logs THEN logs[r] ELSE OnFlash(fs, r)
<1>1. PICK W \in SUBSET DOMAIN logs :
         new = Over(Only(logs, W), fs) /\ (~DiskFaults => W = DOMAIN logs)
  BY DEF Checkpointed
<1>2. /\ IsPartial(Only(logs, W), Seq(Turn)) /\ DOMAIN Only(logs, W) = W
      /\ \A r \in W : Only(logs, W)[r] = logs[r]
  BY DEF IsPartial, Only
<1>3. /\ IsPartial(new, Seq(Turn)) /\ DOMAIN new = W \cup DOMAIN fs
      /\ \A r \in W : new[r] = logs[r]
      /\ \A r \in DOMAIN fs \ W : new[r] = fs[r]
  BY <1>1, <1>2 DEF IsPartial, Over
<1> QED BY <1>1, <1>3 DEF OnFlash

\* What an eviction leaves in the cache and in the files
LEMMA EvictOK ==
    ASSUME NEW logs, IsPartial(logs, Seq(Turn)), IsFiniteSet(DOMAIN logs),
           NEW spared, NEW u, NEW fs, IsPartial(fs, Seq(Turn)),
           EvictCache(logs, spared, u, fs)
    PROVE  /\ IsPartial(cache', Seq(Turn)) /\ DOMAIN cache' \subseteq DOMAIN logs
           /\ \A r \in DOMAIN cache' : cache'[r] = logs[r]
           /\ spared \in DOMAIN logs => spared \in DOMAIN cache'
           /\ IsPartial(files', Seq(Turn))
           /\ DOMAIN files' \subseteq DOMAIN fs \cup DOMAIN logs
           /\ ~DiskFaults => \A r : OnFlash(files', r) =
                 IF r \in DOMAIN logs \ DOMAIN cache' THEN logs[r] ELSE OnFlash(fs, r)
           /\ \/ DOMAIN cache' \subseteq {spared}
              \/ /\ Cardinality(DOMAIN cache') <= CacheCapacity
                 /\ \A v \in DOMAIN logs \ DOMAIN cache' :
                       \E w \in DOMAIN cache' \ {spared} : u[v] <= u[w]
<1> DEFINE others == DOMAIN logs \ {spared}
<1>1. PICK V \in Victims(logs, spared, u) :
         /\ cache' = Without(logs, V)
         /\ files' \in Checkpointed(fs, Only(logs, V))
  BY DEF EvictCache
<1>2. /\ V \subseteq others
      /\ \A v \in V, w \in others \ V : u[v] <= u[w]
      /\ Cardinality(DOMAIN logs \ V) > CacheCapacity => V = others
  BY <1>1 DEF Victims
<1>3. /\ IsPartial(cache', Seq(Turn)) /\ DOMAIN cache' = DOMAIN logs \ V
      /\ \A r \in DOMAIN cache' : cache'[r] = logs[r]
  BY <1>1 DEF IsPartial, Without
<1>4. /\ IsPartial(Only(logs, V), Seq(Turn)) /\ DOMAIN Only(logs, V) = V
      /\ \A r \in V : Only(logs, V)[r] = logs[r]
  BY <1>2 DEF IsPartial, Only
<1>5. /\ IsPartial(files', Seq(Turn)) /\ DOMAIN files' \subseteq DOMAIN fs \cup DOMAIN logs
      /\ ~DiskFaults => \A r : OnFlash(files', r) =
            IF r \in V THEN logs[r] ELSE OnFlash(fs, r)
  BY <1>1, <1>2, <1>4, CheckpointedOK
<1>6. V = DOMAIN logs \ DOMAIN cache'
  BY <1>2, <1>3
<1>7. CASE V = others
  BY <1>2, <1>3, <1>5, <1>6, <1>7
<1>8. CASE V # others
  <2>1. Cardinality(DOMAIN cache') \in Nat
    BY <1>3, FS_Subset, FS_CardinalityType
  <2>2. Cardinality(DOMAIN cache') <= CacheCapacity
    BY <1>2, <1>3, <1>8, <2>1, CapacityAssumption
  <2>3. PICK w \in others : w \notin V
    BY <1>2, <1>8
  <2>4. \A v \in V : u[v] <= u[w]
    BY <1>2, <2>3
  <2> QED BY <1>2, <1>3, <1>5, <1>6, <2>2, <2>3, <2>4
<1> QED BY <1>7, <1>8

-----------------------------------------------------------------------------
(* The manager, whoever uses it                                            *)

\* What is active or cached is in the index.
Known ==
    /\ active \in DOMAIN sessions \cup {NoSession}
    /\ DOMAIN cache \subseteq DOMAIN sessions

\* Without failing writes, memory and disk agree.
OnDisk ==
    ~DiskFaults => /\ DOMAIN index = DOMAIN sessions
                   /\ DOMAIN files \subseteq DOMAIN sessions
                   /\ NothingUnsaved

\* With time that moves there is a page left for the active session.
PageLeft ==
    ~SameMillis /\ CacheCapacity >= 2 =>
       Cardinality(DOMAIN cache \ {active}) <= CacheCapacity - 1

MgrInv ==
    MgrTypeOK /\ Stamps(sessions) /\ Stamps(index) /\ Known /\ OnDisk /\ PageLeft

LEMMA CacheFinite ==
    ASSUME MgrInv
    PROVE  IsFiniteSet(DOMAIN cache)
BY FS_Subset DEF MgrInv, Stamps, Known

LEMMA StampsPartial ==
    ASSUME NEW u, Stamps(u)
    PROVE  IsPartial(u, Nat)
BY DEF Stamps, IsPartial

LEMMA StampedAgain ==
    ASSUME MgrInv, NEW s \in DOMAIN sessions, sessions' \in Stamped(sessions, s)
    PROVE  Stamps(sessions') /\ DOMAIN sessions' = DOMAIN sessions
<1>1. Stamps(sessions) /\ s \in Session
  BY DEF MgrInv, Stamps
<1>2. PICK v \in Stamped(sessions, s) : sessions' = v
  OBVIOUS
<1>3. Stamps(v) /\ DOMAIN v = DOMAIN sessions \cup {s}
  BY <1>1, StampedOK
<1> QED BY <1>2, <1>3

LEMMA SaveIndexOK ==
    ASSUME MgrInv, NEW u, Stamps(u), SaveIndex(u)
    PROVE  Stamps(index') /\ (~DiskFaults => DOMAIN index' = DOMAIN u)
BY DEF MgrInv, SaveIndex

\* The new session may be a victim itself only of a tie.
LEMMA CreateOK ==
    ASSUME MgrInv, NEW s \in Session, Create(s)
    PROVE  /\ MgrInv'
           /\ ~DiskFaults => /\ s \notin DOMAIN sessions /\ OnFlash(files, s) = FreshLog
                             /\ DOMAIN sessions' = DOMAIN sessions \cup {s}
                             /\ \A r : OnFlash(files', r) = OnFlash(files, r)
<1> DEFINE logs == Over(Just(s, FreshLog), cache)
<1>1. PICK u \in Stamped(sessions, s) :
         sessions' = u /\ EvictCache(logs, active, u, files) /\ SaveIndex(u)
  BY DEF Create
<1>2. /\ Stamps(u) /\ DOMAIN u = DOMAIN sessions \cup {s}
      /\ ~SameMillis => \A r \in DOMAIN sessions \ {s} : u[r] < u[s]
  BY StampedOK DEF MgrInv
<1>3. active' = s /\ s \notin DOMAIN sessions /\ s \notin DOMAIN files /\ s \notin DOMAIN cache
  BY DEF Create, Unused, MgrInv, Known
<1>4. /\ IsPartial(logs, Seq(Turn)) /\ DOMAIN logs = {s} \cup DOMAIN cache
      /\ logs[s] = FreshLog /\ \A r \in DOMAIN cache : logs[r] = cache[r]
  BY <1>3 DEF MgrInv, MgrTypeOK, IsPartial, Over, Just, FreshLog
<1>5. IsFiniteSet(DOMAIN logs)
  BY <1>4, CacheFinite, FS_AddElement
<1>6. IsPartial(files, Seq(Turn))
  BY DEF MgrInv, MgrTypeOK
<1> HIDE DEF logs
<1>7. /\ IsPartial(cache', Seq(Turn)) /\ DOMAIN cache' \subseteq DOMAIN logs
      /\ \A r \in DOMAIN cache' : cache'[r] = logs[r]
      /\ IsPartial(files', Seq(Turn))
      /\ DOMAIN files' \subseteq DOMAIN files \cup DOMAIN logs
      /\ ~DiskFaults => \A r : OnFlash(files', r) =
            IF r \in DOMAIN logs \ DOMAIN cache' THEN logs[r] ELSE OnFlash(files, r)
      /\ \/ DOMAIN cache' \subseteq {active}
         \/ /\ Cardinality(DOMAIN cache') <= CacheCapacity
            /\ \A v \in DOMAIN logs \ DOMAIN cache' :
                  \E w \in DOMAIN cache' \ {active} : u[v] <= u[w]
  BY <1>1, <1>4, <1>5, <1>6, EvictOK
<1>8. Stamps(index') /\ (~DiskFaults => DOMAIN index' = DOMAIN u)
  BY <1>1, <1>2, SaveIndexOK
<1>9. MgrTypeOK' /\ Stamps(sessions') /\ Stamps(index')
  BY <1>1, <1>2, <1>3, <1>7, <1>8, StampsPartial DEF MgrTypeOK
<1>10. Known'
  BY <1>1, <1>2, <1>3, <1>4, <1>7 DEF Known, MgrInv
<1>11. ASSUME ~DiskFaults
       PROVE  /\ DOMAIN index' = DOMAIN sessions'
              /\ DOMAIN files' \subseteq DOMAIN sessions'
              /\ NothingUnsaved'
              /\ \A r : OnFlash(files', r) = OnFlash(files, r)
  <2>1. /\ DOMAIN files \subseteq DOMAIN sessions
        /\ \A r \in DOMAIN cache : cache[r] = OnFlash(files, r)
    BY <1>11 DEF MgrInv, OnDisk, NothingUnsaved
  <2>2. DOMAIN files' \subseteq DOMAIN sessions' /\ DOMAIN index' = DOMAIN sessions'
    BY <1>1, <1>2, <1>4, <1>7, <1>8, <1>11, <2>1 DEF MgrInv, Known
  <2>3. \A r \in DOMAIN logs : logs[r] = OnFlash(files, r)
    BY <1>3, <1>4, <2>1 DEF OnFlash
  <2>4. \A r : OnFlash(files', r) = OnFlash(files, r)
    BY <1>7, <1>11, <2>3
  <2>5. NothingUnsaved'
    BY <1>7, <2>3, <2>4 DEF NothingUnsaved
  <2> QED BY <2>2, <2>4, <2>5
<1>12. PageLeft'
  <2> SUFFICES ASSUME ~SameMillis, CacheCapacity >= 2
               PROVE  Cardinality(DOMAIN cache' \ {s}) <= CacheCapacity - 1
    BY <1>3 DEF PageLeft
  <2>1. IsFiniteSet(DOMAIN cache') /\ CacheCapacity \in Nat
    BY <1>5, <1>7, FS_Subset, CapacityAssumption
  <2>2. Cardinality(DOMAIN cache') \in Nat
    BY <2>1, FS_CardinalityType
  <2>3. CASE DOMAIN cache' \subseteq {active}
    <3>1. DOMAIN cache' \ {s} \in SUBSET {active}
      BY <2>3
    <3>2. IsFiniteSet({active}) /\ Cardinality({active}) = 1
      BY FS_Singleton
    <3>3. Cardinality(DOMAIN cache' \ {s}) <= 1 /\ IsFiniteSet(DOMAIN cache' \ {s})
      BY <3>1, <3>2, FS_Subset
    <3>4. Cardinality(DOMAIN cache' \ {s}) \in Nat
      BY <3>3, FS_CardinalityType
    <3> QED BY <2>1, <3>3, <3>4
  <2>4. CASE /\ Cardinality(DOMAIN cache') <= CacheCapacity
             /\ \A v \in DOMAIN logs \ DOMAIN cache' :
                   \E w \in DOMAIN cache' \ {active} : u[v] <= u[w]
    <3>1. s \in DOMAIN cache'
      <4> SUFFICES ASSUME s \notin DOMAIN cache' PROVE FALSE
        OBVIOUS
      <4>1. PICK w \in DOMAIN cache' \ {active} : u[s] <= u[w]
        BY <1>4, <2>4
      <4>2. w \in DOMAIN sessions \ {s}
        BY <1>4, <1>7 DEF MgrInv, Known
      <4>3. u[w] < u[s] /\ u[w] \in Nat /\ u[s] \in Nat
        BY <1>2, <4>2 DEF Stamps
      <4> QED BY <4>1, <4>3
    <3>2. Cardinality(DOMAIN cache' \ {s}) = Cardinality(DOMAIN cache') - 1
      BY <2>1, <3>1, FS_RemoveElement
    <3> QED BY <2>1, <2>2, <2>4, <3>2
  <2> QED BY <1>7, <2>3, <2>4
<1>13. OnFlash(files, s) = FreshLog
  BY <1>3 DEF OnFlash
<1>14. MgrInv'
  BY <1>9, <1>10, <1>11, <1>12 DEF MgrInv, OnDisk
<1> QED BY <1>1, <1>2, <1>3, <1>11, <1>13, <1>14

LEMMA SwitchOK ==
    ASSUME MgrInv, NEW s \in Session, Switch(s)
    PROVE  /\ MgrInv' /\ s \in DOMAIN cache' /\ DOMAIN sessions' = DOMAIN sessions
           /\ ~DiskFaults => \A r : OnFlash(files', r) = OnFlash(files, r)
<1> DEFINE logs(fs) == IF s \in DOMAIN cache THEN cache
                       ELSE Over(Just(s, OnFlash(fs, s)), cache)
           left == Only(cache, {active} \ {s})
<1>1. PICK saved \in Checkpointed(files, left) :
         EvictCache(logs(saved), s, sessions, saved)
  BY DEF Switch
<1>2. /\ s \in DOMAIN sessions /\ sessions' \in Stamped(sessions, s)
      /\ active' = s /\ UNCHANGED index
  BY DEF Switch
<1>3. Stamps(sessions') /\ DOMAIN sessions' = DOMAIN sessions
  BY <1>2, StampedAgain
<1>4. /\ IsPartial(files, Seq(Turn)) /\ IsPartial(left, Seq(Turn))
      /\ DOMAIN left \subseteq DOMAIN cache
      /\ \A r \in DOMAIN left : left[r] = cache[r]
  BY DEF MgrInv, MgrTypeOK, IsPartial, Only
<1> HIDE DEF left
<1>5. /\ IsPartial(saved, Seq(Turn))
      /\ DOMAIN saved \subseteq DOMAIN files \cup DOMAIN cache
      /\ ~DiskFaults => \A r : OnFlash(saved, r) =
                           IF r \in DOMAIN left THEN left[r] ELSE OnFlash(files, r)
  BY <1>1, <1>4, CheckpointedOK
<1>6. /\ IsPartial(logs(saved), Seq(Turn)) /\ DOMAIN logs(saved) = {s} \cup DOMAIN cache
      /\ \A r \in DOMAIN cache : logs(saved)[r] = cache[r]
      /\ s \notin DOMAIN cache => logs(saved)[s] = OnFlash(saved, s)
  <2>1. OnFlash(saved, s) \in Seq(Turn)
    BY <1>5 DEF OnFlash, IsPartial, FreshLog
  <2> QED BY <2>1 DEF MgrInv, MgrTypeOK, IsPartial, Over, Just
<1>7. IsFiniteSet(DOMAIN logs(saved))
  BY <1>6, CacheFinite, FS_AddElement
<1> HIDE DEF logs
<1>8. /\ IsPartial(cache', Seq(Turn)) /\ DOMAIN cache' \subseteq DOMAIN logs(saved)
      /\ \A r \in DOMAIN cache' : cache'[r] = logs(saved)[r]
      /\ s \in DOMAIN cache'
      /\ IsPartial(files', Seq(Turn))
      /\ DOMAIN files' \subseteq DOMAIN saved \cup DOMAIN logs(saved)
      /\ ~DiskFaults => \A r : OnFlash(files', r) =
            IF r \in DOMAIN logs(saved) \ DOMAIN cache' THEN logs(saved)[r] ELSE OnFlash(saved, r)
      /\ DOMAIN cache' \subseteq {s} \/ Cardinality(DOMAIN cache') <= CacheCapacity
  BY <1>1, <1>5, <1>6, <1>7, EvictOK
<1>9. MgrTypeOK' /\ Stamps(sessions') /\ Stamps(index')
  BY <1>2, <1>3, <1>8, StampsPartial DEF MgrTypeOK, MgrInv
<1>10. Known'
  BY <1>2, <1>3, <1>6, <1>8 DEF Known, MgrInv
<1>11. ASSUME ~DiskFaults
       PROVE  /\ DOMAIN index' = DOMAIN sessions'
              /\ DOMAIN files' \subseteq DOMAIN sessions'
              /\ NothingUnsaved'
              /\ \A r : OnFlash(files', r) = OnFlash(files, r)
  <2>1. /\ DOMAIN files \subseteq DOMAIN sessions /\ DOMAIN index = DOMAIN sessions
        /\ \A r \in DOMAIN cache : cache[r] = OnFlash(files, r)
    BY <1>11 DEF MgrInv, OnDisk, NothingUnsaved
  <2>2. DOMAIN files' \subseteq DOMAIN sessions' /\ DOMAIN index' = DOMAIN sessions'
    BY <1>2, <1>3, <1>5, <1>6, <1>8, <2>1 DEF MgrInv, Known
  <2>3. \A r : OnFlash(saved, r) = OnFlash(files, r)
    BY <1>4, <1>5, <1>11, <2>1
  <2>4. \A r \in DOMAIN logs(saved) : logs(saved)[r] = OnFlash(files, r)
    BY <1>6, <2>1, <2>3
  <2>5. \A r : OnFlash(files', r) = OnFlash(files, r)
    BY <1>8, <1>11, <2>3, <2>4
  <2>6. NothingUnsaved'
    BY <1>8, <2>4, <2>5 DEF NothingUnsaved
  <2> QED BY <2>2, <2>5, <2>6
<1>12. PageLeft'
  <2> SUFFICES ASSUME CacheCapacity >= 2
               PROVE  Cardinality(DOMAIN cache' \ {s}) <= CacheCapacity - 1
    BY <1>2 DEF PageLeft
  <2>1. IsFiniteSet(DOMAIN cache') /\ CacheCapacity \in Nat
    BY <1>7, <1>8, FS_Subset, CapacityAssumption
  <2>2. Cardinality(DOMAIN cache') \in Nat
    BY <2>1, FS_CardinalityType
  <2>3. Cardinality(DOMAIN cache' \ {s}) = Cardinality(DOMAIN cache') - 1
    BY <1>8, <2>1, FS_RemoveElement
  <2>4. DOMAIN cache' \subseteq {s} => Cardinality(DOMAIN cache') = 1
    <3>1. DOMAIN cache' \subseteq {s} => DOMAIN cache' = {s}
      BY <1>8
    <3> QED BY <3>1, FS_Singleton
  <2> QED BY <1>8, <2>1, <2>2, <2>3, <2>4
<1> QED BY <1>3, <1>8, <1>9, <1>10, <1>11, <1>12 DEF MgrInv, OnDisk

LEMMA RenameOK ==
    ASSUME MgrInv, NEW s \in Session, Rename(s)
    PROVE  /\ MgrInv' /\ DOMAIN sessions' = DOMAIN sessions
           /\ UNCHANGED <<cache, active, files>>
<1>1. /\ s \in DOMAIN sessions /\ sessions' \in Stamped(sessions, s)
      /\ SaveIndex(sessions') /\ UNCHANGED <<cache, active, files>>
  BY DEF Rename
<1>2. Stamps(sessions') /\ DOMAIN sessions' = DOMAIN sessions
  BY <1>1, StampedAgain
<1>3. Stamps(index') /\ (~DiskFaults => DOMAIN index' = DOMAIN sessions')
  BY <1>1, <1>2, SaveIndexOK
<1>4. MgrTypeOK' /\ Known' /\ OnDisk' /\ PageLeft'
  BY <1>1, <1>2, <1>3, StampsPartial
     DEF MgrInv, MgrTypeOK, Known, OnDisk, NothingUnsaved, PageLeft
<1> QED BY <1>1, <1>2, <1>3, <1>4 DEF MgrInv

LEMMA DeleteOK ==
    ASSUME MgrInv, NEW s \in Session, Delete(s)
    PROVE  /\ MgrInv'
           /\ s \in DOMAIN sessions /\ DOMAIN sessions' = DOMAIN sessions \ {s}
           /\ active' = IF active = s THEN NoSession ELSE active
           /\ cache' = Without(cache, {s})
           /\ ~DiskFaults => \A r : r # s => OnFlash(files', r) = OnFlash(files, r)
<1> DEFINE rest == Without(sessions, {s})
           S == DOMAIN sessions \ {s}
<1>1. /\ s \in DOMAIN sessions /\ sessions' = Dense(rest) /\ SaveIndex(sessions')
      /\ cache' = Without(cache, {s})
      /\ active' = IF active = s THEN NoSession ELSE active
  BY DEF Delete
<1>2. \/ files' = Without(files, {s})
      \/ DiskFaults /\ files' = Reachable(files)
  BY DEF Delete
<1>3. IsFiniteSet(S) /\ rest \in [S -> Nat]
  BY FS_RemoveElement DEF MgrInv, Stamps, Without
<1> HIDE DEF rest
<1>4. Stamps(sessions') /\ DOMAIN sessions' = S
  <2>1. /\ Dense(rest) \in [S -> Nat]
        /\ \A r \in S : Dense(rest)[r] <= Cardinality(S)
    BY <1>3, DenseOK
  <2> QED BY <1>1, <1>3, <2>1 DEF MgrInv, Stamps
<1>5. Stamps(index') /\ (~DiskFaults => DOMAIN index' = DOMAIN sessions')
  BY <1>1, <1>4, SaveIndexOK
<1>6. IsPartial(cache', Seq(Turn)) /\ DOMAIN cache' = DOMAIN cache \ {s}
  BY <1>1 DEF MgrInv, MgrTypeOK, IsPartial, Without
<1>7. IsPartial(files', Seq(Turn))
  BY <1>2 DEF MgrInv, MgrTypeOK, IsPartial, Without, Reachable, Only
<1>8. MgrTypeOK' /\ Known'
  BY <1>1, <1>4, <1>5, <1>6, <1>7, StampsPartial DEF MgrInv, MgrTypeOK, Known
<1>9. OnDisk' /\ (~DiskFaults => \A r : r # s => OnFlash(files', r) = OnFlash(files, r))
  <2> SUFFICES ASSUME ~DiskFaults
               PROVE  /\ DOMAIN index' = DOMAIN sessions'
                      /\ DOMAIN files' \subseteq DOMAIN sessions'
                      /\ NothingUnsaved'
                      /\ \A r : r # s => OnFlash(files', r) = OnFlash(files, r)
    BY DEF OnDisk
  <2>1. /\ DOMAIN files \subseteq DOMAIN sessions
        /\ \A r \in DOMAIN cache : cache[r] = OnFlash(files, r)
    BY DEF MgrInv, OnDisk, NothingUnsaved
  <2>2. files' = Without(files, {s})
    BY <1>2
  <2>3. \A r : r # s => OnFlash(files', r) = OnFlash(files, r)
    BY <2>2 DEF Without, OnFlash
  <2>4. NothingUnsaved'
    BY <1>1, <1>6, <2>1, <2>3 DEF NothingUnsaved, Without
  <2>5. DOMAIN files' \subseteq DOMAIN sessions'
    BY <1>4, <2>1, <2>2 DEF Without
  <2> QED BY <1>5, <2>3, <2>4, <2>5
<1>10. PageLeft'
  <2>1. CASE active = s
    <3>1. DOMAIN cache' \ {active'} = DOMAIN cache \ {active}
      BY <1>1, <1>6, <2>1, SessionAssumption DEF MgrInv, MgrTypeOK, IsPartial
    <3> QED BY <3>1 DEF MgrInv, PageLeft
  <2>2. CASE active # s
    <3>1. DOMAIN cache' \ {active'} \subseteq DOMAIN cache \ {active}
      BY <1>1, <1>6, <2>2
    <3>2. IsFiniteSet(DOMAIN cache \ {active})
      BY CacheFinite, FS_RemoveElement
    <3>3. /\ Cardinality(DOMAIN cache' \ {active'}) <= Cardinality(DOMAIN cache \ {active})
          /\ IsFiniteSet(DOMAIN cache' \ {active'})
      BY <3>1, <3>2, FS_Subset
    <3>4. /\ Cardinality(DOMAIN cache' \ {active'}) \in Nat
          /\ Cardinality(DOMAIN cache \ {active}) \in Nat
      BY <3>2, <3>3, FS_CardinalityType
    <3> QED BY <3>3, <3>4, CapacityAssumption DEF MgrInv, PageLeft
  <2> QED BY <2>1, <2>2
<1> QED BY <1>1, <1>4, <1>5, <1>8, <1>9, <1>10 DEF MgrInv

LEMMA SameManager ==
    ASSUME MgrInv, UNCHANGED mgrVars
    PROVE  MgrInv'
BY DEF MgrInv, mgrVars, MgrTypeOK, Known, OnDisk, NothingUnsaved, PageLeft

\* Whatever happens to the page of the active session, one page is left.
LEMMA SamePages ==
    ASSUME MgrInv, active' = active, DOMAIN cache' \ {active} = DOMAIN cache \ {active}
    PROVE  PageLeft'
BY DEF MgrInv, PageLeft

LEMMA TakeActiveOK ==
    ASSUME MgrInv, TakeActive
    PROVE  /\ MgrInv' /\ UNCHANGED <<sessions, active, files>> /\ Taken \in Seq(Turn)
           /\ ~DiskFaults /\ active \in DOMAIN cache => Taken = OnFlash(files, active)
<1>1. cache' = Without(cache, {active}) /\ UNCHANGED <<sessions, active, files, index>>
  BY DEF TakeActive
<1>2. MgrTypeOK' /\ Known' /\ OnDisk'
  BY <1>1 DEF MgrInv, MgrTypeOK, IsPartial, Without, Known, OnDisk, NothingUnsaved
<1>3. PageLeft'
  BY <1>1, SamePages DEF Without
<1>4. Taken \in Seq(Turn)
  BY DEF MgrInv, MgrTypeOK, IsPartial, Taken, FreshLog
<1>5. ~DiskFaults /\ active \in DOMAIN cache => Taken = OnFlash(files, active)
  BY DEF MgrInv, OnDisk, NothingUnsaved, Taken
<1> QED BY <1>1, <1>2, <1>3, <1>4, <1>5 DEF MgrInv

\* A log that is written for the active session, in memory and on disk
LEMMA WrittenOK ==
    ASSUME MgrInv, NEW log \in Seq(Turn), active # NoSession,
           cache' = Over(Just(active, log), cache),
           files' \in Checkpointed(files, Just(active, log)),
           Stamps(sessions'), Stamps(index'), UNCHANGED active,
           DOMAIN sessions' = DOMAIN sessions,
           ~DiskFaults => DOMAIN index' = DOMAIN sessions'
    PROVE  /\ MgrInv' /\ active \in DOMAIN cache'
           /\ ~DiskFaults => \A r : OnFlash(files', r) =
                                IF r = active THEN log ELSE OnFlash(files, r)
<1>1. active \in DOMAIN sessions /\ active \in Session
  BY DEF MgrInv, Known, Stamps
<1>2. /\ IsPartial(files, Seq(Turn)) /\ IsPartial(Just(active, log), Seq(Turn))
      /\ DOMAIN Just(active, log) = {active} /\ Just(active, log)[active] = log
  BY <1>1 DEF MgrInv, MgrTypeOK, IsPartial, Just
<1>3. PICK new \in Checkpointed(files, Just(active, log)) : files' = new
  OBVIOUS
<1>4. /\ IsPartial(new, Seq(Turn))
      /\ DOMAIN new \subseteq DOMAIN files \cup DOMAIN Just(active, log)
      /\ ~DiskFaults => \A r : OnFlash(new, r) =
            IF r \in DOMAIN Just(active, log) THEN Just(active, log)[r] ELSE OnFlash(files, r)
  BY <1>2, CheckpointedOK
<1>5. /\ IsPartial(files', Seq(Turn)) /\ DOMAIN files' \subseteq DOMAIN files \cup {active}
      /\ ~DiskFaults => \A r : OnFlash(files', r) =
                           IF r = active THEN log ELSE OnFlash(files, r)
  BY <1>2, <1>3, <1>4
<1>6. /\ IsPartial(cache', Seq(Turn)) /\ DOMAIN cache' = DOMAIN cache \cup {active}
      /\ cache'[active] = log /\ \A r \in DOMAIN cache \ {active} : cache'[r] = cache[r]
  BY <1>1, <1>2 DEF MgrInv, MgrTypeOK, IsPartial, Over
<1>7. MgrTypeOK'
  BY <1>5, <1>6, StampsPartial DEF MgrInv, MgrTypeOK
<1>8. Known' /\ PageLeft'
  BY <1>1, <1>6, SamePages DEF MgrInv, Known
<1>9. OnDisk'
  BY <1>1, <1>5, <1>6 DEF MgrInv, OnDisk, NothingUnsaved
<1> QED BY <1>5, <1>6, <1>7, <1>8, <1>9 DEF MgrInv

LEMMA ReturnSessionOK ==
    ASSUME MgrInv, NEW log \in Seq(Turn), ReturnSession(log), active # NoSession
    PROVE  /\ MgrInv' /\ active \in DOMAIN cache' /\ UNCHANGED active
           /\ DOMAIN sessions' = DOMAIN sessions
           /\ ~DiskFaults => \A r : OnFlash(files', r) =
                                IF r = active THEN log ELSE OnFlash(files, r)
<1>1. /\ cache' = Over(Just(active, log), cache)
      /\ sessions' \in Stamped(sessions, active) /\ SaveIndex(sessions')
      /\ files' \in Checkpointed(files, Just(active, log)) /\ UNCHANGED active
  BY DEF ReturnSession
<1>2. active \in DOMAIN sessions
  BY DEF MgrInv, Known
<1>3. Stamps(sessions') /\ DOMAIN sessions' = DOMAIN sessions
  BY <1>1, <1>2, StampedAgain
<1>4. Stamps(index') /\ (~DiskFaults => DOMAIN index' = DOMAIN sessions')
  BY <1>1, <1>3, SaveIndexOK
<1> QED BY <1>1, <1>3, <1>4, WrittenOK

LEMMA RewriteActiveOK ==
    ASSUME MgrInv, NEW log \in Seq(Turn), RewriteActive(log)
    PROVE  /\ MgrInv' /\ active \in DOMAIN cache /\ active \in DOMAIN cache'
           /\ UNCHANGED <<sessions, active>> /\ active # NoSession
           /\ ~DiskFaults => \A r : OnFlash(files', r) =
                                IF r = active THEN log ELSE OnFlash(files, r)
<1>1. /\ active \in DOMAIN cache /\ cache' = [cache EXCEPT ![active] = log]
      /\ files' \in Checkpointed(files, Just(active, log))
      /\ UNCHANGED <<sessions, active, index>>
  BY DEF RewriteActive
<1>2. active # NoSession
  BY <1>1, SessionAssumption DEF MgrInv, MgrTypeOK, IsPartial
<1>3. cache' = Over(Just(active, log), cache)
  BY <1>1 DEF MgrInv, MgrTypeOK, IsPartial, Over, Just
<1>4. Stamps(sessions') /\ Stamps(index') /\ (~DiskFaults => DOMAIN index' = DOMAIN sessions')
  BY <1>1 DEF MgrInv, OnDisk
<1> QED BY <1>1, <1>2, <1>3, <1>4, WrittenOK

EmptyPage == IsPartial(<<>>, Seq(Turn)) /\ DOMAIN <<>> = {}

LEMMA Empty == EmptyPage
BY DEF EmptyPage, IsPartial

LEMMA OneStamp ==
    ASSUME NEW s \in Session
    PROVE  Stamps(Just(s, 0)) /\ DOMAIN Just(s, 0) = {s}
<1>1. IsFiniteSet({s}) /\ Cardinality({s}) = 1
  BY FS_Singleton
<1> QED BY <1>1 DEF Stamps, Just

\* The manager with an empty cache
LEMMA FreshOK ==
    ASSUME cache' = <<>>, active' \in DOMAIN sessions',
           Stamps(sessions'), Stamps(index'), IsPartial(files', Seq(Turn)),
           ~DiskFaults => /\ DOMAIN index' = DOMAIN sessions'
                          /\ DOMAIN files' \subseteq DOMAIN sessions'
    PROVE  MgrInv'
<1>1. IsPartial(cache', Seq(Turn)) /\ DOMAIN cache' = {}
  BY Empty DEF EmptyPage
<1>2. MgrTypeOK' /\ Known' /\ OnDisk'
  BY <1>1, StampsPartial DEF MgrTypeOK, Known, OnDisk, NothingUnsaved, Stamps
<1>3. PageLeft'
  <2>1. DOMAIN cache' \ {active'} = {}
    BY <1>1
  <2>2. Cardinality({}) = 0
    BY FS_EmptySet
  <2> QED BY <2>1, <2>2, CapacityAssumption DEF PageLeft
<1> QED BY <1>2, <1>3 DEF MgrInv

\* A start makes a session of the index active, or the first one.
LEMMA RestartOK ==
    ASSUME MgrInv, NEW fs, IsPartial(fs, Seq(Turn)), DOMAIN fs \subseteq DOMAIN files,
           Restart(fs)
    PROVE  /\ MgrInv' /\ active' \in DOMAIN sessions' /\ DOMAIN cache' = {}
           /\ ~DiskFaults =>
                /\ \A r \in DOMAIN sessions' : OnFlash(files', r) = OnFlash(fs, r)
                /\ \/ DOMAIN sessions' = DOMAIN sessions
                   \/ DOMAIN sessions = {} /\ DOMAIN sessions' = {active'}
<1>1. PICK s \in Session : Resume(s, fs) \/ StartNew(s, fs)
  BY DEF Restart
<1>2. cache' = <<>> /\ active' = s /\ files' = Reachable(fs)
  BY <1>1 DEF Resume, StartNew, EmptyFcn
<1>3. /\ IsPartial(files', Seq(Turn))
      /\ DOMAIN files' = DOMAIN fs \cap (DOMAIN sessions' \cup DOMAIN index')
      /\ \A r \in DOMAIN files' : files'[r] = fs[r]
  BY <1>2 DEF Reachable, Only, IsPartial
<1>4. CASE Resume(s, fs)
  <2>1. s \in DOMAIN index /\ sessions' \in Stamped(index, s) /\ UNCHANGED index
    BY <1>4 DEF Resume
  <2>2. PICK v \in Stamped(index, s) : sessions' = v
    BY <2>1
  <2>3. Stamps(v) /\ DOMAIN v = DOMAIN index \cup {s}
    BY StampedOK DEF MgrInv
  <2>4. Stamps(sessions') /\ DOMAIN sessions' = DOMAIN index /\ Stamps(index')
    BY <2>1, <2>2, <2>3 DEF MgrInv
  <2>5. MgrInv'
    BY <1>2, <1>3, <2>1, <2>4, FreshOK
  <2>6. DOMAIN cache' = {}
    BY <1>2, Empty DEF EmptyPage
  <2> QED BY <1>2, <1>3, <2>1, <2>4, <2>5, <2>6 DEF MgrInv, OnDisk, OnFlash
<1>5. CASE StartNew(s, fs)
  <2>1. DOMAIN index = {} /\ sessions' = Just(s, 0) /\ SaveIndex(sessions')
    BY <1>5 DEF StartNew
  <2>2. Stamps(sessions') /\ DOMAIN sessions' = {s}
    BY <2>1, OneStamp
  <2>3. Stamps(index') /\ (~DiskFaults => DOMAIN index' = DOMAIN sessions')
    BY <2>1, <2>2, SaveIndexOK
  <2>4. MgrInv'
    BY <1>2, <1>3, <2>2, <2>3, FreshOK
  <2>5. DOMAIN cache' = {}
    BY <1>2, Empty DEF EmptyPage
  <2> QED BY <1>2, <1>3, <2>1, <2>2, <2>3, <2>4, <2>5 DEF MgrInv, OnDisk, OnFlash
<1> QED BY <1>1, <1>4, <1>5

LEMMA MgrInitOK == MgrInit => MgrInv
<1> SUFFICES ASSUME MgrInit PROVE MgrInv
  OBVIOUS
<1>1. PICK s \in Session :
         /\ active = s /\ sessions = Just(s, 0) /\ cache = <<>> /\ files = <<>>
         /\ index \in {Just(s, 0)} \cup (IF DiskFaults THEN {<<>>} ELSE {})
  BY DEF MgrInit, EmptyFcn
<1>2. Stamps(sessions) /\ DOMAIN sessions = {s}
  BY <1>1, OneStamp
<1>3. IsPartial(cache, Seq(Turn)) /\ DOMAIN cache = {} /\ IsPartial(files, Seq(Turn)) /\ DOMAIN files = {}
  BY <1>1, Empty DEF EmptyPage
<1>4. Stamps(<<>>)
  BY FS_EmptySet, Empty DEF Stamps, EmptyPage
<1>5. Stamps(index) /\ (~DiskFaults => DOMAIN index = DOMAIN sessions)
  BY <1>1, <1>2, <1>4
<1>6. MgrTypeOK /\ Known /\ OnDisk
  BY <1>1, <1>2, <1>3, <1>5, StampsPartial DEF MgrTypeOK, Known, OnDisk, NothingUnsaved
<1>7. PageLeft
  <2>1. DOMAIN cache \ {active} = {}
    BY <1>3
  <2>2. Cardinality({}) = 0
    BY FS_EmptySet
  <2> QED BY <2>1, <2>2, CapacityAssumption DEF PageLeft
<1> QED BY <1>2, <1>5, <1>6, <1>7 DEF MgrInv

-----------------------------------------------------------------------------
(* The turns                                                               *)

TurnTypeOK ==
    /\ phase \in [Turn -> {"new", "routing", "running", "returning", "over"}]
    /\ held \in [Turn -> Seq(Turn)]
    /\ asked \in [Turn -> Session \cup {NoSession}]
    /\ cancelTx \in Turn \cup {NoTurn}
    /\ cancelled \subseteq Turn
    /\ opened \in BOOLEAN

\* Without overlapping turns, one is in flight, and its sender is stored
\* until it is used.
OneTurn ==
    "chat" \notin Overlaps =>
       /\ \A t, r \in InFlight : t = r
       /\ \A t \in Turn : phase[t] = "running" /\ t \notin cancelled => cancelTx = t

TurnInv == TurnTypeOK /\ CancelTargetRuns /\ OneTurn

IInv == MgrInv /\ TurnInv

LEMMA InitOK == Init => IInv
<1> SUFFICES ASSUME Init PROVE IInv
  OBVIOUS
<1>1. MgrInv
  BY MgrInitOK DEF Init
<1>2. TurnTypeOK
  <2>1. <<>> \in Seq(Turn)
    OBVIOUS
  <2>2. held \in [Turn -> Seq(Turn)]
    BY <2>1 DEF Init, FreshLog
  <2> QED BY <2>2 DEF Init, TurnTypeOK
<1>3. cancelTx = NoTurn /\ \A t \in Turn : phase[t] = "new"
  BY DEF Init
<1>4. CancelTargetRuns /\ OneTurn
  BY <1>3 DEF CancelTargetRuns, OneTurn, InFlight
<1> QED BY <1>1, <1>2, <1>4 DEF IInv, TurnInv

LEMMA SameTurns ==
    ASSUME IInv, MgrInv', UNCHANGED turnVars, opened' \in BOOLEAN
    PROVE  IInv'
BY DEF IInv, TurnInv, turnVars, TurnTypeOK, CancelTargetRuns, OneTurn, InFlight

LEMMA ChatOK ==
    ASSUME IInv, NEW t \in Turn, Chat(t)
    PROVE  IInv'
<1>1. MgrInv' /\ Taken \in Seq(Turn)
  BY TakeActiveOK DEF IInv, Chat
<1>2. /\ phase[t] = "new" /\ phase' = [phase EXCEPT ![t] = "routing"]
      /\ held' = [held EXCEPT ![t] = Taken] /\ asked' = [asked EXCEPT ![t] = active]
      /\ UNCHANGED <<cancelTx, cancelled, opened>>
      /\ "chat" \notin Overlaps => InFlight = {}
  BY DEF Chat, Quiet
<1>3. TurnTypeOK'
  BY <1>1, <1>2 DEF IInv, TurnInv, TurnTypeOK, MgrInv, MgrTypeOK
<1>4. CancelTargetRuns'
  BY <1>2 DEF IInv, TurnInv, TurnTypeOK, CancelTargetRuns
<1>5. OneTurn'
  BY <1>2 DEF IInv, TurnInv, TurnTypeOK, OneTurn, InFlight
<1> QED BY <1>1, <1>3, <1>4, <1>5 DEF IInv, TurnInv

LEMMA DisconnectOK ==
    ASSUME IInv, NEW t \in Turn, Disconnect(t)
    PROVE  IInv'
<1>1. /\ phase[t] = "routing" /\ phase' = [phase EXCEPT ![t] = "over"]
      /\ held' = [held EXCEPT ![t] = <<>>]
      /\ UNCHANGED <<mgrVars, asked, cancelTx, cancelled, opened>>
  BY DEF Disconnect, FreshLog
<1>2. MgrInv'
  BY <1>1, SameManager DEF IInv
<1>3. TurnTypeOK'
  BY <1>1 DEF IInv, TurnInv, TurnTypeOK
<1>4. CancelTargetRuns' /\ OneTurn'
  BY <1>1, TurnAssumption DEF IInv, TurnInv, TurnTypeOK, CancelTargetRuns, OneTurn, InFlight
<1> QED BY <1>2, <1>3, <1>4 DEF IInv, TurnInv

LEMMA DispatchOK ==
    ASSUME IInv, NEW t \in Turn, Dispatch(t)
    PROVE  IInv'
<1>1. /\ phase[t] = "routing" /\ phase' = [phase EXCEPT ![t] = "running"]
      /\ cancelTx' = t
      /\ UNCHANGED <<mgrVars, held, asked, cancelled, opened>>
  BY DEF Dispatch
<1>2. MgrInv'
  BY <1>1, SameManager DEF IInv
<1>3. TurnTypeOK'
  BY <1>1 DEF IInv, TurnInv, TurnTypeOK
<1>4. CancelTargetRuns' /\ OneTurn'
  BY <1>1, TurnAssumption DEF IInv, TurnInv, TurnTypeOK, CancelTargetRuns, OneTurn, InFlight
<1> QED BY <1>2, <1>3, <1>4 DEF IInv, TurnInv

LEMMA FinishOK ==
    ASSUME IInv, NEW t \in Turn, Finish(t)
    PROVE  IInv'
<1>1. /\ phase[t] = "running" /\ phase' = [phase EXCEPT ![t] = "returning"]
      /\ held' = [held EXCEPT ![t] = Append(@, t)] /\ cancelTx' = NoTurn
      /\ UNCHANGED <<mgrVars, asked, cancelled, opened>>
  BY DEF Finish
<1>2. MgrInv'
  BY <1>1, SameManager DEF IInv
<1>3. TurnTypeOK'
  <2>1. Append(held[t], t) \in Seq(Turn)
    BY DEF IInv, TurnInv, TurnTypeOK
  <2> QED BY <1>1, <2>1 DEF IInv, TurnInv, TurnTypeOK
<1>4. CancelTargetRuns' /\ OneTurn'
  BY <1>1, TurnAssumption DEF IInv, TurnInv, TurnTypeOK, CancelTargetRuns, OneTurn, InFlight
<1> QED BY <1>2, <1>3, <1>4 DEF IInv, TurnInv

LEMMA ReturnOK ==
    ASSUME IInv, NEW t \in Turn, Return(t)
    PROVE  IInv'
<1>1. /\ phase[t] = "returning" /\ phase' = [phase EXCEPT ![t] = "over"]
      /\ held' = [held EXCEPT ![t] = <<>>] /\ ReturnSession(held[t])
      /\ UNCHANGED <<asked, cancelTx, cancelled, opened>>
  BY DEF Return, FreshLog
<1>2. MgrInv'
  <2>1. held[t] \in Seq(Turn)
    BY DEF IInv, TurnInv, TurnTypeOK
  <2>2. CASE active = NoSession
    BY <1>1, <2>2, SameManager DEF ReturnSession, IInv
  <2> QED BY <1>1, <2>1, <2>2, ReturnSessionOK DEF IInv
<1>3. TurnTypeOK'
  BY <1>1 DEF IInv, TurnInv, TurnTypeOK
<1>4. CancelTargetRuns' /\ OneTurn'
  BY <1>1, TurnAssumption DEF IInv, TurnInv, TurnTypeOK, CancelTargetRuns, OneTurn, InFlight
<1> QED BY <1>2, <1>3, <1>4 DEF IInv, TurnInv

LEMMA CancelOK ==
    ASSUME IInv, Cancel
    PROVE  IInv'
<1>1. /\ cancelTx \in Turn /\ cancelled' = cancelled \cup {cancelTx} /\ cancelTx' = NoTurn
      /\ UNCHANGED <<mgrVars, phase, held, asked, opened>>
  BY DEF Cancel, IInv, TurnInv, TurnTypeOK
<1>2. MgrInv'
  BY <1>1, SameManager DEF IInv
<1>3. TurnTypeOK'
  BY <1>1 DEF IInv, TurnInv, TurnTypeOK
<1>4. CancelTargetRuns' /\ OneTurn'
  BY <1>1, TurnAssumption DEF IInv, TurnInv, TurnTypeOK, CancelTargetRuns, OneTurn, InFlight
<1> QED BY <1>2, <1>3, <1>4 DEF IInv, TurnInv

LEMMA CompactLogs ==
    ASSUME NEW log \in Seq(Turn), NEW n \in 1 .. Len(log)
    PROVE  SubSeq(log, n, Len(log)) \in Seq(Turn)
OBVIOUS

\* The requests that leave the turns alone
LEMMA RequestOK ==
    ASSUME IInv,
           \/ \E s \in Session :
                 CreateSession(s) \/ OpenSession(s) \/ RenameSession(s) \/ DeleteSession(s)
           \/ ClearCommand \/ CompactCommand
    PROVE  IInv'
<1>1. UNCHANGED turnVars /\ opened' \in BOOLEAN
  BY DEF CreateSession, OpenSession, RenameSession, DeleteSession, ClearCommand,
         CompactCommand, IInv, TurnInv, TurnTypeOK
<1>2. MgrInv'
  <2>1. ASSUME NEW s \in Session, CreateSession(s) PROVE MgrInv'
    BY <2>1, CreateOK DEF CreateSession, IInv
  <2>2. ASSUME NEW s \in Session, OpenSession(s) PROVE MgrInv'
    BY <2>2, SwitchOK DEF OpenSession, IInv
  <2>3. ASSUME NEW s \in Session, RenameSession(s) PROVE MgrInv'
    BY <2>3, RenameOK DEF RenameSession, IInv
  <2>4. ASSUME NEW s \in Session, DeleteSession(s) PROVE MgrInv'
    BY <2>4, DeleteOK DEF DeleteSession, IInv
  <2>5. ASSUME ClearCommand PROVE MgrInv'
    <3>1. FreshLog \in Seq(Turn)
      BY DEF FreshLog
    <3> QED BY <2>5, <3>1, RewriteActiveOK DEF ClearCommand, IInv
  <2>6. ASSUME CompactCommand PROVE MgrInv'
    <3>1. cache[active] \in Seq(Turn)
      BY <2>6 DEF CompactCommand, IInv, MgrInv, MgrTypeOK, IsPartial
    <3>2. PICK n \in 1 .. Len(cache[active]) :
             RewriteActive(SubSeq(cache[active], n, Len(cache[active])))
      BY <2>6 DEF CompactCommand
    <3> QED BY <3>1, <3>2, CompactLogs, RewriteActiveOK DEF IInv
  <2> QED BY <2>1, <2>2, <2>3, <2>4, <2>5, <2>6
<1> QED BY <1>1, <1>2, SameTurns

\* A restart finds the files that are left; no turn survives it.
LEMMA CrashOK ==
    ASSUME IInv, Crash
    PROVE  IInv'
<1>1. PICK fs : /\ IsPartial(fs, Seq(Turn)) /\ DOMAIN fs \subseteq DOMAIN files
                /\ Restart(fs)
  BY DEF Crash, IInv, MgrInv, MgrTypeOK, IsPartial, Without
<1>2. MgrInv'
  BY <1>1, RestartOK DEF IInv
<1>3. /\ phase' = [t \in Turn |-> IF t \in InFlight THEN "over" ELSE phase[t]]
      /\ held' = [t \in Turn |-> <<>>] /\ cancelTx' = NoTurn /\ opened' = FALSE
      /\ UNCHANGED <<asked, cancelled>>
  BY DEF Crash, FreshLog
<1>4. TurnTypeOK'
  <2>1. TurnTypeOK
    BY DEF IInv, TurnInv
  <2>2. phase' \in [Turn -> {"new", "routing", "running", "returning", "over"}]
    BY <1>3, <2>1 DEF TurnTypeOK
  <2>3. held' \in [Turn -> Seq(Turn)]
    <3>1. <<>> \in Seq(Turn)
      OBVIOUS
    <3> QED BY <1>3, <3>1
  <2> QED BY <1>3, <2>1, <2>2, <2>3 DEF TurnTypeOK
<1>5. CancelTargetRuns'
  BY <1>3 DEF CancelTargetRuns
<1>6. OneTurn'
  BY <1>3 DEF OneTurn, InFlight
<1> QED BY <1>2, <1>4, <1>5, <1>6 DEF IInv, TurnInv

\* Every step of the server keeps the invariant.
LEMMA NextOK ==
    ASSUME IInv, [Next]_vars
    PROVE  IInv'
<1>1. ASSUME NEW t \in Turn, Dispatch(t) \/ Finish(t) \/ Return(t) PROVE IInv'
  BY <1>1, DispatchOK, FinishOK, ReturnOK
<1>2. ASSUME NEW t \in Turn, Chat(t) \/ Disconnect(t) PROVE IInv'
  BY <1>2, ChatOK, DisconnectOK
<1>3. CASE UNCHANGED vars
  <2>1. MgrInv'
    BY <1>3, SameManager DEF vars, IInv
  <2> QED BY <1>3, <2>1, SameTurns DEF vars, IInv, TurnInv, TurnTypeOK
<1> QED BY <1>1, <1>2, <1>3, CancelOK, RequestOK, CrashOK DEF Next, TurnStep

-----------------------------------------------------------------------------
LEMMA Invariant == Spec => []IInv
<1>1. Init => IInv
  BY InitOK
<1>2. IInv /\ [Next]_vars => IInv'
  BY NextOK
<1> QED BY <1>1, <1>2, PTL DEF Spec

\* The types of the manager and of the turns, under every kind of overlap and
\* fault.
THEOREM TypeCorrect == Spec => []TypeOK
<1>1. IInv => TypeOK
  BY DEF IInv, MgrInv, TurnInv, TurnTypeOK, TypeOK
<1> QED BY <1>1, Invariant, PTL

\* handle_chat and handle_cancel_turn: the stored sender belongs to a turn that
\* runs, however many turns overlap.
THEOREM StopsHit == Spec => []CancelTargetRuns
<1>1. IInv => CancelTargetRuns
  BY DEF IInv, TurnInv
<1> QED BY <1>1, Invariant, PTL

\* When turns do not overlap, the one that runs can be stopped.
THEOREM StopsReach ==
    ASSUME "chat" \notin Overlaps
    PROVE  Spec => []StopWorks
<1>1. IInv => StopWorks
  BY DEF IInv, TurnInv, OneTurn, StopWorks
<1> QED BY <1>1, Invariant, PTL

\* return_session, switch, create and the commands checkpoint what they change:
\* while writes succeed, cache and files agree.
THEOREM NothingLost ==
    ASSUME ~DiskFaults
    PROVE  Spec => []NothingUnsaved
<1>1. IInv => NothingUnsaved
  BY DEF IInv, MgrInv, OnDisk
<1> QED BY <1>1, Invariant, PTL

\* delete and return_session: a turn that comes back to a session which is gone
\* brings nothing back.
THEOREM NoOrphans ==
    ASSUME ~DiskFaults
    PROVE  Spec => []NothingOrphaned
<1>1. IInv => NothingOrphaned
  BY DEF IInv, MgrInv, Known, OnDisk, NothingOrphaned
<1> QED BY <1>1, Invariant, PTL

\* evict_cache leaves a page for the log that return_session inserts without
\* evicting, if there are two pages and no two stamps are equal.
THEOREM CacheBounded ==
    ASSUME ~SameMillis, CacheCapacity >= 2
    PROVE  Spec => []CacheBound
<1>1. ASSUME IInv PROVE CacheBound
  <2> DEFINE others == DOMAIN cache \ {active}
  <2>1. IsFiniteSet(others) /\ Cardinality(others) <= CacheCapacity - 1
    BY <1>1, CacheFinite, FS_RemoveElement DEF IInv, MgrInv, PageLeft
  <2>2. Cardinality(others) \in Nat /\ CacheCapacity \in Nat
    BY <2>1, FS_CardinalityType, CapacityAssumption
  <2>3. /\ IsFiniteSet(others \cup {active})
        /\ Cardinality(others \cup {active}) <= CacheCapacity
    <3> HIDE DEF others
    <3>1. /\ IsFiniteSet(others \cup {active})
          /\ \/ Cardinality(others \cup {active}) = Cardinality(others)
             \/ Cardinality(others \cup {active}) = Cardinality(others) + 1
      BY <2>1, FS_AddElement
    <3> QED BY <2>1, <2>2, <3>1
  <2>4. DOMAIN cache \in SUBSET (others \cup {active})
    OBVIOUS
  <2>5. Cardinality(DOMAIN cache) <= Cardinality(others \cup {active})
    BY <2>3, <2>4, FS_Subset
  <2>6. Cardinality(DOMAIN cache) \in Nat /\ Cardinality(others \cup {active}) \in Nat
    BY <1>1, <2>3, CacheFinite, FS_CardinalityType DEF IInv
  <2> HIDE DEF others
  <2> QED BY <2>2, <2>3, <2>5, <2>6 DEF CacheBound
<1> QED BY <1>1, Invariant, PTL

-----------------------------------------------------------------------------
(* Where the logs come from                                                *)

\* The logs there are of session s; a fresh one is always to be had.
LogsOf(s) == {FreshLog, OnFlash(files, s)} \cup {cache[r] : r \in DOMAIN cache \cap {s}}

\* Every log after the step was one of the same session before it.
Stay ==
    /\ \A r : OnFlash(files', r) \in LogsOf(r)
    /\ \A r \in DOMAIN cache' : cache'[r] \in LogsOf(r)

LEMMA CheckpointedFrom ==
    ASSUME NEW fs, NEW logs, NEW new \in Checkpointed(fs, logs)
    PROVE  \A r : \/ OnFlash(new, r) = OnFlash(fs, r)
                  \/ r \in DOMAIN logs /\ OnFlash(new, r) = logs[r]
<1>1. PICK W \in SUBSET DOMAIN logs : new = Over(Only(logs, W), fs)
  BY DEF Checkpointed
<1>2. DOMAIN Only(logs, W) = W /\ \A r \in W : Only(logs, W)[r] = logs[r]
  BY DEF Only
<1>3. /\ DOMAIN new = W \cup DOMAIN fs /\ \A r \in W : new[r] = logs[r]
      /\ \A r \in DOMAIN fs \ W : new[r] = fs[r]
  BY <1>1, <1>2 DEF Over
<1> QED BY <1>1, <1>3 DEF OnFlash

LEMMA EvictFrom ==
    ASSUME NEW logs, NEW spared, NEW u, NEW fs, EvictCache(logs, spared, u, fs)
    PROVE  /\ \A r \in DOMAIN cache' : r \in DOMAIN logs /\ cache'[r] = logs[r]
           /\ \A r : \/ OnFlash(files', r) = OnFlash(fs, r)
                     \/ r \in DOMAIN logs /\ OnFlash(files', r) = logs[r]
<1>1. PICK V \in Victims(logs, spared, u) :
         /\ cache' = Without(logs, V)
         /\ files' \in Checkpointed(fs, Only(logs, V))
  BY DEF EvictCache
<1>2. \A r : \/ OnFlash(files', r) = OnFlash(fs, r)
             \/ /\ r \in DOMAIN Only(logs, V)
                /\ OnFlash(files', r) = Only(logs, V)[r]
  BY <1>1, CheckpointedFrom
<1> QED BY <1>1, <1>2 DEF Without, Only

LEMMA CreateStays ==
    ASSUME NEW s \in Session, Create(s)
    PROVE  Stay
<1> DEFINE logs == Over(Just(s, FreshLog), cache)
<1>1. PICK u : EvictCache(logs, active, u, files)
  BY DEF Create
<1>2. \A r \in DOMAIN logs : logs[r] \in LogsOf(r)
  BY DEF Over, Just, LogsOf
<1>3. /\ \A r \in DOMAIN cache' : r \in DOMAIN logs /\ cache'[r] = logs[r]
      /\ \A r : \/ OnFlash(files', r) = OnFlash(files, r)
                \/ r \in DOMAIN logs /\ OnFlash(files', r) = logs[r]
  <2> HIDE DEF logs
  <2> QED BY <1>1, EvictFrom
<1> HIDE DEF logs
<1>4. \A r : OnFlash(files, r) \in LogsOf(r)
  BY DEF LogsOf
<1> QED BY <1>2, <1>3, <1>4 DEF Stay

LEMMA SwitchStays ==
    ASSUME NEW s \in Session, Switch(s)
    PROVE  Stay
<1> DEFINE left == Only(cache, {active} \ {s})
           logs(fs) == IF s \in DOMAIN cache THEN cache
                       ELSE Over(Just(s, OnFlash(fs, s)), cache)
<1>1. PICK saved \in Checkpointed(files, left) : EvictCache(logs(saved), s, sessions, saved)
  BY DEF Switch
<1>2. \A r : OnFlash(saved, r) \in LogsOf(r)
  <2>1. \A r : \/ OnFlash(saved, r) = OnFlash(files, r)
               \/ r \in DOMAIN left /\ OnFlash(saved, r) = left[r]
    <3> HIDE DEF left
    <3> QED BY <1>1, CheckpointedFrom
  <2>2. \A r \in DOMAIN left : left[r] \in LogsOf(r)
    BY DEF Only, LogsOf
  <2>3. \A r : OnFlash(files, r) \in LogsOf(r)
    BY DEF LogsOf
  <2> HIDE DEF left
  <2> QED BY <2>1, <2>2, <2>3
<1>3. \A r \in DOMAIN logs(saved) : logs(saved)[r] \in LogsOf(r)
  <2>1. \A r \in DOMAIN cache : cache[r] \in LogsOf(r)
    BY DEF LogsOf
  <2>2. OnFlash(saved, s) \in LogsOf(s)
    BY <1>2
  <2> QED BY <2>1, <2>2 DEF Over, Just
<1> DEFINE page == logs(saved)
<1>4. /\ \A r \in DOMAIN cache' : r \in DOMAIN page /\ cache'[r] = page[r]
      /\ \A r : \/ OnFlash(files', r) = OnFlash(saved, r)
                \/ r \in DOMAIN page /\ OnFlash(files', r) = page[r]
  <2>1. EvictCache(page, s, sessions, saved)
    BY <1>1
  <2> HIDE DEF page
  <2> QED BY <2>1, EvictFrom
<1>5. \A r \in DOMAIN page : page[r] \in LogsOf(r)
  BY <1>3
<1> HIDE DEF page
<1> QED BY <1>2, <1>4, <1>5 DEF Stay

LEMMA OthersStay ==
    ASSUME \/ \E s \in Session : Rename(s) \/ Delete(s)
           \/ TakeActive
           \/ UNCHANGED mgrVars
    PROVE  Stay
<1>1. /\ \A r \in DOMAIN cache' : r \in DOMAIN cache /\ cache'[r] = cache[r]
      /\ \A r \in DOMAIN files' : r \in DOMAIN files /\ files'[r] = files[r]
  BY DEF Rename, Delete, TakeActive, mgrVars, Without, Reachable, Only
<1> QED BY <1>1 DEF Stay, LogsOf, OnFlash

LEMMA RestartStays ==
    ASSUME NEW fs, \A r \in DOMAIN fs : r \in DOMAIN files /\ fs[r] = files[r],
           Restart(fs)
    PROVE  Stay
<1>1. cache' = <<>> /\ files' = Reachable(fs)
  BY DEF Restart, Resume, StartNew, EmptyFcn
<1>2. DOMAIN cache' = {}
  BY <1>1, Empty DEF EmptyPage
<1> QED BY <1>1, <1>2 DEF Stay, LogsOf, OnFlash, Reachable, Only

\* A write puts a log into the page and the file of the active session.
LEMMA WrittenStays ==
    ASSUME NEW log, ReturnSession(log) \/ RewriteActive(log), active # NoSession
    PROVE  /\ \A r : \/ OnFlash(files', r) \in LogsOf(r)
                     \/ r = active /\ OnFlash(files', r) = log
           /\ \A r \in DOMAIN cache' : \/ cache'[r] \in LogsOf(r)
                                       \/ r = active /\ cache'[r] = log
           /\ UNCHANGED active
<1>1. /\ files' \in Checkpointed(files, Just(active, log)) /\ UNCHANGED active
      /\ \A r \in DOMAIN cache' : IF r = active THEN cache'[r] = log
                                  ELSE r \in DOMAIN cache /\ cache'[r] = cache[r]
  BY DEF ReturnSession, RewriteActive, Over, Just
<1>2. \A r : \/ OnFlash(files', r) = OnFlash(files, r)
             \/ r \in DOMAIN Just(active, log) /\ OnFlash(files', r) = Just(active, log)[r]
  BY <1>1, CheckpointedFrom
<1> QED BY <1>1, <1>2 DEF LogsOf, Just

-----------------------------------------------------------------------------
(* Where the turns were asked                                              *)

\* The log of session s: turns that are over, asked in s, none twice. over
\* are the phases and home the sessions of the turns.
Home(log, s, over, home) ==
    /\ \A i \in DOMAIN log : over[log[i]] = "over" /\ home[log[i]] = s
    /\ \A i, j \in DOMAIN log : log[i] = log[j] => i = j

\* Every page, every file and every log that a turn holds is at home.
LogsHome ==
    /\ \A s \in DOMAIN cache : Home(cache[s], s, phase, asked)
    /\ \A s : Home(OnFlash(files, s), s, phase, asked)

HeldHome ==
    \A t \in InFlight :
       /\ asked[t] = active
       /\ IF phase[t] = "returning"
          THEN \E log \in Seq(Turn) : held[t] = Append(log, t) /\ Home(log, active, phase, asked)
          ELSE Home(held[t], active, phase, asked)

HInv == IInv /\ LogsHome /\ HeldHome

\* What is over stays over and where it was asked.
OverStays ==
    \A t \in Turn : phase[t] = "over" => phase'[t] = "over" /\ asked'[t] = asked[t]

LEMMA HomeStays ==
    ASSUME OverStays, NEW log \in Seq(Turn), NEW s, Home(log, s, phase, asked)
    PROVE  Home(log, s, phase', asked')
<1>1. \A i \in DOMAIN log : log[i] \in Turn
  OBVIOUS
<1> QED BY <1>1 DEF Home, OverStays

LEMMA FreshHome ==
    ASSUME NEW s, NEW over, NEW home
    PROVE  Home(FreshLog, s, over, home)
BY DEF Home, FreshLog

LEMMA HomeEnd ==
    ASSUME NEW log \in Seq(Turn), NEW n \in 1 .. Len(log), NEW s, NEW over, NEW home,
           Home(log, s, over, home)
    PROVE  Home(SubSeq(log, n, Len(log)), s, over, home)
<1> DEFINE end == SubSeq(log, n, Len(log))
<1>1. /\ Len(end) = Len(log) + 1 - n /\ DOMAIN end = 1 .. Len(end) /\ DOMAIN log = 1 .. Len(log)
      /\ \A i \in 1 .. Len(end) : end[i] = log[n + i - 1] /\ n + i - 1 \in 1 .. Len(log)
  OBVIOUS
<1> HIDE DEF end
<1>2. ASSUME NEW i \in DOMAIN end
      PROVE  \E k \in DOMAIN log : k = n + i - 1 /\ end[i] = log[k]
  <2>1. i \in 1 .. Len(end)
    BY <1>1
  <2> QED BY <1>1, <2>1
<1>3. ASSUME NEW i \in DOMAIN end, NEW j \in DOMAIN end, end[i] = end[j]
      PROVE  i = j
  <2>1. PICK k \in DOMAIN log : k = n + i - 1 /\ end[i] = log[k]
    BY <1>2
  <2>2. PICK l \in DOMAIN log : l = n + j - 1 /\ end[j] = log[l]
    BY <1>2
  <2>3. k = l
    BY <1>3, <2>1, <2>2 DEF Home
  <2>4. i \in Nat /\ j \in Nat
    BY <1>1
  <2> QED BY <2>1, <2>2, <2>3, <2>4
<1>4. Home(end, s, over, home)
  BY <1>2, <1>3 DEF Home
<1> QED BY <1>4 DEF end

\* The turn that was under way is a new end.
LEMMA HomeLonger ==
    ASSUME NEW log \in Seq(Turn), NEW t \in Turn, NEW s,
           OverStays, Home(log, s, phase, asked),
           phase[t] # "over", phase'[t] = "over", asked'[t] = s
    PROVE  Home(Append(log, t), s, phase', asked')
<1> DEFINE new == Append(log, t)
<1>1. /\ Len(new) = Len(log) + 1 /\ DOMAIN new = 1 .. Len(new) /\ DOMAIN log = 1 .. Len(log)
      /\ Len(log) \in Nat /\ new[Len(log) + 1] = t
      /\ \A i \in 1 .. Len(log) : new[i] = log[i] /\ log[i] \in Turn
  OBVIOUS
<1> HIDE DEF new
<1>2. \A i \in 1 .. Len(log) : phase[new[i]] = "over" /\ phase'[new[i]] = "over" /\ asked'[new[i]] = s
  BY <1>1 DEF Home, OverStays
<1>3. \A i \in DOMAIN new : phase'[new[i]] = "over" /\ asked'[new[i]] = s
  BY <1>1, <1>2
<1>4. ASSUME NEW i \in DOMAIN new, NEW j \in DOMAIN new, new[i] = new[j]
      PROVE  i = j
  <2>1. CASE i = Len(log) + 1 \/ j = Len(log) + 1
    BY <1>1, <1>2, <1>4, <2>1
  <2>2. CASE i \in 1 .. Len(log) /\ j \in 1 .. Len(log)
    BY <1>1, <1>4, <2>2 DEF Home
  <2> QED BY <1>1, <2>1, <2>2
<1> QED BY <1>3, <1>4 DEF Home, new

\* Of the logs there are, each is at home where it was.
LEMMA LogsType ==
    ASSUME HInv, NEW s, NEW log \in LogsOf(s)
    PROVE  log \in Seq(Turn) /\ Home(log, s, phase, asked)
<1>1. FreshLog \in Seq(Turn) /\ Home(FreshLog, s, phase, asked)
  BY FreshHome DEF FreshLog
<1>2. OnFlash(files, s) \in Seq(Turn) /\ Home(OnFlash(files, s), s, phase, asked)
  BY <1>1 DEF HInv, LogsHome, IInv, MgrInv, MgrTypeOK, IsPartial, OnFlash
<1>3. s \in DOMAIN cache => cache[s] \in Seq(Turn) /\ Home(cache[s], s, phase, asked)
  BY DEF HInv, LogsHome, IInv, MgrInv, MgrTypeOK, IsPartial
<1> QED BY <1>1, <1>2, <1>3 DEF LogsOf

LEMMA StayHome ==
    ASSUME HInv, Stay, OverStays
    PROVE  LogsHome'
<1>1. \A s, log : log \in LogsOf(s) => Home(log, s, phase', asked')
  BY LogsType, HomeStays
<1> QED BY <1>1 DEF LogsHome, Stay

\* A step that leaves the turns in flight and the active session alone
LEMMA SameHeld ==
    ASSUME HInv, UNCHANGED turnVars, active' = active \/ Quiet
    PROVE  HeldHome'
BY DEF HInv, HeldHome, turnVars, InFlight, Quiet

LEMMA HomeInit == Init => HInv
<1> SUFFICES ASSUME Init PROVE HInv
  OBVIOUS
<1>1. cache = <<>> /\ files = <<>>
  BY DEF Init, MgrInit, EmptyFcn
<1>2. DOMAIN cache = {} /\ \A s : OnFlash(files, s) = FreshLog
  BY <1>1, Empty DEF OnFlash, EmptyPage
<1>3. LogsHome
  BY <1>2, FreshHome DEF LogsHome
<1>4. HeldHome
  BY DEF Init, HeldHome, InFlight
<1> QED BY <1>3, <1>4, InitOK DEF HInv

\* The log a turn takes
LEMMA ChatHome ==
    ASSUME HInv, NEW t \in Turn, Chat(t)
    PROVE  HInv'
<1>1. IInv'
  BY ChatOK DEF HInv
<1>2. phase \in [Turn -> {"new", "routing", "running", "returning", "over"}]
      /\ held \in [Turn -> Seq(Turn)] /\ asked \in [Turn -> Session \cup {NoSession}]
  BY DEF HInv, IInv, TurnInv, TurnTypeOK
<1>3. /\ phase[t] = "new" /\ phase' = [phase EXCEPT ![t] = "routing"]
      /\ held' = [held EXCEPT ![t] = Taken] /\ asked' = [asked EXCEPT ![t] = active]
      /\ TakeActive /\ UNCHANGED active
  BY DEF Chat, TakeActive
<1>4. OverStays
  BY <1>2, <1>3 DEF OverStays
<1>5. LogsHome'
  BY <1>3, <1>4, OthersStay, StayHome
<1>6. Taken \in Seq(Turn) /\ Home(Taken, active, phase', asked')
  <2>1. Taken \in LogsOf(active)
    BY DEF Taken, LogsOf
  <2> QED BY <1>4, <2>1, LogsType, HomeStays
<1>7. ASSUME NEW r \in Turn \ {t}, r \in InFlight'
      PROVE  /\ r \in InFlight /\ phase'[r] = phase[r] /\ held'[r] = held[r] /\ asked'[r] = asked[r]
  BY <1>2, <1>3, <1>7 DEF InFlight
<1>8. ASSUME NEW r \in InFlight'
      PROVE  /\ asked'[r] = active'
             /\ IF phase'[r] = "returning"
                THEN \E log \in Seq(Turn) :
                        held'[r] = Append(log, r) /\ Home(log, active', phase', asked')
                ELSE Home(held'[r], active', phase', asked')
  <2>1. CASE r = t
    BY <1>2, <1>3, <1>6, <2>1
  <2>2. CASE r # t
    <3>1. /\ r \in InFlight /\ phase'[r] = phase[r] /\ held'[r] = held[r] /\ asked'[r] = asked[r]
          /\ held[r] \in Seq(Turn)
      BY <1>2, <1>7, <1>8, <2>2 DEF InFlight
    <3> QED BY <1>3, <1>4, <3>1, HomeStays DEF HInv, HeldHome
  <2> QED BY <2>1, <2>2
<1>9. HeldHome'
  BY <1>8 DEF HeldHome
<1> QED BY <1>1, <1>5, <1>9 DEF HInv

LEMMA TurnHome ==
    ASSUME HInv, NEW t \in Turn, Disconnect(t) \/ Dispatch(t) \/ Finish(t)
    PROVE  HInv'
<1>1. IInv'
  BY DisconnectOK, DispatchOK, FinishOK DEF HInv
<1>2. phase \in [Turn -> {"new", "routing", "running", "returning", "over"}]
      /\ held \in [Turn -> Seq(Turn)] /\ asked \in [Turn -> Session \cup {NoSession}]
  BY DEF HInv, IInv, TurnInv, TurnTypeOK
<1>3. /\ t \in InFlight /\ phase[t] # "returning" /\ UNCHANGED <<mgrVars, asked>>
      /\ \/ /\ phase' = [phase EXCEPT ![t] = "over"] /\ held' = [held EXCEPT ![t] = FreshLog]
         \/ /\ phase' = [phase EXCEPT ![t] = "running"] /\ held' = held
         \/ /\ phase' = [phase EXCEPT ![t] = "returning"]
            /\ held' = [held EXCEPT ![t] = Append(@, t)]
  BY DEF Disconnect, Dispatch, Finish, InFlight
<1>4. OverStays
  BY <1>2, <1>3 DEF OverStays, InFlight
<1>5. LogsHome' /\ active' = active
  BY <1>3, <1>4, OthersStay, StayHome DEF mgrVars
<1>6. ASSUME NEW r \in Turn, r \in InFlight'
      PROVE  /\ asked'[r] = active'
             /\ IF phase'[r] = "returning"
                THEN \E log \in Seq(Turn) :
                        held'[r] = Append(log, r) /\ Home(log, active', phase', asked')
                ELSE Home(held'[r], active', phase', asked')
  <2>1. CASE r # t
    <3>1. /\ r \in InFlight /\ phase'[r] = phase[r] /\ held'[r] = held[r] /\ asked'[r] = asked[r]
      BY <1>2, <1>3, <1>6, <2>1 DEF InFlight
    <3> QED BY <1>2, <1>4, <1>5, <3>1, HomeStays DEF HInv, HeldHome
  <2>2. CASE r = t
    <3>1. asked[t] = active /\ Home(held[t], active, phase, asked) /\ held[t] \in Seq(Turn)
      BY <1>2, <1>3 DEF HInv, HeldHome
    <3>2. Home(held[t], active, phase', asked')
      BY <1>4, <3>1, HomeStays
    <3>3. CASE phase' = [phase EXCEPT ![t] = "over"]
      BY <1>2, <1>6, <2>2, <3>3 DEF InFlight
    <3>4. CASE phase' = [phase EXCEPT ![t] = "running"] /\ held' = held
      BY <1>2, <1>3, <1>5, <2>2, <3>1, <3>2, <3>4
    <3>5. CASE /\ phase' = [phase EXCEPT ![t] = "returning"]
               /\ held' = [held EXCEPT ![t] = Append(@, t)]
      BY <1>2, <1>3, <1>5, <2>2, <3>1, <3>2, <3>5
    <3> QED BY <1>3, <3>3, <3>4, <3>5
  <2> QED BY <2>1, <2>2
<1>7. HeldHome'
  <2>1. InFlight' \subseteq Turn
    BY DEF InFlight
  <2> QED BY <1>6, <2>1 DEF HeldHome
<1> QED BY <1>1, <1>5, <1>7 DEF HInv

\* A turn that returns is a new end of the session it was asked in.
LEMMA ReturnHome ==
    ASSUME HInv, NEW t \in Turn, Return(t)
    PROVE  HInv'
<1>1. IInv'
  BY ReturnOK DEF HInv
<1>2. phase \in [Turn -> {"new", "routing", "running", "returning", "over"}]
      /\ held \in [Turn -> Seq(Turn)] /\ asked \in [Turn -> Session \cup {NoSession}]
  BY DEF HInv, IInv, TurnInv, TurnTypeOK
<1>3. /\ phase[t] = "returning" /\ phase' = [phase EXCEPT ![t] = "over"]
      /\ held' = [held EXCEPT ![t] = FreshLog] /\ UNCHANGED asked /\ ReturnSession(held[t])
  BY DEF Return
<1>4. OverStays
  BY <1>2, <1>3 DEF OverStays
<1>5. active' = active
  BY <1>3 DEF ReturnSession, mgrVars
<1>6. LogsHome'
  <2>1. CASE active = NoSession
    BY <1>3, <1>4, <2>1, OthersStay, StayHome DEF ReturnSession
  <2>2. CASE active # NoSession
    <3>1. PICK log \in Seq(Turn) : held[t] = Append(log, t) /\ Home(log, active, phase, asked)
      BY <1>3 DEF HInv, HeldHome, InFlight
    <3>2. asked'[t] = active /\ phase'[t] = "over" /\ phase[t] # "over"
      BY <1>2, <1>3 DEF HInv, HeldHome, InFlight
    <3>3. Home(held[t], active, phase', asked')
      BY <1>4, <3>1, <3>2, HomeLonger
    <3>4. /\ \A r : \/ OnFlash(files', r) \in LogsOf(r)
                    \/ r = active /\ OnFlash(files', r) = held[t]
          /\ \A r \in DOMAIN cache' : \/ cache'[r] \in LogsOf(r)
                                      \/ r = active /\ cache'[r] = held[t]
      BY <1>3, <2>2, WrittenStays
    <3>5. \A s, l : l \in LogsOf(s) => Home(l, s, phase', asked')
      BY <1>4, LogsType, HomeStays
    <3> QED BY <3>3, <3>4, <3>5 DEF LogsHome
  <2> QED BY <2>1, <2>2
<1>7. ASSUME NEW r \in InFlight'
      PROVE  /\ r \in Turn \ {t} /\ r \in InFlight /\ phase'[r] = phase[r]
             /\ held'[r] = held[r] /\ asked'[r] = asked[r]
  BY <1>2, <1>3, <1>7 DEF InFlight
<1>8. HeldHome'
  BY <1>2, <1>4, <1>5, <1>7, HomeStays DEF HInv, HeldHome
<1> QED BY <1>1, <1>6, <1>8 DEF HInv

\* Between turns no log is held; titles are generated at any time.
LEMMA RequestHome ==
    ASSUME HInv, "switch" \notin Overlaps,
           \/ \E s \in Session :
                 CreateSession(s) \/ OpenSession(s) \/ RenameSession(s) \/ DeleteSession(s)
           \/ ClearCommand \/ CompactCommand
    PROVE  HInv'
<1>1. IInv'
  BY RequestOK DEF HInv
<1>2. UNCHANGED turnVars /\ (active' = active \/ Quiet)
  BY DEF CreateSession, OpenSession, RenameSession, DeleteSession, ClearCommand,
         CompactCommand, MayManage, Rename
<1>3. OverStays
  BY <1>2 DEF OverStays, turnVars
<1>4. HeldHome'
  BY <1>2, SameHeld
<1>5. ASSUME NEW s \in Session,
             CreateSession(s) \/ OpenSession(s) \/ RenameSession(s) \/ DeleteSession(s)
      PROVE  LogsHome'
  <2>1. Stay
    BY <1>5, CreateStays, SwitchStays, OthersStay
       DEF CreateSession, OpenSession, RenameSession, DeleteSession
  <2> QED BY <1>3, <2>1, StayHome
<1>6. ASSUME ClearCommand \/ CompactCommand
      PROVE  LogsHome'
  <2>1. PICK log \in Seq(Turn) : RewriteActive(log) /\ Home(log, active, phase', asked')
    <3>1. CASE ClearCommand
      <4>1. FreshLog \in Seq(Turn)
        BY DEF FreshLog
      <4>2. Home(FreshLog, active, phase', asked')
        BY FreshHome
      <4> QED BY <3>1, <4>1, <4>2 DEF ClearCommand
    <3>2. CASE CompactCommand
      <4>1. PICK n \in 1 .. Len(cache[active]) :
               RewriteActive(SubSeq(cache[active], n, Len(cache[active])))
        BY <3>2 DEF CompactCommand
      <4>2. cache[active] \in Seq(Turn) /\ Home(cache[active], active, phase, asked)
        <5>1. active \in DOMAIN cache
          BY <3>2 DEF CompactCommand
        <5> QED BY <5>1 DEF HInv, LogsHome, IInv, MgrInv, MgrTypeOK, IsPartial
      <4>3. SubSeq(cache[active], n, Len(cache[active])) \in Seq(Turn)
        BY <4>2, CompactLogs
      <4>4. Home(SubSeq(cache[active], n, Len(cache[active])), active, phase, asked)
        BY <4>2, HomeEnd
      <4> QED BY <1>3, <4>1, <4>3, <4>4, HomeStays
    <3> QED BY <1>6, <3>1, <3>2
  <2>2. active # NoSession
    BY <2>1, RewriteActiveOK DEF HInv, IInv
  <2>3. /\ \A r : \/ OnFlash(files', r) \in LogsOf(r)
                  \/ r = active /\ OnFlash(files', r) = log
        /\ \A r \in DOMAIN cache' : \/ cache'[r] \in LogsOf(r)
                                    \/ r = active /\ cache'[r] = log
    BY <2>1, <2>2, WrittenStays
  <2>4. \A s, l : l \in LogsOf(s) => Home(l, s, phase', asked')
    BY <1>3, LogsType, HomeStays
  <2> QED BY <2>1, <2>3, <2>4 DEF LogsHome
<1> QED BY <1>1, <1>4, <1>5, <1>6 DEF HInv

LEMMA CrashHome ==
    ASSUME HInv, Crash
    PROVE  HInv'
<1>1. IInv'
  BY CrashOK DEF HInv
<1>2. phase' = [t \in Turn |-> IF t \in InFlight THEN "over" ELSE phase[t]] /\ UNCHANGED asked
  BY DEF Crash
<1>3. OverStays
  BY <1>2 DEF OverStays
<1>4. PICK fs : (\A r \in DOMAIN fs : r \in DOMAIN files /\ fs[r] = files[r]) /\ Restart(fs)
  BY DEF Crash, Without
<1>5. LogsHome'
  BY <1>3, <1>4, RestartStays, StayHome
<1>6. InFlight' = {}
  BY <1>2 DEF InFlight
<1>7. HeldHome'
  BY <1>6 DEF HeldHome
<1> QED BY <1>1, <1>5, <1>7 DEF HInv

LEMMA NextHome ==
    ASSUME HInv, "switch" \notin Overlaps, [Next]_vars
    PROVE  HInv'
<1>1. CASE Cancel \/ UNCHANGED vars
  <2>1. IInv'
    BY <1>1, NextOK DEF Next, HInv
  <2>2. UNCHANGED <<mgrVars, phase, held, asked>>
    BY <1>1 DEF Cancel, vars, turnVars
  <2> QED BY <2>1, <2>2 DEF HInv, LogsHome, HeldHome, InFlight, mgrVars
<1> QED BY <1>1, ChatHome, TurnHome, ReturnHome, RequestHome, CrashHome DEF Next, TurnStep

\* handle_chat, return_session and the manager's methods: clients may start
\* turns over turns, close connections and chat before a session is open,
\* writes may fail and stamps be equal: as long as no session is changed
\* during a turn, a file holds only turns that were asked in its session, none
\* twice.
THEOREM StaysHome ==
    ASSUME "switch" \notin Overlaps
    PROVE  Spec => []TurnsStayHome
<1>1. HInv => TurnsStayHome
  <2> SUFFICES ASSUME HInv, NEW s \in DOMAIN files
               PROVE  /\ \A i \in DOMAIN files[s] : asked[files[s][i]] = s
                      /\ Cardinality({files[s][i] : i \in DOMAIN files[s]}) = Len(files[s])
    BY DEF TurnsStayHome
  <2> DEFINE log == files[s]
             S == {log[i] : i \in DOMAIN log}
             f == [i \in 1 .. Len(log) |-> log[i]]
  <2>1. log \in Seq(Turn) /\ Home(log, s, phase, asked)
    BY DEF HInv, LogsHome, OnFlash, IInv, MgrInv, MgrTypeOK, IsPartial
  <2> HIDE DEF log
  <2>2. DOMAIN log = 1 .. Len(log) /\ Len(log) \in Nat
    BY <2>1
  <2>3. f \in Bijection(1 .. Len(log), S)
    <3>1. f \in [1 .. Len(log) -> S]
      BY <2>2
    <3>2. \A i, j \in 1 .. Len(log) : f[i] = f[j] => i = j
      BY <2>1, <2>2 DEF Home
    <3>3. \A x \in S : \E i \in 1 .. Len(log) : f[i] = x
      BY <2>2
    <3> HIDE DEF f, S
    <3> QED BY <3>1, <3>2, <3>3 DEF Bijection, Injection, IsInjective, Surjection
  <2>4. IsFiniteSet(1 .. Len(log)) /\ Cardinality(1 .. Len(log)) = Len(log)
    <3>1. 1 \in Int /\ Len(log) \in Int
      BY <2>2
    <3>2. /\ IsFiniteSet(1 .. Len(log))
          /\ Cardinality(1 .. Len(log)) = IF 1 > Len(log) THEN 0 ELSE Len(log) - 1 + 1
      BY <3>1, FS_Interval
    <3> QED BY <2>2, <3>2
  <2>5. Cardinality(S) = Len(log)
    <3> HIDE DEF S, f
    <3> QED BY <2>3, <2>4, FS_Bijection DEF ExistsBijection
  <2>6. \A i \in DOMAIN log : asked[log[i]] = s
    BY <2>1 DEF Home
  <2> QED BY <2>5, <2>6 DEF log
<1>2. Init => HInv
  BY HomeInit
<1>3. HInv /\ [Next]_vars => HInv'
  BY NextHome
<1> QED BY <1>1, <1>2, <1>3, PTL DEF Spec

-----------------------------------------------------------------------------
(* The page of the active session                                          *)

\* With time that moves and two pages, the new session is no victim.
LEMMA CreateInRam ==
    ASSUME MgrInv, ~SameMillis, CacheCapacity >= 2, NEW s \in Session, Create(s)
    PROVE  active' = s /\ s \in DOMAIN cache'
<1> DEFINE logs == Over(Just(s, FreshLog), cache)
<1>1. PICK u \in Stamped(sessions, s) : EvictCache(logs, active, u, files)
  BY DEF Create
<1>2. active' = s /\ s \notin DOMAIN sessions /\ active # s
  BY SessionAssumption DEF Create, Unused, MgrInv, Known
<1>3. Stamps(u) /\ DOMAIN u = DOMAIN sessions \cup {s} /\ \A r \in DOMAIN sessions : u[r] < u[s]
  BY <1>1, <1>2, StampedOK DEF MgrInv
<1>4. DOMAIN logs = {s} \cup DOMAIN cache /\ DOMAIN cache \subseteq DOMAIN sessions
  BY DEF Over, Just, MgrInv, Known
<1> HIDE DEF logs
<1>5. PICK V \in Victims(logs, active, u) : cache' = Without(logs, V)
  BY <1>1 DEF EvictCache
<1>6. /\ V \subseteq DOMAIN logs \ {active}
      /\ \A v \in V, w \in (DOMAIN logs \ {active}) \ V : u[v] <= u[w]
      /\ V # {} => Cardinality(DOMAIN logs \ V) >= CacheCapacity
  BY <1>5 DEF Victims
<1>7. s \notin V
  <2> SUFFICES ASSUME s \in V PROVE FALSE
    OBVIOUS
  <2>1. ASSUME NEW w \in (DOMAIN logs \ {active}) \ V PROVE FALSE
    <3>1. u[s] <= u[w] /\ w \in DOMAIN sessions
      BY <1>4, <1>6, <2>1
    <3>2. u[w] < u[s] /\ u[w] \in Nat /\ u[s] \in Nat
      BY <1>3, <3>1 DEF Stamps
    <3> QED BY <3>1, <3>2
  <2>2. DOMAIN logs \ V \in SUBSET {active}
    BY <1>6, <2>1
  <2>3. IsFiniteSet({active}) /\ Cardinality({active}) = 1
    BY FS_Singleton
  <2>4. IsFiniteSet(DOMAIN logs \ V) /\ Cardinality(DOMAIN logs \ V) <= 1
    BY <2>2, <2>3, FS_Subset
  <2>5. Cardinality(DOMAIN logs \ V) \in Nat
    BY <2>4, FS_CardinalityType
  <2> QED BY <1>6, <2>4, <2>5, CapacityAssumption
<1> QED BY <1>2, <1>4, <1>5, <1>7 DEF Without

\* switch, create and return_session: "active stays in RAM", if no client
\* leaves while the router is awaited, there are two pages and no two stamps
\* are equal.
THEOREM ActiveStays ==
    ASSUME ~SameMillis, CacheCapacity >= 2, "stop" \notin Overlaps
    PROVE  Spec => []ActiveInRam
<1>1. Init => IInv /\ ActiveInRam
  BY InitOK DEF Init, ActiveInRam
<1>2. IInv /\ ActiveInRam /\ [Next]_vars => IInv' /\ ActiveInRam'
  <2> SUFFICES ASSUME IInv, ActiveInRam, [Next]_vars PROVE ActiveInRam'
    BY NextOK
  <2>1. phase \in [Turn -> {"new", "routing", "running", "returning", "over"}]
    BY DEF IInv, TurnInv, TurnTypeOK
  <2>2. ASSUME NEW t \in Turn, Chat(t) \/ Dispatch(t) \/ Finish(t) PROVE ~Quiet'
    <3>1. phase'[t] \in {"routing", "running", "returning"}
      BY <2>1, <2>2 DEF Chat, Dispatch, Finish
    <3> QED BY <3>1 DEF Quiet, InFlight
  <2>3. ASSUME NEW t \in Turn, Return(t) PROVE ActiveInRam'
    <3>1. ReturnSession(held[t])
      BY <2>3 DEF Return
    <3>2. CASE active = NoSession
      BY <3>1, <3>2 DEF ReturnSession, mgrVars, ActiveInRam
    <3>3. CASE active # NoSession
      BY <3>1, <3>3 DEF ReturnSession, Over, Just, ActiveInRam
    <3> QED BY <3>2, <3>3
  <2>4. ASSUME NEW t \in Turn, Disconnect(t) PROVE FALSE
    BY <2>4 DEF Disconnect
  <2>5. ASSUME NEW s \in Session, CreateSession(s) PROVE ActiveInRam'
    BY <2>5, CreateInRam DEF CreateSession, ActiveInRam, IInv
  <2>6. ASSUME NEW s \in Session, OpenSession(s) PROVE ActiveInRam'
    <3>1. Switch(s) /\ active' = s
      BY <2>6 DEF OpenSession, Switch
    <3>2. s \in DOMAIN cache'
      BY <3>1, SwitchOK DEF IInv
    <3> QED BY <3>1, <3>2 DEF ActiveInRam
  <2>7. ASSUME NEW s \in Session, RenameSession(s) \/ DeleteSession(s) PROVE ActiveInRam'
    <3>1. UNCHANGED <<phase, opened>>
      BY <2>7 DEF RenameSession, DeleteSession, turnVars
    <3>2. \/ UNCHANGED <<active, cache>>
          \/ /\ active' = IF active = s THEN NoSession ELSE active
             /\ cache' = Without(cache, {s})
      BY <2>7 DEF RenameSession, DeleteSession, Rename, Delete
    <3> QED BY <3>1, <3>2 DEF ActiveInRam, Quiet, InFlight, Without
  <2>8. ASSUME ClearCommand \/ CompactCommand PROVE ActiveInRam'
    <3>1. active' = active /\ active \in DOMAIN cache'
      BY <2>8 DEF ClearCommand, CompactCommand, RewriteActive
    <3> QED BY <3>1 DEF ActiveInRam
  <2>9. ASSUME Crash PROVE ActiveInRam'
    BY <2>9 DEF Crash, ActiveInRam
  <2>10. ASSUME Cancel \/ UNCHANGED vars PROVE ActiveInRam'
    BY <2>10 DEF Cancel, vars, turnVars, mgrVars, ActiveInRam, Quiet, InFlight
  <2>11. ~Quiet' => ActiveInRam'
    BY DEF ActiveInRam
  <2> QED BY <2>2, <2>3, <2>4, <2>5, <2>6, <2>7, <2>8, <2>9, <2>10, <2>11 DEF Next, TurnStep
<1> QED BY <1>1, <1>2, PTL DEF Spec

-----------------------------------------------------------------------------
(* The refinement of Conversations: with clients that wait and writes that *)
(* succeed, the server implements it.                                      *)

\* The conversations of the refinement mapping
Talk == [s \in DOMAIN sessions |-> OnFlash(files, s)]

\* A turn in flight holds what the active session's file records, and at its
\* end this turn more.
Holds ==
    \A t \in InFlight :
       active # NoSession =>
          held[t] = IF phase[t] = "returning" THEN Append(OnFlash(files, active), t)
                    ELSE OnFlash(files, active)

\* Only turns that are over are recorded.
Said ==
    \A s \in DOMAIN sessions : \A i \in DOMAIN OnFlash(files, s) :
       phase[OnFlash(files, s)[i]] = "over"

\* What the next turn takes is the active session's log, or as good.
InRam ==
    Quiet /\ opened /\ active # NoSession =>
       active \in DOMAIN cache \/ OnFlash(files, active) = FreshLog

CInv == IInv /\ Holds /\ Said /\ InRam

Step == [Promise!Next]_<<Talk, active>>

LEMMA LogType ==
    ASSUME IInv, NEW s
    PROVE  OnFlash(files, s) \in Seq(Turn)
BY DEF IInv, MgrInv, MgrTypeOK, IsPartial, OnFlash, FreshLog

\* Logs that stay or are empty record no turn that is not over.
LEMMA SaidKeeps ==
    ASSUME CInv,
           \A t \in Turn : phase[t] = "over" => phase'[t] = "over",
           \A s \in DOMAIN sessions' :
              \/ OnFlash(files', s) = <<>>
              \/ s \in DOMAIN sessions /\ OnFlash(files', s) = OnFlash(files, s)
    PROVE  Said'
<1>1. ASSUME NEW s \in DOMAIN sessions', NEW i \in DOMAIN OnFlash(files', s)
      PROVE  phase'[OnFlash(files', s)[i]] = "over"
  <2>1. s \in DOMAIN sessions /\ OnFlash(files', s) = OnFlash(files, s)
    BY <1>1
  <2>2. phase[OnFlash(files, s)[i]] = "over"
    BY <1>1, <2>1 DEF CInv, Said
  <2>3. OnFlash(files, s)[i] \in Turn
    <3>1. OnFlash(files, s) \in Seq(Turn)
      BY LogType DEF CInv
    <3> QED BY <1>1, <2>1, <3>1
  <2> QED BY <2>1, <2>2, <2>3
<1> QED BY <1>1 DEF Said

LEMMA InitMaps == Init => CInv /\ Promise!Init
<1> SUFFICES ASSUME Init PROVE CInv /\ Promise!Init
  OBVIOUS
<1>1. PICK s \in Session : active = s /\ sessions = Just(s, 0) /\ files = <<>>
  BY DEF Init, MgrInit, EmptyFcn
<1>2. \A r : OnFlash(files, r) = <<>>
  BY <1>1, Empty DEF OnFlash, FreshLog, EmptyPage
<1>3. Talk = [r \in {s} |-> <<>>]
  BY <1>1, <1>2 DEF Talk, Just
<1>4. Promise!Init
  BY <1>1, <1>3 DEF Promise!Init, Talk
<1>5. \A t \in Turn : phase[t] = "new"
  BY DEF Init
<1>6. Holds /\ InRam
  BY <1>2, <1>5 DEF Holds, InRam, InFlight, FreshLog
<1>7. Said
  BY <1>2 DEF Said
<1> QED BY <1>4, <1>6, <1>7, InitOK DEF CInv

-----------------------------------------------------------------------------
(* Steps of turns                                                          *)

\* A step that changes no session, no file and no active session
LEMMA Stutters ==
    ASSUME CInv, IInv', UNCHANGED <<active, files>>, DOMAIN sessions' = DOMAIN sessions,
           \A t \in Turn : phase[t] = "over" => phase'[t] = "over"
    PROVE  Said' /\ Step
<1>1. Said'
  BY SaidKeeps
<1>2. Talk' = Talk
  BY DEF Talk
<1> QED BY <1>1, <1>2 DEF Step

LEMMA ChatMaps ==
    ASSUME CInv, ~DiskFaults, Overlaps = {}, NEW t \in Turn, Chat(t)
    PROVE  CInv' /\ Step
<1>1. IInv'
  BY ChatOK DEF CInv
<1>2. /\ phase[t] = "new" /\ phase' = [phase EXCEPT ![t] = "routing"] /\ Quiet
      /\ opened \/ active \notin DOMAIN files
      /\ held' = [held EXCEPT ![t] = Taken] /\ UNCHANGED opened
  BY DEF Chat
<1>3. /\ UNCHANGED <<sessions, active, files>>
      /\ active \in DOMAIN cache => Taken = OnFlash(files, active)
  BY TakeActiveOK DEF Chat, CInv, IInv
<1>4. active # NoSession => Taken = OnFlash(files, active)
  <2>1. active \notin DOMAIN files => OnFlash(files, active) = FreshLog
    BY DEF OnFlash
  <2>2. active \notin DOMAIN cache => Taken = FreshLog
    BY DEF Taken
  <2> QED BY <1>2, <1>3, <2>1, <2>2 DEF CInv, InRam
<1>5. phase \in [Turn -> {"new", "routing", "running", "returning", "over"}] /\ held \in [Turn -> Seq(Turn)]
  BY DEF CInv, IInv, TurnInv, TurnTypeOK
<1>6. Holds' /\ InRam'
  BY <1>2, <1>3, <1>4, <1>5 DEF CInv, Holds, InRam, InFlight, Quiet
<1>7. Said' /\ Step
  BY <1>1, <1>2, <1>3, <1>5, Stutters
<1> QED BY <1>1, <1>6, <1>7 DEF CInv

LEMMA TurnMaps ==
    ASSUME CInv, NEW t \in Turn, Dispatch(t) \/ Finish(t)
    PROVE  CInv' /\ Step
<1>1. IInv'
  BY DispatchOK, FinishOK DEF CInv
<1>2. phase \in [Turn -> {"new", "routing", "running", "returning", "over"}] /\ held \in [Turn -> Seq(Turn)]
  BY DEF CInv, IInv, TurnInv, TurnTypeOK
<1>3. UNCHANGED <<mgrVars, opened>>
  BY DEF Dispatch, Finish
<1>4. \/ /\ phase[t] = "routing" /\ phase' = [phase EXCEPT ![t] = "running"]
         /\ held' = held
      \/ /\ phase[t] = "running" /\ phase' = [phase EXCEPT ![t] = "returning"]
         /\ held' = [held EXCEPT ![t] = Append(@, t)]
  BY DEF Dispatch, Finish
<1>5. Holds' /\ InRam'
  BY <1>2, <1>3, <1>4 DEF CInv, Holds, InRam, InFlight, Quiet, mgrVars
<1>6. Said' /\ Step
  BY <1>1, <1>2, <1>3, <1>4, Stutters DEF mgrVars
<1> QED BY <1>1, <1>5, <1>6 DEF CInv

\* The active session's conversation gets a new end; the others stay.
LEMMA Written ==
    ASSUME CInv, active # NoSession, DOMAIN sessions' = DOMAIN sessions, UNCHANGED active,
           NEW log, \A r : OnFlash(files', r) = IF r = active THEN log ELSE OnFlash(files, r)
    PROVE  /\ active \in DOMAIN Talk /\ Talk[active] = OnFlash(files, active)
           /\ Talk' = [Talk EXCEPT ![active] = log]
BY DEF CInv, IInv, MgrInv, Known, Talk

\* A turn that returns to a session speaks; to none, nobody hears it.
LEMMA ReturnMaps ==
    ASSUME CInv, ~DiskFaults, Overlaps = {}, NEW t \in Turn, Return(t)
    PROVE  CInv' /\ Step
<1>1. IInv'
  BY ReturnOK DEF CInv
<1>2. phase \in [Turn -> {"new", "routing", "running", "returning", "over"}] /\ held \in [Turn -> Seq(Turn)]
  BY DEF CInv, IInv, TurnInv, TurnTypeOK
<1>3. /\ phase[t] = "returning" /\ phase' = [phase EXCEPT ![t] = "over"]
      /\ ReturnSession(held[t]) /\ UNCHANGED opened
  BY DEF Return
<1>4. InFlight' = {}
  <2>1. \A r \in InFlight : r = t
    BY <1>3 DEF CInv, IInv, TurnInv, OneTurn, InFlight
  <2> QED BY <1>2, <1>3, <2>1 DEF InFlight
<1>5. Holds'
  BY <1>4 DEF Holds
<1>6. \A r \in Turn : phase[r] = "over" => phase'[r] = "over"
  BY <1>2, <1>3
<1>7. CASE active = NoSession
  <2>1. UNCHANGED mgrVars
    BY <1>3, <1>7 DEF ReturnSession
  <2>2. Said' /\ Step
    BY <1>1, <1>6, <2>1, Stutters DEF mgrVars
  <2>3. InRam'
    BY <1>7, <2>1 DEF InRam, mgrVars
  <2> QED BY <1>1, <1>5, <2>2, <2>3 DEF CInv
<1>8. CASE active # NoSession
  <2> DEFINE old == OnFlash(files, active)
             log == Append(old, t)
  <2>1. held[t] = log /\ held[t] \in Seq(Turn)
    BY <1>2, <1>3, <1>8 DEF CInv, Holds, InFlight
  <2>2. /\ active \in DOMAIN cache' /\ UNCHANGED active /\ DOMAIN sessions' = DOMAIN sessions
        /\ \A r : OnFlash(files', r) = IF r = active THEN log ELSE OnFlash(files, r)
    BY <1>3, <1>8, <2>1, ReturnSessionOK DEF CInv, IInv
  <2>3. InRam'
    BY <2>2 DEF InRam
  <2>4. /\ active \in DOMAIN Talk /\ Talk[active] = old
        /\ Talk' = [Talk EXCEPT ![active] = log]
    <3> HIDE DEF log
    <3> QED BY <1>8, <2>2, Written
  <2>5. \A s \in DOMAIN Talk : \A i \in DOMAIN Talk[s] : Talk[s][i] # t
    BY <1>3 DEF CInv, Said, Talk
  <2>6. Talk' = [Talk EXCEPT ![active] = Append(@, t)]
    BY <2>4
  <2>7. Promise!Speak(t)
    BY <1>8, <2>2, <2>5, <2>6 DEF Promise!Speak, Talk
  <2>8. Step
    BY <2>7 DEF Step, Promise!Next
  <2>9. Said'
    <3>1. ASSUME NEW s \in DOMAIN sessions', NEW i \in DOMAIN OnFlash(files', s)
          PROVE  phase'[OnFlash(files', s)[i]] = "over"
      <4>1. old \in Seq(Turn) /\ OnFlash(files, s) \in Seq(Turn)
        BY LogType DEF CInv
      <4>2. CASE s # active
        <5>1. OnFlash(files', s) = OnFlash(files, s) /\ s \in DOMAIN sessions
          BY <2>2, <4>2
        <5>2. OnFlash(files, s)[i] \in Turn
          BY <3>1, <4>1, <5>1
        <5>3. phase[OnFlash(files, s)[i]] = "over"
          BY <3>1, <5>1 DEF CInv, Said
        <5> QED BY <1>6, <5>1, <5>2, <5>3
      <4>3. CASE s = active
        <5>1. OnFlash(files', s) = log /\ s \in DOMAIN sessions
          BY <2>2, <4>3
        <5>2. \A j \in 1 .. Len(old) : old[j] \in Turn /\ phase[old[j]] = "over"
          BY <4>1, <4>3, <5>1 DEF CInv, Said
        <5>3. i \in 1 .. Len(old) + 1 /\ log[i] = IF i = Len(old) + 1 THEN t ELSE old[i]
          <6> HIDE DEF old
          <6> QED BY <3>1, <4>1, <5>1
        <5>4. CASE i = Len(old) + 1
          BY <1>2, <1>3, <5>1, <5>3, <5>4
        <5>5. CASE i # Len(old) + 1
          <6>1. i \in 1 .. Len(old) /\ log[i] = old[i]
            BY <4>1, <5>3, <5>5
          <6> QED BY <1>6, <5>1, <5>2, <6>1
        <5> QED BY <5>4, <5>5
      <4> QED BY <4>2, <4>3
    <3> QED BY <3>1 DEF Said
  <2> QED BY <1>1, <1>5, <2>3, <2>8, <2>9 DEF CInv
<1> QED BY <1>7, <1>8

-----------------------------------------------------------------------------
(* Other requests                                                          *)

LEMMA CreateMaps ==
    ASSUME CInv, ~DiskFaults, Overlaps = {}, NEW s \in Session, CreateSession(s)
    PROVE  CInv' /\ Step
<1>1. IInv'
  BY RequestOK DEF CInv
<1>2. Quiet /\ Create(s) /\ active' = s /\ UNCHANGED turnVars
  BY DEF CreateSession, MayManage, Create
<1>3. /\ s \notin DOMAIN sessions /\ OnFlash(files, s) = FreshLog
      /\ DOMAIN sessions' = DOMAIN sessions \cup {s}
      /\ \A r : OnFlash(files', r) = OnFlash(files, r)
  BY <1>2, CreateOK DEF CInv, IInv
<1>4. Said'
  BY <1>2, <1>3, SaidKeeps DEF turnVars, FreshLog
<1>5. Holds' /\ InRam'
  BY <1>2, <1>3 DEF Holds, InRam, Quiet, InFlight, turnVars
<1>6. Talk' = [r \in {s} \cup DOMAIN Talk |-> IF r = s THEN <<>> ELSE Talk[r]]
  BY <1>3 DEF Talk, FreshLog
<1>7. Promise!Open(s)
  BY <1>2, <1>3, <1>6 DEF Promise!Open, Talk
<1>8. Step
  BY <1>7 DEF Step, Promise!Next
<1> QED BY <1>1, <1>4, <1>5, <1>8 DEF CInv

LEMMA OpenMaps ==
    ASSUME CInv, ~DiskFaults, Overlaps = {}, NEW s \in Session, OpenSession(s)
    PROVE  CInv' /\ Step
<1>1. IInv'
  BY RequestOK DEF CInv
<1>2. Quiet /\ Switch(s) /\ active' = s /\ s \in DOMAIN sessions /\ UNCHANGED turnVars
  BY DEF OpenSession, MayManage, Switch
<1>3. /\ s \in DOMAIN cache' /\ DOMAIN sessions' = DOMAIN sessions
      /\ \A r : OnFlash(files', r) = OnFlash(files, r)
  BY <1>2, SwitchOK DEF CInv, IInv
<1>4. Said'
  BY <1>2, <1>3, SaidKeeps DEF turnVars
<1>5. Holds' /\ InRam'
  BY <1>2, <1>3 DEF Holds, InRam, Quiet, InFlight, turnVars
<1>6. Talk' = Talk
  BY <1>3 DEF Talk
<1>7. Promise!View(s)
  BY <1>2, <1>6 DEF Promise!View, Talk
<1>8. Step
  BY <1>7 DEF Step, Promise!Next
<1> QED BY <1>1, <1>4, <1>5, <1>8 DEF CInv

LEMMA RenameMaps ==
    ASSUME CInv, ~DiskFaults, NEW s \in Session, RenameSession(s)
    PROVE  CInv' /\ Step
<1>1. IInv'
  BY RequestOK DEF CInv
<1>2. Rename(s) /\ UNCHANGED <<turnVars, opened>>
  BY DEF RenameSession
<1>3. DOMAIN sessions' = DOMAIN sessions /\ UNCHANGED <<cache, active, files>>
  BY <1>2, RenameOK DEF CInv, IInv
<1>4. Said' /\ Step
  BY <1>1, <1>2, <1>3, Stutters DEF turnVars
<1>5. Holds' /\ InRam'
  BY <1>2, <1>3 DEF CInv, Holds, InRam, Quiet, InFlight, turnVars
<1> QED BY <1>1, <1>4, <1>5 DEF CInv

LEMMA DeleteMaps ==
    ASSUME CInv, ~DiskFaults, Overlaps = {}, NEW s \in Session, DeleteSession(s)
    PROVE  CInv' /\ Step
<1>1. IInv'
  BY RequestOK DEF CInv
<1>2. Quiet /\ Delete(s) /\ UNCHANGED <<turnVars, opened>>
  BY DEF DeleteSession, MayManage
<1>3. /\ s \in DOMAIN sessions /\ DOMAIN sessions' = DOMAIN sessions \ {s}
      /\ active' = IF active = s THEN NoSession ELSE active
      /\ cache' = Without(cache, {s})
      /\ \A r : r # s => OnFlash(files', r) = OnFlash(files, r)
  BY <1>2, DeleteOK DEF CInv, IInv
<1>4. Said'
  BY <1>2, <1>3, SaidKeeps DEF turnVars
<1>5. Holds'
  BY <1>2 DEF Holds, Quiet, InFlight, turnVars
<1>6. InRam'
  BY <1>2, <1>3 DEF CInv, InRam, Quiet, InFlight, turnVars, Without
<1>7. Talk' = [r \in DOMAIN Talk \ {s} |-> Talk[r]]
  BY <1>3 DEF Talk
<1>8. Promise!Forget(s)
  BY <1>3, <1>7 DEF Promise!Forget, Talk
<1>9. Step
  BY <1>8 DEF Step, Promise!Next
<1> QED BY <1>1, <1>4, <1>5, <1>6, <1>9 DEF CInv

LEMMA Ends ==
    ASSUME NEW log \in Seq(Turn), NEW n \in 1 .. Len(log) + 1
    PROVE  /\ SubSeq(log, n, Len(log)) \in Seq(Turn)
           /\ n = Len(log) + 1 => SubSeq(log, n, Len(log)) = <<>>
           /\ \A i \in DOMAIN SubSeq(log, n, Len(log)) :
                 \E j \in DOMAIN log : SubSeq(log, n, Len(log))[i] = log[j]
<1> DEFINE end == SubSeq(log, n, Len(log))
<1>1. /\ end \in Seq(Turn) /\ Len(end) = Len(log) + 1 - n
      /\ \A i \in 1 .. Len(end) : end[i] = log[n + i - 1]
  OBVIOUS
<1>2. n = Len(log) + 1 => end = <<>>
  BY <1>1
<1>3. ASSUME NEW i \in DOMAIN end PROVE \E j \in DOMAIN log : end[i] = log[j]
  <2>1. i \in 1 .. Len(end) /\ n + i - 1 \in DOMAIN log
    BY <1>1
  <2> QED BY <1>1, <2>1
<1> QED BY <1>1, <1>2, <1>3

\* /clear and /compact keep an end of the conversation, maybe an empty one.
LEMMA RewriteMaps ==
    ASSUME CInv, ~DiskFaults, Overlaps = {}, ClearCommand \/ CompactCommand
    PROVE  CInv' /\ Step
<1> DEFINE old == OnFlash(files, active)
<1>1. IInv'
  BY RequestOK DEF CInv
<1>2. Quiet /\ UNCHANGED <<turnVars, opened>>
  BY DEF ClearCommand, CompactCommand, MayManage
<1>3. active \in DOMAIN cache /\ cache[active] = old /\ old \in Seq(Turn)
  <2>1. active \in DOMAIN cache
    BY DEF ClearCommand, CompactCommand, RewriteActive
  <2> QED BY <2>1, LogType DEF CInv, IInv, MgrInv, OnDisk, NothingUnsaved
<1> HIDE DEF old
<1>4. PICK n \in 1 .. Len(old) + 1 : RewriteActive(SubSeq(old, n, Len(old)))
  <2>1. CASE ClearCommand
    <3>1. SubSeq(old, Len(old) + 1, Len(old)) = FreshLog /\ Len(old) + 1 \in 1 .. Len(old) + 1
      BY <1>3, Ends DEF FreshLog
    <3> QED BY <2>1, <3>1 DEF ClearCommand
  <2>2. CASE CompactCommand
    BY <1>3, <2>2 DEF CompactCommand
  <2> QED BY <2>1, <2>2
<1> DEFINE log == SubSeq(old, n, Len(old))
<1>5. /\ log \in Seq(Turn)
      /\ \A i \in DOMAIN log : \E j \in DOMAIN old : log[i] = old[j]
  BY <1>3, Ends
<1>6. RewriteActive(log)
  BY <1>4
<1> HIDE DEF log
<1>7. /\ active \in DOMAIN cache' /\ UNCHANGED <<sessions, active>> /\ active # NoSession
      /\ \A r : OnFlash(files', r) = IF r = active THEN log ELSE OnFlash(files, r)
  BY <1>5, <1>6, RewriteActiveOK DEF CInv, IInv
<1>8. Holds' /\ InRam'
  BY <1>2, <1>7 DEF Holds, InRam, Quiet, InFlight, turnVars
<1>9. Said'
  <2>1. ASSUME NEW s \in DOMAIN sessions, NEW i \in DOMAIN OnFlash(files', s)
        PROVE  phase[OnFlash(files', s)[i]] = "over"
    <3>1. CASE s # active
      BY <1>7, <2>1, <3>1 DEF CInv, Said
    <3>2. CASE s = active
      <4>1. PICK j \in DOMAIN old : log[i] = old[j]
        BY <1>5, <1>7, <2>1, <3>2
      <4> QED BY <1>7, <3>2, <4>1 DEF CInv, Said, old
    <3> QED BY <3>1, <3>2
  <2> QED BY <1>2, <1>7, <2>1 DEF Said, turnVars
<1>10. /\ active \in DOMAIN Talk /\ Talk[active] = old
       /\ Talk' = [Talk EXCEPT ![active] = log]
  BY <1>7, Written DEF old
<1>11. Talk' = [Talk EXCEPT ![active] = SubSeq(@, n, Len(@))]
  BY <1>10 DEF log
<1>12. n \in 1 .. Len(Talk[active]) + 1
  BY <1>10
<1>13. Promise!Shorten
  BY <1>7, <1>11, <1>12 DEF Promise!Shorten, Talk
<1>14. Step
  BY <1>13 DEF Step, Promise!Next
<1> QED BY <1>1, <1>8, <1>9, <1>14 DEF CInv

\* A start shows the latest session, or opens the first one.
LEMMA CrashMaps ==
    ASSUME CInv, ~DiskFaults, Crash
    PROVE  CInv' /\ Step
<1>1. IInv'
  BY CrashOK DEF CInv
<1>2. /\ Restart(files) /\ opened' = FALSE
      /\ phase' = [t \in Turn |-> IF t \in InFlight THEN "over" ELSE phase[t]]
  BY DEF Crash
<1>3. IsPartial(files, Seq(Turn))
  BY DEF CInv, IInv, MgrInv, MgrTypeOK
<1>4. /\ active' \in DOMAIN sessions'
      /\ \A r \in DOMAIN sessions' : OnFlash(files', r) = OnFlash(files, r)
      /\ \/ DOMAIN sessions' = DOMAIN sessions
         \/ DOMAIN sessions = {} /\ DOMAIN sessions' = {active'}
  BY <1>2, <1>3, RestartOK DEF CInv, IInv
<1>5. DOMAIN sessions = {} => \A r : OnFlash(files, r) = <<>>
  BY DEF CInv, IInv, MgrInv, OnDisk, OnFlash, FreshLog
<1>6. active' \in Session
  BY <1>1, <1>4 DEF IInv, MgrInv, Stamps
<1>7. Said'
  BY <1>2, <1>4, <1>5, SaidKeeps DEF InFlight
<1>8. Holds' /\ InRam'
  BY <1>2 DEF Holds, InRam, InFlight
<1>9. CASE DOMAIN sessions' = DOMAIN sessions
  <2>1. Talk' = Talk
    BY <1>4, <1>9 DEF Talk
  <2>2. Promise!View(active')
    BY <1>4, <1>9, <2>1 DEF Promise!View, Talk
  <2> QED BY <1>1, <1>6, <1>7, <1>8, <2>2 DEF CInv, Step, Promise!Next
<1>10. CASE DOMAIN sessions = {} /\ DOMAIN sessions' = {active'}
  <2>1. Talk' = [r \in {active'} \cup DOMAIN Talk |-> IF r = active' THEN <<>> ELSE Talk[r]]
    BY <1>4, <1>5, <1>10 DEF Talk
  <2>2. Promise!Open(active')
    BY <1>10, <2>1 DEF Promise!Open, Talk
  <2> QED BY <1>1, <1>6, <1>7, <1>8, <2>2 DEF CInv, Step, Promise!Next
<1> QED BY <1>4, <1>9, <1>10

-----------------------------------------------------------------------------
LEMMA NextMaps ==
    ASSUME CInv, ~DiskFaults, Overlaps = {}, [Next]_vars
    PROVE  CInv' /\ Step
<1>1. ASSUME NEW t \in Turn, Dispatch(t) \/ Finish(t) \/ Return(t) \/ Chat(t) \/ Disconnect(t)
      PROVE  CInv' /\ Step
  <2>1. ~Disconnect(t)
    BY DEF Disconnect
  <2> QED BY <1>1, <2>1, TurnMaps, ReturnMaps, ChatMaps
<1>2. ASSUME NEW s \in Session,
             CreateSession(s) \/ OpenSession(s) \/ RenameSession(s) \/ DeleteSession(s)
      PROVE  CInv' /\ Step
  BY <1>2, CreateMaps, OpenMaps, RenameMaps, DeleteMaps
<1>3. CASE Cancel \/ UNCHANGED vars
  <2>1. IInv'
    BY NextOK DEF CInv
  <2>2. UNCHANGED <<mgrVars, phase, held, opened>>
    BY <1>3 DEF Cancel, vars, turnVars
  <2>3. Holds' /\ InRam'
    BY <2>2 DEF CInv, Holds, InRam, Quiet, InFlight, mgrVars
  <2>4. Said' /\ Step
    BY <2>1, <2>2, Stutters DEF mgrVars
  <2> QED BY <2>1, <2>3, <2>4 DEF CInv
<1> QED BY <1>1, <1>2, <1>3, RewriteMaps, CrashMaps DEF Next, TurnStep

\* handle_chat, the session handlers and the manager: with clients that wait,
\* and writes that succeed, what the files hold is what was said, over restarts
\* and evictions, also when two stamps are equal.
THEOREM Implements ==
    ASSUME ~DiskFaults, Overlaps = {}
    PROVE  Spec => Promised
<1>1. Init => CInv /\ Promise!Init
  BY InitMaps
<1>2. CInv /\ [Next]_vars => CInv' /\ [Promise!Next]_<<Talk, active>>
  BY NextMaps DEF Step
<1> QED BY <1>1, <1>2, PTL DEF Spec, Promised, Promise!Spec, Talk
=============================================================================
