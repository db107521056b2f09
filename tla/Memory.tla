------------------------------- MODULE Memory -------------------------------
(***************************************************************************)
(* What the long-term memory promises the agents, without stores, files    *)
(* and threads: one map from keys to what was last written under them, in  *)
(* which a key is forgotten once MaxEntries others have been used since,   *)
(* and not before.  memory.rs: "bounded, LRU eviction".                    *)
(***************************************************************************)
EXTENDS Naturals, FiniteSets

CONSTANTS Key, MaxEntries, MaxWrites

VARIABLES
    told,     \* the last write of every key, 0 if there is none or none is left
    since,    \* for every key with a write, the keys used since it was used
    writes    \* the number of the last write

vars == <<told, since, writes>>

Init ==
    /\ told = [k \in Key |-> 0]
    /\ since = [k \in Key |-> {}]
    /\ writes = 0

\* What was used since, once k has been used, in the memory m
Used(k, m) ==
    [x \in Key |-> IF x = k \/ m[x] = 0 THEN {} ELSE since[x] \cup {k}]

Remember(k) ==
    LET m == [told EXCEPT ![k] = writes + 1]
        used == Used(k, m)
        forgotten == {x \in Key : Cardinality(used[x]) >= MaxEntries}
    IN  /\ writes < MaxWrites
        /\ writes' = writes + 1
        /\ told' = [x \in Key |-> IF x \in forgotten THEN 0 ELSE m[x]]
        /\ since' = [x \in Key |-> IF x \in forgotten THEN {} ELSE used[x]]

Recall(k) ==
    /\ told[k] # 0
    /\ since' = Used(k, told)
    /\ UNCHANGED <<told, writes>>

Next == \E k \in Key : Remember(k) \/ Recall(k)

Spec == Init /\ [][Next]_vars
=============================================================================
