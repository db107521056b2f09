----------------------------- MODULE MemoryStore -----------------------------
(***************************************************************************)
(* The long-term memory of src/src/memory.rs: stores that hold the same    *)
(* file in memory, each behind a mutex of its own.  A store is opened by   *)
(* every turn (ToolHost), which says when the operations below happen; an  *)
(* operation is what the code does under one hold of the lock.             *)
(*                                                                         *)
(* The entries are listed from the least to the most recently used; that   *)
(* two accesses of a store get equal time stamps is left out.  A value is  *)
(* the number of the write it comes from.                                  *)
(***************************************************************************)
EXTENDS Naturals, Sequences, Subsequences

CONSTANTS
    Store,       \* stores that may be in use at one time
    Key,
    NoKey,       \* of a task that has not used a key
    MaxEntries,  \* memory.max_entries
    MaxWrites    \* bound: writes in a behaviour

ASSUME EntriesAssumption == MaxEntries \in Nat \ {0} /\ MaxWrites \in Nat

VARIABLES
    entries,   \* the entries of every store
    writing,   \* the stores whose lock persist holds while it writes the file
    file,      \* the entries in the file; none while it is cut off
    writes     \* the number of the last write

memVars == <<entries, writing, file, writes>>

Item == [key : Key, val : 1 .. MaxWrites]

MemTypeOK ==
    /\ entries \in [Store -> Seq(Item)]
    /\ writing \subseteq Store
    /\ file \in Seq(Item)
    /\ writes \in 0 .. MaxWrites

MemInit ==
    /\ entries = [s \in Store |-> <<>>]
    /\ writing = {}
    /\ file = <<>> /\ writes = 0

ItemsOf(es, k) == Picked(es, {i \in DOMAIN es : es[i].key = k})
Others(es, k) == Picked(es, {i \in DOMAIN es : es[i].key # k})

\* open: a file that cannot be decoded counts as empty.
Open(s) ==
    /\ entries' = [entries EXCEPT ![s] = file]
    /\ UNCHANGED <<writing, file, writes>>

\* Mutant of Trimmed: sorted the other way.
BugTrimmed(es) == IF Len(es) > MaxEntries THEN SubSeq(es, 1, MaxEntries) ELSE es

\* The least recently used entries over the capacity are evicted.
Trimmed(es) ==
    IF Len(es) > MaxEntries
    THEN SubSeq(es, Len(es) - MaxEntries + 1, Len(es)) ELSE es

\* write, until it drops the lock
Insert(s, k) ==
    /\ s \notin writing /\ writes < MaxWrites
    /\ writes' = writes + 1
    /\ entries' = [entries EXCEPT ![s] =
                      Trimmed(Append(Others(@, k), [key |-> k, val |-> writes']))]
    /\ UNCHANGED <<writing, file>>

\* read, until it drops the lock: the entry, if there is one, becomes the
\* latest.
Holds(s, k) == ItemsOf(entries[s], k) # <<>>
Touch(s, k) ==
    /\ s \notin writing /\ Holds(s, k)
    /\ entries' = [entries EXCEPT ![s] = Others(@, k) \o ItemsOf(@, k)]
    /\ UNCHANGED <<writing, file, writes>>

\* persist takes the lock again, and fs::write cuts the file off.
BeginPersist(s) ==
    /\ s \notin writing
    /\ writing' = writing \cup {s}
    /\ file' = <<>>
    /\ UNCHANGED <<entries, writes>>

\* The rest of the file is written. The entries cannot have changed.
EndPersist(s) ==
    /\ file' = entries[s]
    /\ writing' = writing \ {s}
    /\ UNCHANGED writes

\* fs::write fails half way, which is only logged.
BreakPersist(s) ==
    /\ writing' = writing \ {s}
    /\ UNCHANGED <<file, writes>>

\* A store that nobody uses any more is dropped.
DropUnused(inUse) ==
    entries' = [s \in Store |-> IF s \in inUse THEN entries[s] ELSE <<>>]
=============================================================================
