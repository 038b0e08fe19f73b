----------------------------- MODULE KeyedMutex -----------------------------
(***************************************************************************)
(* keyedMutex of internal/mcptools/send_snapshot.go: a map from a key to a *)
(* mutex that is created on demand and deleted with its last user.  Lock   *)
(* is two steps, a lookup under k.mu and then the entry's own mutex, and   *)
(* so is the unlock function it returns; other goroutines come in between. *)
(*                                                                         *)
(* Entries is the heap: an entry nobody refers to any more is garbage, and *)
(* may be handed out again by the next allocation.                         *)
(***************************************************************************)
EXTENDS Integers, FiniteSets

CONSTANTS
    Procs,      \* goroutines that lock
    Keys,       \* draft IDs
    Entries,    \* *keyedEntry values
    NoEntry,    \* nil
    Nobody      \* an entry's mutex is free

ASSUME KeyedMutexAssumption ==
    /\ NoEntry \notin Entries
    /\ Nobody \notin Procs
    /\ IsFiniteSet(Procs)

VARIABLES
    registry,   \* k.m
    refs,       \* keyedEntry.refs
    holder,     \* who holds keyedEntry.mu
    uses        \* the entry each goroutine got from its lookup

kmVars == <<registry, refs, holder, uses>>

KMTypeOK ==
    /\ registry \in [Keys -> Entries \cup {NoEntry}]
    /\ refs \in [Entries -> Nat]
    /\ holder \in [Entries -> Procs \cup {Nobody}]
    /\ uses \in [Procs -> Entries \cup {NoEntry}]

KMInit ==
    /\ registry = [k \in Keys |-> NoEntry]
    /\ refs = [e \in Entries |-> 0]
    /\ holder = [e \in Entries |-> Nobody]
    /\ uses = [p \in Procs |-> NoEntry]

Garbage(e) == (\A k \in Keys : registry[k] # e) /\ (\A p \in Procs : uses[p] # e)

(* Lock, under k.mu: find the entry or allocate one, and count ourselves.  *)
Lookup(p, k) ==
    /\ uses[p] = NoEntry
    /\ \E e \in Entries :
        /\ IF registry[k] = NoEntry THEN Garbage(e) ELSE e = registry[k]
        /\ registry' = [registry EXCEPT ![k] = e]
        /\ refs' = [refs EXCEPT ![e] = 1 + IF registry[k] = NoEntry THEN 0 ELSE @]
        /\ uses' = [uses EXCEPT ![p] = e]
    /\ UNCHANGED holder

(* Lock, on the entry: wait until it is free. *)
Fault_NoWait(p) == TRUE
Free(p) == holder[uses[p]] = Nobody

Acquire(p) ==
    /\ uses[p] # NoEntry
    /\ Free(p)
    /\ holder' = [holder EXCEPT ![uses[p]] = p]
    /\ UNCHANGED <<registry, refs, uses>>

(* The returned unlock function: first the entry's mutex, then the map. *)
Release(p) ==
    /\ uses[p] # NoEntry /\ holder[uses[p]] = p
    /\ holder' = [holder EXCEPT ![uses[p]] = Nobody]
    /\ UNCHANGED <<registry, refs, uses>>

Fault_DeletedByAny(e) == TRUE
LastUser(e) == refs[e] - 1 = 0

RefsAfter(e) == refs[e] - 1

Drop(p, k) ==
    /\ uses[p] # NoEntry
    /\ refs' = [refs EXCEPT ![uses[p]] = RefsAfter(uses[p])]
    /\ registry' = IF LastUser(uses[p]) THEN [registry EXCEPT ![k] = NoEntry]
                   ELSE registry
    /\ uses' = [uses EXCEPT ![p] = NoEntry]
    /\ UNCHANGED holder

Users(e) == {p \in Procs : uses[p] = e}
=============================================================================
