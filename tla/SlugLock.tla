------------------------------ MODULE SlugLock ------------------------------
(***************************************************************************)
(* sluglock.Memory: a map from key to a reference-counted mutex.  The map  *)
(* is guarded by m.mu, so acquire and release are atomic; the entry's own  *)
(* mutex is taken after acquire has returned and dropped before release    *)
(* runs, so another caller can act between any two of these steps, and an  *)
(* entry can be deleted and recreated while others still hold pointers.    *)
(***************************************************************************)
EXTENDS Naturals, FiniteSets

CONSTANTS Proc,      \* goroutines calling With
          Key,       \* lock keys
          Entry,     \* heap identities an entry can have
          NoEntry    \* a map slot or pointer that names no entry

ASSUME ProcFinite == IsFiniteSet(Proc)
ASSUME NoEntryFresh == NoEntry \notin Entry

VARIABLES locks,     \* m.locks: Key -> entry, NoEntry where absent
          waiters,   \* e.waiters
          locked,    \* the entries whose e.mu is held
          pc,        \* where each goroutine stands in With
          key,       \* its key argument
          ent        \* the *entry that acquire returned to it

vars == <<locks, waiters, locked, pc, key, ent>>

Init ==
  /\ locks = [k \in Key |-> NoEntry]
  /\ waiters = [e \in Entry |-> 0]
  /\ locked = {}
  /\ pc = [p \in Proc |-> "idle"]
  /\ key \in [Proc -> Key]
  /\ ent = [p \in Proc |-> NoEntry]

\* An entry no map slot and no goroutine points to: &entry{} may be any of these.
Unreachable(e) ==
  /\ \A k \in Key : locks[k] # e
  /\ \A p \in Proc : ent[p] # e

(* A call of With whose context is not yet cancelled. *)
Call(p, k) ==
  /\ pc[p] = "idle"
  /\ pc' = [pc EXCEPT ![p] = "acquire"]
  /\ key' = [key EXCEPT ![p] = k]
  /\ UNCHANGED <<locks, waiters, locked, ent>>

(* acquire, all of it under m.mu: find or create the entry, count this caller in. *)
Acquire(p) ==
  /\ pc[p] = "acquire"
  /\ \E e \in Entry :
       /\ IF locks[key[p]] # NoEntry THEN e = locks[key[p]] ELSE Unreachable(e)
       /\ locks' = [locks EXCEPT ![key[p]] = e]
       /\ waiters' = [waiters EXCEPT ![e] = IF locks[key[p]] = NoEntry THEN 1 ELSE @ + 1]
       /\ locked' = IF locks[key[p]] = NoEntry THEN locked \ {e} ELSE locked
       /\ ent' = [ent EXCEPT ![p] = e]
  /\ pc' = [pc EXCEPT ![p] = "lock"]
  /\ UNCHANGED key

(* e.mu.Lock(): from here on fn is running. *)
Lock(p) ==
  /\ pc[p] = "lock"
  /\ ent[p] \notin locked
  /\ locked' = locked \cup {ent[p]}
  /\ pc' = [pc EXCEPT ![p] = "fn"]
  /\ UNCHANGED <<locks, waiters, key, ent>>

\* fn left by a path that does not run the deferred unlock.
UnlockSkipped(p) ==
  /\ pc[p] = "fn"
  /\ pc' = [pc EXCEPT ![p] = "release"]
  /\ UNCHANGED <<locks, waiters, locked, key, ent>>

(* fn returns (or panics): the deferred e.mu.Unlock() runs first. *)
Unlock(p) ==
  /\ pc[p] = "fn"
  /\ locked' = locked \ {ent[p]}
  /\ pc' = [pc EXCEPT ![p] = "release"]
  /\ UNCHANGED <<locks, waiters, key, ent>>

\* A release that reclaims the map slot without looking at the waiter count.
ReleaseAlwaysDeletes(p) ==
  /\ pc[p] = "release"
  /\ waiters' = [waiters EXCEPT ![ent[p]] = @ - 1]
  /\ locks' = [locks EXCEPT ![key[p]] = NoEntry]
  /\ ent' = [ent EXCEPT ![p] = NoEntry]
  /\ pc' = [pc EXCEPT ![p] = "idle"]
  /\ UNCHANGED <<locked, key>>

\* A release that never reclaims: the map grows with every key ever seen.
ReleaseNeverDeletes(p) ==
  /\ pc[p] = "release"
  /\ waiters' = [waiters EXCEPT ![ent[p]] = @ - 1]
  /\ ent' = [ent EXCEPT ![p] = NoEntry]
  /\ pc' = [pc EXCEPT ![p] = "idle"]
  /\ UNCHANGED <<locked, key, locks>>

(* The deferred release, under m.mu: count this caller out, reclaim an idle entry. *)
Release(p) ==
  /\ pc[p] = "release"
  /\ waiters' = [waiters EXCEPT ![ent[p]] = @ - 1]
  /\ locks' = [locks EXCEPT ![key[p]] = IF waiters[ent[p]] = 1 THEN NoEntry ELSE @]
  /\ ent' = [ent EXCEPT ![p] = NoEntry]
  /\ pc' = [pc EXCEPT ![p] = "idle"]
  /\ UNCHANGED <<locked, key>>

With(p) == Acquire(p) \/ Lock(p) \/ Unlock(p) \/ Release(p)

Next == \E p \in Proc : (\E k \in Key : Call(p, k)) \/ With(p)

(***************************************************************************)
(* Every runnable goroutine runs.  Lock gets strong fairness: a Go mutex   *)
(* hands itself to a waiter that has starved, so a goroutine that finds it *)
(* free again and again gets it.  No fairness on Call: requests may stop.  *)
(***************************************************************************)
Fairness == \A p \in Proc :
  /\ WF_vars(Acquire(p)) /\ SF_vars(Lock(p))
  /\ WF_vars(Unlock(p)) /\ WF_vars(Release(p))

Spec == Init /\ [][Next]_vars
FairSpec == Spec /\ Fairness
-----------------------------------------------------------------------------
TypeOK ==
  /\ locks \in [Key -> Entry \cup {NoEntry}]
  /\ waiters \in [Entry -> Nat]
  /\ locked \subseteq Entry
  /\ pc \in [Proc -> {"idle", "acquire", "lock", "fn", "release"}]
  /\ key \in [Proc -> Key]
  /\ ent \in [Proc -> Entry \cup {NoEntry}]

Counted(p) == pc[p] \in {"lock", "fn", "release"}
Users(e) == {p \in Proc : ent[p] = e}

\* At most one fn runs per key, whatever entries were deleted and recreated for
\* that key in between (With, sluglock.go:66-75).
MutualExclusion ==
  \A p, q \in Proc : pc[p] = "fn" /\ pc[q] = "fn" /\ key[p] = key[q] => p = q

\* The map holds a slot for a key exactly while some caller is between acquire and
\* release for it: "keeping the map bounded to in-flight keys" (sluglock.go:53-54).
MapBoundedToInFlight ==
  \A k \in Key : locks[k] # NoEntry <=> \E p \in Proc : Counted(p) /\ key[p] = k

\* A caller blocked on the entry's mutex is blocked by a running fn of its own key,
\* never by another key's or by an abandoned entry.
BlockedOnlyBySameKey ==
  \A p \in Proc : pc[p] = "lock" /\ ent[p] \in locked =>
    \E q \in Proc : pc[q] = "fn" /\ key[q] = key[p]

\* A call that got past its context check eventually runs fn and returns.
CallsReturn == \A p \in Proc :
  /\ pc[p] = "acquire" ~> pc[p] = "fn"
  /\ pc[p] = "fn" ~> pc[p] = "idle"

\* The map implements the abstract keyed lock: a caller is asking between the start
\* of With and e.mu.Lock(), inside while fn runs, and out again once e.mu is unlocked.
Abs == INSTANCE KeyedLock WITH
  want <- key,
  phase <- [p \in Proc |-> CASE pc[p] \in {"acquire", "lock"} -> "asking"
                             [] pc[p] = "fn" -> "inside"
                             [] OTHER -> "out"]
ImplementsKeyedLock == Abs!Spec

(***************************************************************************)
(* The inductive invariant: a caller that is counted in points to the very *)
(* entry the map holds for its key, distinct keys have distinct entries,   *)
(* and waiters[e] is the number of callers pointing to e; so release can   *)
(* only delete the slot of the entry it got, and only after the last user. *)
(***************************************************************************)
PointersCurrent == \A p \in Proc :
  IF Counted(p) THEN ent[p] # NoEntry /\ locks[key[p]] = ent[p] ELSE ent[p] = NoEntry
EntriesDistinct ==
  \A j, k \in Key : locks[j] = locks[k] /\ locks[j] # NoEntry => j = k
SlotsUsed ==
  \A k \in Key : locks[k] # NoEntry => Users(locks[k]) # {}
WaitersCount ==
  \A k \in Key : locks[k] # NoEntry => waiters[locks[k]] = Cardinality(Users(locks[k]))
LockedIffHeld ==
  \A p \in Proc : Counted(p) =>
    (ent[p] \in locked <=> \E q \in Proc : pc[q] = "fn" /\ ent[q] = ent[p])
OneHolder ==
  \A p, q \in Proc : pc[p] = "fn" /\ pc[q] = "fn" /\ ent[p] = ent[q] => p = q

IInv ==
  /\ TypeOK
  /\ PointersCurrent
  /\ EntriesDistinct
  /\ SlotsUsed
  /\ WaitersCount
  /\ LockedIffHeld
  /\ OneHolder
=============================================================================
