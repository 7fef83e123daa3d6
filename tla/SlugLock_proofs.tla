-------------------------- MODULE SlugLock_proofs --------------------------
(***************************************************************************)
(* Proofs about SlugLock for any finite set of goroutines and any keys:    *)
(* mutual exclusion, the map bounded to in-flight keys, the absence of     *)
(* cross-key blocking, and the refinement of KeyedLock.                    *)
(***************************************************************************)
EXTENDS SlugLock, FiniteSetTheorems, TLAPS

USE NoEntryFresh

(* The goroutines pointing to an entry are finitely many. *)
LEMMA UsersFinite == \A e : IsFiniteSet(Users(e)) /\ Cardinality(Users(e)) \in Nat
BY ProcFinite, FS_Subset, FS_CardinalityType DEF Users

LEMMA InitIInv == Init => IInv
<1> SUFFICES ASSUME Init PROVE IInv OBVIOUS
<1>1. TypeOK BY DEF Init, TypeOK
<1>2. PointersCurrent BY DEF Init, PointersCurrent, Counted
<1>3. EntriesDistinct /\ SlotsUsed /\ WaitersCount
  BY DEF Init, EntriesDistinct, SlotsUsed, WaitersCount
<1>4. LockedIffHeld /\ OneHolder
  BY DEF Init, LockedIffHeld, OneHolder, Counted
<1>5. QED BY <1>1, <1>2, <1>3, <1>4 DEF IInv

(* Actions that move no pointer and no count keep the three facts about the map. *)
LEMMA MapUntouched ==
  ASSUME IInv, UNCHANGED <<locks, waiters, ent>>
  PROVE  EntriesDistinct' /\ SlotsUsed' /\ WaitersCount'
BY DEF IInv, EntriesDistinct, SlotsUsed, WaitersCount, Users

LEMMA CallIInv ==
  ASSUME IInv, NEW p \in Proc, NEW k \in Key, Call(p, k)
  PROVE  IInv'
<1> USE DEF IInv, Call
<1>1. TypeOK' BY DEF TypeOK
<1>2. PointersCurrent' BY DEF TypeOK, PointersCurrent, Counted
<1>3. EntriesDistinct' /\ SlotsUsed' /\ WaitersCount' BY MapUntouched
<1>4. LockedIffHeld' BY DEF TypeOK, LockedIffHeld, Counted
<1>5. OneHolder' BY DEF TypeOK, OneHolder
<1>6. QED BY <1>1, <1>2, <1>3, <1>4, <1>5

LEMMA LockIInv ==
  ASSUME IInv, NEW p \in Proc, Lock(p)
  PROVE  IInv'
<1> USE DEF IInv, Lock
<1>1. TypeOK' BY DEF TypeOK, PointersCurrent, Counted
<1>2. PointersCurrent' BY DEF TypeOK, PointersCurrent, Counted
<1>3. EntriesDistinct' /\ SlotsUsed' /\ WaitersCount' BY MapUntouched
<1>4. LockedIffHeld' BY DEF TypeOK, LockedIffHeld, Counted, PointersCurrent
<1>5. OneHolder' BY DEF TypeOK, OneHolder, LockedIffHeld, Counted
<1>6. QED BY <1>1, <1>2, <1>3, <1>4, <1>5

LEMMA UnlockIInv ==
  ASSUME IInv, NEW p \in Proc, Unlock(p)
  PROVE  IInv'
<1> USE DEF IInv, Unlock
<1>1. TypeOK' BY DEF TypeOK
<1>2. PointersCurrent' BY DEF TypeOK, PointersCurrent, Counted
<1>3. EntriesDistinct' /\ SlotsUsed' /\ WaitersCount' BY MapUntouched
<1>4. LockedIffHeld' BY DEF TypeOK, LockedIffHeld, OneHolder, Counted, PointersCurrent
<1>5. OneHolder' BY DEF TypeOK, OneHolder
<1>6. QED BY <1>1, <1>2, <1>3, <1>4, <1>5

(* A caller that finds no slot creates an entry nobody points to. *)
LEMMA AcquireIInv ==
  ASSUME IInv, NEW p \in Proc, Acquire(p)
  PROVE  IInv'
<1> USE DEF IInv
<1> DEFINE U(d) == {q \in Proc : ent'[q] = d}
<1> PICK e \in Entry :
      /\ IF locks[key[p]] # NoEntry THEN e = locks[key[p]] ELSE Unreachable(e)
      /\ locks' = [locks EXCEPT ![key[p]] = e]
      /\ waiters' = [waiters EXCEPT ![e] = IF locks[key[p]] = NoEntry THEN 1 ELSE @ + 1]
      /\ locked' = IF locks[key[p]] = NoEntry THEN locked \ {e} ELSE locked
      /\ ent' = [ent EXCEPT ![p] = e]
  BY DEF Acquire
<1>a. /\ pc[p] = "acquire" /\ pc' = [pc EXCEPT ![p] = "lock"] /\ key' = key
      /\ ent[p] = NoEntry
  BY DEF Acquire, PointersCurrent, Counted, TypeOK
<1>b. U(e) = Users(e) \cup {p} /\ p \notin Users(e)
  BY <1>a DEF TypeOK, Users
<1>c. \A d \in Entry : d # e => U(d) = Users(d)
  BY <1>a DEF TypeOK, Users
<1>d. Cardinality(U(e)) = Cardinality(Users(e)) + 1
  BY <1>b, UsersFinite, FS_AddElement
<1>e. key[p] \in Key BY DEF TypeOK
<1>1. TypeOK' BY <1>a, <1>e DEF TypeOK
<1>2. PointersCurrent'
  BY <1>a, <1>e DEF TypeOK, PointersCurrent, Counted, EntriesDistinct, Unreachable
<1>3. EntriesDistinct'
  BY <1>a, <1>e DEF TypeOK, EntriesDistinct, Unreachable
<1>4. SlotsUsed'
  BY <1>b, <1>c, <1>e DEF TypeOK, SlotsUsed, Users
<1>5. WaitersCount'
  <2> SUFFICES ASSUME NEW k \in Key, locks'[k] # NoEntry
               PROVE  waiters'[locks'[k]] = Cardinality(U(locks'[k]))
    BY DEF WaitersCount, Users
  <2>1. CASE locks'[k] = e
    <3>1. CASE locks[key[p]] = NoEntry
      <4>1. Users(e) = {} BY <3>1 DEF Unreachable, Users
      <4>2. Cardinality(Users(e)) = 0 BY <4>1, FS_EmptySet
      <4>3. QED BY <2>1, <3>1, <4>2, <1>d DEF TypeOK
    <3>2. CASE locks[key[p]] # NoEntry
      <4>1. waiters[e] = Cardinality(Users(e)) BY <3>2, <1>e DEF WaitersCount
      <4>2. QED BY <2>1, <3>2, <4>1, <1>d DEF TypeOK
    <3>3. QED BY <3>1, <3>2
  <2>2. CASE locks'[k] # e
    <3>1. locks'[k] = locks[k] /\ locks[k] \in Entry /\ locks[k] # NoEntry
      BY <2>2, <1>e DEF TypeOK
    <3>2. waiters'[locks[k]] = waiters[locks[k]] BY <3>1, <2>2 DEF TypeOK
    <3>3. QED BY <3>1, <3>2, <2>2, <1>c DEF WaitersCount
  <2>3. QED BY <2>1, <2>2
<1>6. LockedIffHeld'
  <2> SUFFICES ASSUME NEW q \in Proc, Counted(q)'
               PROVE  (ent'[q] \in locked') <=> \E r \in Proc : pc'[r] = "fn" /\ ent'[r] = ent'[q]
    BY DEF LockedIffHeld
  <2>1. CASE locks[key[p]] = NoEntry
    <3>1. \A r \in Proc : ent[r] # e BY <2>1 DEF Unreachable
    <3>2. CASE q = p
      <4>1. e \notin locked' BY <2>1 DEF TypeOK
      <4>2. ent'[q] = e BY <3>2 DEF TypeOK
      <4>3. \A r \in Proc : ~(pc'[r] = "fn" /\ ent'[r] = e)
        BY <3>1, <1>a DEF TypeOK
      <4>4. QED BY <4>1, <4>2, <4>3
    <3>3. CASE q # p
      <4>1. Counted(q) /\ ent'[q] = ent[q] /\ ent[q] # e /\ ent[q] \in Entry
        BY <3>1, <3>3, <1>a DEF TypeOK, Counted, PointersCurrent
      <4>2. ent[q] \in locked' <=> ent[q] \in locked BY <4>1 DEF TypeOK
      <4>3. \A r \in Proc : (pc'[r] = "fn" /\ ent'[r] = ent[q]) <=> (pc[r] = "fn" /\ ent[r] = ent[q])
        BY <4>1, <1>a DEF TypeOK
      <4>4. QED BY <4>1, <4>2, <4>3 DEF LockedIffHeld
    <3>4. QED BY <3>2, <3>3
  <2>2. CASE locks[key[p]] # NoEntry
    <3>1. locked' = locked BY <2>2 DEF TypeOK
    <3>2. \A d : \A r \in Proc : (pc'[r] = "fn" /\ ent'[r] = d) <=> (pc[r] = "fn" /\ ent[r] = d)
      BY <1>a DEF TypeOK
    <3>3. CASE q # p
      <4>1. Counted(q) /\ ent'[q] = ent[q] BY <3>3, <1>a DEF TypeOK, Counted
      <4>2. QED BY <3>1, <3>2, <4>1 DEF LockedIffHeld
    <3>4. CASE q = p
      <4>1. PICK s \in Proc : ent[s] = e
        BY <2>2, <1>e DEF SlotsUsed, Users
      <4>2. Counted(s) BY <4>1 DEF PointersCurrent
      <4>3. ent'[q] = ent[s] BY <4>1, <3>4 DEF TypeOK
      <4>4. QED BY <3>1, <3>2, <4>2, <4>3 DEF LockedIffHeld
    <3>5. QED BY <3>3, <3>4
  <2>3. QED BY <2>1, <2>2
<1>7. OneHolder' BY <1>a DEF TypeOK, OneHolder
<1>8. QED BY <1>1, <1>2, <1>3, <1>4, <1>5, <1>6, <1>7

(* The slot is deleted only by the last caller pointing to its entry. *)
LEMMA ReleaseIInv ==
  ASSUME IInv, NEW p \in Proc, Release(p)
  PROVE  IInv'
<1> USE DEF IInv
<1> DEFINE U(d) == {q \in Proc : ent'[q] = d}
<1> DEFINE e == ent[p]
<1>a. /\ pc[p] = "release" /\ pc' = [pc EXCEPT ![p] = "idle"] /\ key' = key /\ locked' = locked
      /\ ent' = [ent EXCEPT ![p] = NoEntry]
      /\ waiters' = [waiters EXCEPT ![e] = @ - 1]
      /\ locks' = [locks EXCEPT ![key[p]] = IF waiters[e] = 1 THEN NoEntry ELSE @]
  BY DEF Release
<1>b. e \in Entry /\ locks[key[p]] = e /\ key[p] \in Key
  BY <1>a DEF PointersCurrent, Counted, TypeOK
<1>c. U(e) = Users(e) \ {p} /\ p \in Users(e)
  BY <1>a, <1>b DEF TypeOK, Users
<1>d. \A d \in Entry : d # e => U(d) = Users(d)
  BY <1>a DEF TypeOK, Users
<1>e. /\ waiters[e] = Cardinality(Users(e))
      /\ Cardinality(U(e)) = Cardinality(Users(e)) - 1
      /\ Cardinality(Users(e)) \in Nat /\ Cardinality(U(e)) \in Nat
  <2>1. waiters[e] = Cardinality(Users(e)) BY <1>b DEF WaitersCount
  <2>2. IsFiniteSet(Users(e)) BY UsersFinite
  <2>3. Cardinality(Users(e) \ {p}) = Cardinality(Users(e)) - 1
    BY <2>2, <1>c, FS_RemoveElement
  <2>4. Cardinality(Users(e) \ {p}) \in Nat
    BY <2>2, FS_Subset, FS_CardinalityType
  <2>5. QED BY <2>1, <2>3, <2>4, <1>c, UsersFinite
<1>f. waiters[e] = 1 <=> U(e) = {}
  <2>1. IsFiniteSet(U(e)) BY <1>c, UsersFinite, FS_Subset
  <2>2. Cardinality(U(e)) = 0 <=> U(e) = {} BY <2>1, FS_EmptySet
  <2>3. QED BY <2>2, <1>e
<1>1. TypeOK' BY <1>a, <1>b, <1>e DEF TypeOK
<1>2. PointersCurrent'
  <2> SUFFICES ASSUME NEW q \in Proc
               PROVE  IF Counted(q)' THEN ent'[q] # NoEntry /\ locks'[key'[q]] = ent'[q]
                      ELSE ent'[q] = NoEntry
    BY DEF PointersCurrent
  <2>1. CASE q = p BY <2>1, <1>a DEF TypeOK, Counted
  <2>2. CASE q # p /\ Counted(q)
    <3>1. Counted(q)' /\ ent'[q] = ent[q] /\ ent[q] # NoEntry /\ locks[key[q]] = ent[q] /\ key'[q] = key[q]
      BY <2>2, <1>a DEF TypeOK, Counted, PointersCurrent
    <3>2. CASE key[q] = key[p]
      <4>1. ent[q] = e BY <3>1, <3>2, <1>b
      <4>2. q \in U(e) BY <4>1, <3>1 DEF Users
      <4>3. waiters[e] # 1 BY <4>2, <1>f
      <4>4. QED BY <4>3, <3>1, <1>a, <1>b DEF TypeOK
    <3>3. CASE key[q] # key[p] BY <3>1, <3>3, <1>a, <1>b DEF TypeOK
    <3>4. QED BY <3>2, <3>3
  <2>3. CASE q # p /\ ~Counted(q)
    BY <2>3, <1>a DEF TypeOK, Counted, PointersCurrent
  <2>4. QED BY <2>1, <2>2, <2>3
<1>3. EntriesDistinct' BY <1>a, <1>b DEF TypeOK, EntriesDistinct
<1>4. \A k \in Key : locks'[k] # NoEntry =>
        locks'[k] = locks[k] /\ (locks[k] = e => waiters[e] # 1)
  BY <1>a, <1>b DEF TypeOK, EntriesDistinct
<1>5. SlotsUsed' BY <1>4, <1>d, <1>f DEF TypeOK, SlotsUsed, Users
<1>6. WaitersCount'
  <2> SUFFICES ASSUME NEW k \in Key, locks'[k] # NoEntry
               PROVE  waiters'[locks'[k]] = Cardinality(U(locks'[k]))
    BY DEF WaitersCount, Users
  <2>1. locks'[k] = locks[k] /\ locks[k] \in Entry BY <1>4 DEF TypeOK
  <2>2. CASE locks[k] = e
    <3>1. waiters'[e] = waiters[e] - 1 BY <1>a, <1>b DEF TypeOK
    <3>2. QED BY <2>1, <2>2, <3>1, <1>e
  <2>3. CASE locks[k] # e
    <3>1. waiters'[locks[k]] = waiters[locks[k]] BY <2>1, <2>3, <1>a DEF TypeOK
    <3>2. QED BY <2>1, <2>3, <3>1, <1>d DEF WaitersCount
  <2>4. QED BY <2>2, <2>3
<1>7. LockedIffHeld'
  <2> SUFFICES ASSUME NEW q \in Proc, Counted(q)'
               PROVE  (ent'[q] \in locked') <=> \E r \in Proc : pc'[r] = "fn" /\ ent'[r] = ent'[q]
    BY DEF LockedIffHeld
  <2>1. q # p /\ Counted(q) /\ ent'[q] = ent[q] BY <1>a DEF TypeOK, Counted
  <2>2. \A r \in Proc : pc'[r] = "fn" <=> pc[r] = "fn" /\ r # p
    BY <1>a DEF TypeOK
  <2>3. \A r \in Proc : r # p => ent'[r] = ent[r] BY <1>a DEF TypeOK
  <2>4. QED BY <2>1, <2>2, <2>3, <1>a DEF LockedIffHeld
<1>8. OneHolder' BY <1>a DEF TypeOK, OneHolder
<1>9. QED BY <1>1, <1>2, <1>3, <1>5, <1>6, <1>7, <1>8

LEMMA StepIInv == IInv /\ [Next]_vars => IInv'
<1> SUFFICES ASSUME IInv, [Next]_vars PROVE IInv' OBVIOUS
<1>1. ASSUME NEW p \in Proc, NEW k \in Key, Call(p, k) PROVE IInv' BY <1>1, CallIInv
<1>2. ASSUME NEW p \in Proc, Acquire(p) PROVE IInv' BY <1>2, AcquireIInv
<1>3. ASSUME NEW p \in Proc, Lock(p) PROVE IInv' BY <1>3, LockIInv
<1>4. ASSUME NEW p \in Proc, Unlock(p) PROVE IInv' BY <1>4, UnlockIInv
<1>5. ASSUME NEW p \in Proc, Release(p) PROVE IInv' BY <1>5, ReleaseIInv
<1>6. CASE UNCHANGED vars
  BY <1>6 DEF vars, IInv, TypeOK, PointersCurrent, Counted, EntriesDistinct, SlotsUsed,
              WaitersCount, LockedIffHeld, OneHolder, Users
<1>7. QED BY <1>1, <1>2, <1>3, <1>4, <1>5, <1>6 DEF Next, With

(* The inductive invariant holds in every reachable state of the keyed mutex map. *)
THEOREM Inductive == Spec => []IInv
BY InitIInv, StepIInv, PTL DEF Spec

(* No two fn ever run at once under one key, for any number of goroutines and keys:
   the callers of one key all point to one entry, and an entry has one holder. *)
THEOREM MutualExclusionHolds == Spec => []MutualExclusion
<1>1. IInv => MutualExclusion
  BY DEF IInv, PointersCurrent, OneHolder, MutualExclusion, Counted
<1>2. QED BY <1>1, Inductive, PTL

(* The map never keeps a slot for a key that has no caller in flight, and never
   drops one that has: the reclamation in release neither leaks nor frees early. *)
THEOREM MapIsBounded == Spec => []MapBoundedToInFlight
<1>1. IInv => MapBoundedToInFlight
  <2> SUFFICES ASSUME IInv, NEW k \in Key
               PROVE  locks[k] # NoEntry <=> \E p \in Proc : Counted(p) /\ key[p] = k
    BY DEF MapBoundedToInFlight
  <2>1. ASSUME locks[k] # NoEntry PROVE \E p \in Proc : Counted(p) /\ key[p] = k
    <3>1. PICK p \in Proc : ent[p] = locks[k] BY <2>1 DEF IInv, SlotsUsed, Users
    <3>2. Counted(p) /\ locks[key[p]] = locks[k] /\ key[p] \in Key
      BY <2>1, <3>1 DEF IInv, PointersCurrent, TypeOK
    <3>3. QED BY <2>1, <3>2 DEF IInv, EntriesDistinct
  <2>2. ASSUME NEW p \in Proc, Counted(p), key[p] = k PROVE locks[k] # NoEntry
    BY <2>2 DEF IInv, PointersCurrent
  <2>3. QED BY <2>1, <2>2
<1>2. QED BY <1>1, Inductive, PTL

(* A caller waits only for a running fn of its own key: different keys never
   contend, and nobody waits on an entry whose holder is gone. *)
THEOREM NoForeignBlocking == Spec => []BlockedOnlyBySameKey
<1>1. IInv => BlockedOnlyBySameKey
  <2> SUFFICES ASSUME IInv, NEW p \in Proc, pc[p] = "lock", ent[p] \in locked
               PROVE  \E q \in Proc : pc[q] = "fn" /\ key[q] = key[p]
    BY DEF BlockedOnlyBySameKey
  <2>1. PICK q \in Proc : pc[q] = "fn" /\ ent[q] = ent[p]
    BY DEF IInv, LockedIffHeld, Counted
  <2>2. locks[key[q]] = locks[key[p]] /\ locks[key[p]] # NoEntry
    BY <2>1 DEF IInv, PointersCurrent, Counted
  <2>3. QED BY <2>1, <2>2 DEF IInv, EntriesDistinct, TypeOK
<1>2. QED BY <1>1, Inductive, PTL

(* Every behaviour of the map of reference-counted mutexes is a behaviour of the
   abstract keyed lock that the services rely on. *)
THEOREM RefinesKeyedLock == Spec => ImplementsKeyedLock
<1> DEFINE ph == [p \in Proc |-> CASE pc[p] \in {"acquire", "lock"} -> "asking"
                                   [] pc[p] = "fn" -> "inside"
                                   [] OTHER -> "out"]
<1>1. Init => Abs!Init BY DEF Init, Abs!Init
<1>2. IInv /\ [Next]_vars => [Abs!Next]_(Abs!vars)
  <2> SUFFICES ASSUME IInv, [Next]_vars PROVE [Abs!Next]_(Abs!vars) OBVIOUS
  <2> USE DEF IInv, TypeOK
  <2>1. ASSUME NEW p \in Proc, NEW k \in Key, Call(p, k) PROVE Abs!Ask(p, k)
    BY <2>1 DEF Call, Abs!Ask
  <2>2. ASSUME NEW p \in Proc, Acquire(p) PROVE UNCHANGED Abs!vars
    BY <2>2 DEF Acquire, Abs!vars
  <2>3. ASSUME NEW p \in Proc, Lock(p) PROVE Abs!Enter(p)
    <3>1. MutualExclusion'
      BY <2>3, LockIInv DEF PointersCurrent, OneHolder, MutualExclusion, Counted
    <3>2. \A q \in Proc : pc[q] = "fn" => key[q] # key[p]
      BY <2>3, <3>1 DEF Lock, MutualExclusion
    <3>3. QED BY <2>3, <3>2 DEF Lock, Abs!Enter
  <2>4. ASSUME NEW p \in Proc, Unlock(p) PROVE Abs!Leave(p)
    BY <2>4 DEF Unlock, Abs!Leave
  <2>5. ASSUME NEW p \in Proc, Release(p) PROVE UNCHANGED Abs!vars
    BY <2>5 DEF Release, Abs!vars
  <2>6. CASE UNCHANGED vars BY <2>6 DEF vars, Abs!vars
  <2>7. QED BY <2>1, <2>2, <2>3, <2>4, <2>5, <2>6 DEF Next, With, Abs!Next
<1>3. QED BY <1>1, <1>2, Inductive, PTL DEF Spec, ImplementsKeyedLock, Abs!Spec
=============================================================================
