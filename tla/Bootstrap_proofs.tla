------------------------- MODULE Bootstrap_proofs -------------------------
(***************************************************************************)
(* Proofs about AdvisoryLock, and about Bootstrap, which runs on it.  For  *)
(* any number of instances, requests, pool sizes and colliding ids, and if *)
(* sessions hold, a session that holds the lock is the reason its request, *)
(* and nobody else's, runs fn.  So bootstrap reports one token at most:    *)
(* the insert runs under the same lock as the look at the table.           *)
(***************************************************************************)
EXTENDS Bootstrap, TLAPS

\* The parts of the invariant.
ConnOnlyInWith == \A p \in Proc : conn[p] = None <=> pc[p] \in {"out", "conn", "read", "reading"}
ConnOpen == \A p \in Proc : conn[p] \notin closing
InsideHolds == \A p \in Proc : SessionsHold /\ pc[p] \in Holding => holder[IdOf(p)] = conn[p]
ConnUnshared == \A p, q \in Proc : conn[p] = conn[q] /\ conn[p] # None => p = q
HolderKnown == \A i \in Id : holder[i] # None =>
  holder[i] \in closing \/ \E p \in Proc : conn[p] = holder[i] /\ IdOf(p) = i

LEMMA Parts ==
  IInv <=> TypeOK /\ ConnOnlyInWith /\ ConnOpen /\ InsideHolds /\ ConnUnshared /\ HolderKnown
BY DEF IInv, ConnOnlyInWith, ConnOpen, InsideHolds, ConnUnshared, HolderKnown

LEMMA InitIInv == Init => IInv
<1> SUFFICES ASSUME Init PROVE IInv
  OBVIOUS
<1>1. TypeOK
  BY DEF Init, TypeOK, Label
<1> QED
  BY <1>1, NoneNoSession DEF Init, IInv, Holding

\* A step that moves p and touches neither sessions nor keys.
LEMMA OnlyMoves ==
  ASSUME IInv, NEW p \in Proc, NEW l \in Label, NEW m \in Label, Step(p, l, m),
         UNCHANGED <<key, conn, holder, closing>>,
         l \in Holding <=> m \in Holding,
         l \in {"out", "conn", "read", "reading"} <=> m \in {"out", "conn", "read", "reading"}
  PROVE  IInv'
<1>1. \A q \in Proc : pc'[q] = IF q = p THEN m ELSE pc[q]
  BY DEF Step, IInv, TypeOK
<1>2. TypeOK'
  BY DEF Step, IInv, TypeOK
<1> QED
  BY <1>1, <1>2 DEF Step, IInv, IdOf

\* A step that closes p's connection, or leaves With for good.
LEMMA CloseInv ==
  ASSUME IInv, NEW p \in Proc, NEW l \in Holding \cup {"wait"}, Step(p, l, "out"), Close(p),
         UNCHANGED <<key, holder>>
  PROVE  IInv'
<1>1. /\ \A q \in Proc : pc'[q] = IF q = p THEN "out" ELSE pc[q]
      /\ \A q \in Proc : conn'[q] = IF q = p THEN None ELSE conn[q]
      /\ closing' = closing \cup {conn[p]}
  BY DEF Step, Close, IInv, TypeOK
<1>2. conn[p] \in Session
  BY DEF Step, IInv, TypeOK, Holding
<1>3. TypeOK'
  BY <1>2 DEF Step, Close, IInv, TypeOK, Label
<1>4. ConnOnlyInWith' /\ ConnUnshared'
  BY <1>1 DEF IInv, ConnOnlyInWith, ConnUnshared
<1>5. ConnOpen'
  BY <1>1, <1>2, NoneNoSession DEF IInv, ConnOpen, TypeOK
<1>6. InsideHolds'
  BY <1>1 DEF IInv, InsideHolds, IdOf, Holding
<1>7. HolderKnown'
  BY <1>1 DEF IInv, HolderKnown, IdOf
<1> QED
  BY <1>3, <1>4, <1>5, <1>6, <1>7, Parts DEF IInv, ConnOnlyInWith, ConnOpen, InsideHolds,
     ConnUnshared, HolderKnown

LEMMA CallInv ==
  ASSUME IInv, NEW p \in Proc, NEW k \in Key, Call(p, k)
  PROVE  IInv'
<1>1. /\ \A q \in Proc : pc'[q] = IF q = p THEN "conn" ELSE pc[q]
      /\ \A q \in Proc : key'[q] = IF q = p THEN k ELSE key[q]
      /\ pc[p] = "out" /\ conn[p] = None
  BY DEF Call, Step, IInv, TypeOK
<1>2. TypeOK'
  BY DEF Call, Step, IInv, TypeOK, Label
<1>3. \A i \in Id : holder[i] # None =>
        holder[i] \in closing \/ \E q \in Proc : q # p /\ conn[q] = holder[i] /\ IdOf(q) = i
  BY <1>1 DEF IInv
<1> QED
  BY <1>1, <1>2, <1>3 DEF Call, IInv, IdOf, Holding

LEMMA AcquireConnInv ==
  ASSUME IInv, NEW p \in Proc, AcquireConn(p)
  PROVE  IInv'
<1>1. PICK s \in Session \ closing :
        /\ \A q \in Proc : conn[q] # s
        /\ conn' = [conn EXCEPT ![p] = s]
  BY DEF AcquireConn
<1>2. /\ \A q \in Proc : pc'[q] = IF q = p THEN "wait" ELSE pc[q]
      /\ \A q \in Proc : conn'[q] = IF q = p THEN s ELSE conn[q]
      /\ pc[p] = "conn" /\ conn[p] = None
  BY <1>1 DEF AcquireConn, Step, IInv, TypeOK
<1>3. TypeOK'
  BY <1>1 DEF AcquireConn, Step, IInv, TypeOK, Label
<1>4. ConnOnlyInWith' /\ ConnOpen' /\ ConnUnshared'
  BY <1>1, <1>2, NoneNoSession DEF AcquireConn, IInv, ConnOnlyInWith, ConnOpen, ConnUnshared
<1>5. InsideHolds'
  BY <1>2 DEF AcquireConn, IInv, InsideHolds, IdOf, Holding
<1>6. HolderKnown'
  BY <1>2 DEF AcquireConn, IInv, HolderKnown, IdOf
<1> QED
  BY <1>3, <1>4, <1>5, <1>6 DEF IInv, ConnOnlyInWith, ConnOpen, InsideHolds,
     ConnUnshared, HolderKnown

LEMMA GrantInv ==
  ASSUME IInv, NEW p \in Proc, Grant(p)
  PROVE  IInv'
<1>1. /\ IdOf(p) \in Id /\ holder[IdOf(p)] = None /\ pc[p] = "wait"
      /\ \A i \in Id : holder'[i] = IF i = IdOf(p) THEN conn[p] ELSE holder[i]
      /\ UNCHANGED <<pc, key, conn, closing>>
  BY Hashed DEF Grant, IdOf, IInv, TypeOK
<1>2. TypeOK'
  BY DEF Grant, IInv, TypeOK
<1>3. ASSUME SessionsHold, NEW q \in Proc, pc[q] \in Holding
      PROVE  holder'[IdOf(q)] = conn[q]
  <2>1. holder[IdOf(q)] = conn[q] /\ conn[q] # None /\ IdOf(q) \in Id
    BY <1>3, Hashed DEF IInv, IdOf, TypeOK, Holding
  <2> QED
    BY <1>1, <2>1
<1> QED
  BY <1>1, <1>2, <1>3 DEF IInv, IdOf

LEMMA UnlockInv ==
  ASSUME IInv, NEW p \in Proc, Unlock(p)
  PROVE  IInv'
<1>1. /\ IdOf(p) \in Id /\ pc[p] = "unlock" /\ holder[IdOf(p)] = conn[p] /\ conn[p] # None
      /\ \A i \in Id : holder'[i] = IF i = IdOf(p) THEN None ELSE holder[i]
      /\ \A q \in Proc : conn'[q] = IF q = p THEN None ELSE conn[q]
      /\ \A q \in Proc : pc'[q] = IF q = p THEN "out" ELSE pc[q]
      /\ UNCHANGED <<key, closing>>
  BY Hashed DEF Unlock, Step, IdOf, IInv, TypeOK, Holding
<1>2. TypeOK'
  BY DEF Unlock, Step, IInv, TypeOK, Label
<1>3. ConnOnlyInWith' /\ ConnUnshared'
  BY <1>1 DEF IInv, ConnOnlyInWith, ConnUnshared
<1>4. ConnOpen'
  BY <1>1, NoneNoSession DEF IInv, ConnOpen, TypeOK
<1>5. InsideHolds'
  <2> SUFFICES ASSUME SessionsHold, NEW q \in Proc, q # p, pc[q] \in Holding
               PROVE  holder'[IdOf(q)] = conn[q]
    BY <1>1 DEF InsideHolds, IdOf, Holding
  <2>1. holder[IdOf(q)] = conn[q] /\ conn[q] # conn[p] /\ IdOf(q) \in Id
    BY <1>1, Hashed DEF IInv, IdOf, TypeOK
  <2> QED
    BY <1>1, <2>1
<1>6. HolderKnown'
  <2> SUFFICES ASSUME NEW i \in Id, i # IdOf(p), holder[i] # None, holder[i] \notin closing
               PROVE  \E q \in Proc : conn'[q] = holder[i] /\ IdOf(q) = i
    BY <1>1 DEF HolderKnown, IdOf
  <2> QED
    BY <1>1 DEF IInv
<1> QED
  BY <1>2, <1>3, <1>4, <1>5, <1>6 DEF IInv, ConnOnlyInWith, ConnOpen, InsideHolds,
     ConnUnshared, HolderKnown

LEMMA LoseSessionInv ==
  ASSUME IInv, NEW p \in Proc, LoseSession(p)
  PROVE  IInv'
<1>1. /\ IdOf(p) \in Id /\ ~SessionsHold
      /\ \A i \in Id : holder'[i] = IF i = IdOf(p) THEN None ELSE holder[i]
      /\ UNCHANGED <<pc, key, conn, closing>>
  BY Hashed DEF LoseSession, SessionsHold, IdOf, IInv, TypeOK
<1>2. TypeOK'
  BY DEF LoseSession, IInv, TypeOK
<1> QED
  BY <1>1, <1>2 DEF IInv, IdOf

LEMMA EndSessionInv ==
  ASSUME IInv, NEW s \in Session, EndSession(s)
  PROVE  IInv'
<1>1. /\ \A i \in Id : holder'[i] = IF holder[i] = s THEN None ELSE holder[i]
      /\ closing' = closing \ {s} /\ s \in closing
      /\ UNCHANGED <<pc, key, conn>>
  BY DEF EndSession
<1>2. TypeOK'
  BY DEF EndSession, IInv, TypeOK
<1>3. ASSUME SessionsHold, NEW q \in Proc, pc[q] \in Holding
      PROVE  holder'[IdOf(q)] = conn[q]
  <2>1. holder[IdOf(q)] = conn[q] /\ conn[q] # s /\ IdOf(q) \in Id
    BY <1>1, <1>3, Hashed DEF IInv, IdOf, TypeOK
  <2> QED
    BY <1>1, <2>1
<1> QED
  BY <1>1, <1>2, <1>3 DEF IInv, IdOf

LEMMA NextInv == IInv /\ [Next]_vars => IInv'
<1> SUFFICES ASSUME IInv, [Next]_vars PROVE IInv'
  OBVIOUS
<1>1. CASE UNCHANGED vars
  BY <1>1 DEF vars, IInv, TypeOK, IdOf
<1>2. ASSUME NEW p \in Proc,
             \/ Enter(p) \/ CancelAcquire(p) \/ AskQuery(p) \/ AcquireQuery(p) \/ QueryDone(p)
             \/ Return(p) \/ Read(p) \/ AcquireRead(p) \/ ReadDone(p)
      PROVE  IInv'
  <2>1. CASE Enter(p)
    <3>1. \A q \in Proc : pc'[q] = IF q = p THEN "in" ELSE pc[q]
      BY <2>1 DEF Enter, Step, IInv, TypeOK
    <3>2. TypeOK'
      BY <2>1 DEF Enter, Step, IInv, TypeOK, Label
    <3> QED
      BY <2>1, <3>1, <3>2 DEF Enter, Step, IInv, IdOf, Holding
  <2>2. CASE CancelAcquire(p)
    BY <2>2, OnlyMoves DEF CancelAcquire, Label, Holding
  <2>3. CASE AskQuery(p)
    BY <2>3, OnlyMoves DEF AskQuery, Label, Holding
  <2>4. CASE AcquireQuery(p)
    BY <2>4, OnlyMoves DEF AcquireQuery, Label, Holding
  <2>5. CASE QueryDone(p)
    BY <2>5, OnlyMoves DEF QueryDone, Label, Holding
  <2>6. CASE Return(p)
    BY <2>6, OnlyMoves DEF Return, Label, Holding
  <2>7. CASE Read(p)
    BY <2>7, OnlyMoves DEF Read, Label, Holding
  <2>8. CASE AcquireRead(p)
    BY <2>8, OnlyMoves DEF AcquireRead, Label, Holding
  <2>9. CASE ReadDone(p)
    BY <2>9, OnlyMoves DEF ReadDone, Label, Holding
  <2> QED
    BY <1>2, <2>1, <2>2, <2>3, <2>4, <2>5, <2>6, <2>7, <2>8, <2>9
<1>3. ASSUME NEW p \in Proc, Cancel(p) \/ UnlockFails(p) \/ Die(p)
      PROVE  IInv'
  <2>1. \E l \in Holding \cup {"wait"} : Step(p, l, "out")
    BY <1>3 DEF Cancel, UnlockFails, Die, Step, Holding
  <2>2. Close(p) /\ UNCHANGED <<key, holder>>
    BY <1>3 DEF Cancel, UnlockFails, Die
  <2> QED
    BY <2>1, <2>2, CloseInv
<1> QED
  BY <1>1, <1>2, <1>3, CallInv, AcquireConnInv, GrantInv, UnlockInv, LoseSessionInv,
     EndSessionInv
     DEF Next, Work

(* In every reachable state of any deployment the lock table, the pools and the requests
   agree. *)
THEOREM Inductive == Spec => []IInv
<1> QED
  BY InitIInv, NextInv, PTL DEF Spec

LEMMA InsideAlone ==
  ASSUME IInv, SessionsHold
  PROVE  MutualExclusion
<1> SUFFICES ASSUME NEW p \in Proc, NEW q \in Proc, p # q, pc[p] \in Holding,
                    pc[q] \in Holding, key[p] = key[q]
             PROVE  FALSE
  BY DEF MutualExclusion
<1>1. conn[p] = conn[q] /\ conn[p] # None
  BY DEF IInv, IdOf, Holding
<1> QED
  BY <1>1 DEF IInv

(* If sessions hold, no two requests run fn under one key, whatever their instances and
   whoever was cancelled, died or lost its connection while unlocking. *)
THEOREM MutualExclusionHolds ==
  ASSUME SessionsHold
  PROVE  Spec => []MutualExclusion
<1>1. IInv => MutualExclusion
  BY InsideAlone
<1> QED
  BY <1>1, Inductive, PTL

LEMMA StepRefines ==
  ASSUME SessionsHold, IInv, IInv', [Next]_vars
  PROVE  [Lock!Next]_(Lock!vars)
<1> USE DEF Lock!vars, Phase
<1>1. CASE UNCHANGED vars
  BY <1>1 DEF vars
<1>2. ASSUME NEW p \in Proc, NEW k \in Key, Call(p, k)
      PROVE  Lock!Ask(p, k)
  <2>1. pc[p] = "out" /\ pc' = [pc EXCEPT ![p] = "conn"] /\ pc \in [Proc -> Label]
    BY <1>2 DEF Call, Step, IInv, TypeOK
  <2>2. Phase' = [Phase EXCEPT ![p] = "asking"] /\ Phase[p] = "out"
    BY <2>1 DEF Holding
  <2> QED
    BY <1>2, <2>2 DEF Call, Lock!Ask
<1>3. ASSUME NEW p \in Proc, Enter(p)
      PROVE  Lock!Enter(p)
  <2>0. /\ pc[p] = "wait" /\ pc' = [pc EXCEPT ![p] = "in"] /\ pc \in [Proc -> Label]
        /\ key' = key
    BY <1>3 DEF Enter, Step, IInv, TypeOK
  <2>1. Phase' = [Phase EXCEPT ![p] = "inside"] /\ Phase[p] = "asking"
    BY <2>0 DEF Holding
  <2>2. MutualExclusion'
    BY InsideAlone, <1>3 DEF Enter, Step, IInv, TypeOK, IdOf, Holding, MutualExclusion
  <2>3. \A q \in Proc : Phase[q] = "inside" => key[q] # key[p]
    BY <1>3, <2>2 DEF Enter, Step, IInv, TypeOK, Holding, MutualExclusion
  <2> QED
    BY <2>0, <2>1, <2>3 DEF Lock!Enter
<1>4. ASSUME NEW p \in Proc, Cancel(p) \/ CancelAcquire(p)
      PROVE  Lock!GiveUp(p)
  BY <1>4 DEF Cancel, CancelAcquire, Step, Lock!GiveUp, IInv, TypeOK, Holding
<1>5. ASSUME NEW p \in Proc, Unlock(p) \/ UnlockFails(p) \/ Die(p)
      PROVE  Lock!Leave(p)
  BY <1>5 DEF Unlock, UnlockFails, Die, Step, Lock!Leave, IInv, TypeOK, Holding
<1>6. ASSUME NEW p \in Proc,
             \/ AcquireConn(p) \/ Grant(p) \/ AskQuery(p) \/ AcquireQuery(p) \/ QueryDone(p)
             \/ Return(p) \/ Read(p) \/ AcquireRead(p) \/ ReadDone(p)
      PROVE  UNCHANGED Lock!vars
  BY <1>6 DEF AcquireConn, Grant, AskQuery, AcquireQuery, QueryDone, Return, Read,
     AcquireRead, ReadDone, Step, IInv, TypeOK, Holding
<1>7. (\E s \in Session : EndSession(s)) \/ (\E p \in Proc : LoseSession(p))
        => UNCHANGED Lock!vars
  BY DEF EndSession, LoseSession
<1> QED
  BY <1>1, <1>2, <1>3, <1>4, <1>5, <1>6, <1>7 DEF Next, Work, Lock!Next

(* If sessions hold, the PostgreSQL locker keeps the promise of sluglock.Locker, so what is
   proved of the document service over that promise holds across instances too. *)
THEOREM RefinesKeyedLock ==
  ASSUME SessionsHold
  PROVE  Spec => ImplementsKeyedLock
<1>1. Init => Lock!Init
  BY DEF Init, Lock!Init, Phase, Holding
<1>2. IInv /\ IInv' /\ [Next]_vars => [Lock!Next]_(Lock!vars)
  BY StepRefines
<1> QED
  BY <1>1, <1>2, Inductive, PTL DEF Spec, Lock!Spec, ImplementsKeyedLock
-----------------------------------------------------------------------------
(* The composition takes only steps that AdvisoryLock has. *)
LEMMA Embeds == BootSpec => Spec
<1>1. BootInit => Init
  BY DEF BootInit
<1>2. [BootNext]_allVars => [Next]_vars
  BY DEF BootNext, Elsewhere, Around, Start, Ask, AnyToken, PutToken, Break, Crash, Land,
     OtherDone, Finish, Next, Work, allVars
<1> QED
  BY <1>1, <1>2, PTL DEF BootSpec, Spec

LEMMA InitBootInv == BootInit => BootInv
BY DEF BootInit, BootInv, BootTypeOK, OneToken, Stage

\* Who holds the bootstrap's lock is the only one between the look and the insert.
LEMMA OneInserts ==
  ASSUME SessionsHold, IInv, BootInv, NEW p \in Proc, NEW q \in Proc, Boots(p),
         pc[p] \in {"in", "ask", "query"}, stage[q] \in {"check", "put"}
  PROVE  p = q
<1>1. Boots(q) /\ pc[q] \in {"in", "ask", "query"}
  BY DEF BootInv
<1> QED
  BY <1>1, InsideAlone DEF MutualExclusion, Holding, Boots

LEMMA AroundInv ==
  ASSUME IInv, BootInv, Elsewhere
  PROVE  BootInv'
<1>1. UNCHANGED bootVars
  BY DEF Elsewhere
<1>2. \A p \in Proc : stage[p] \in {"check", "put"} =>
        key'[p] = key[p] /\ pc'[p] \in {"in", "ask", "query"}
  <2> SUFFICES ASSUME NEW p \in Proc, stage[p] \in {"check", "put"}
               PROVE  key'[p] = key[p] /\ pc'[p] \in {"in", "ask", "query"}
    OBVIOUS
  <2>1. pc[p] \in {"in", "ask", "query"} /\ pc \in [Proc -> Label] /\ key \in [Proc -> Key]
    BY DEF BootInv, IInv, TypeOK
  <2>2. ASSUME NEW s \in Session, EndSession(s) PROVE UNCHANGED <<pc, key>>
    BY <2>2 DEF EndSession
  <2>3. ASSUME NEW q \in Proc, Around(q)
        PROVE  key'[p] = key[p] /\ pc'[p] \in {"in", "ask", "query"}
    BY <2>1, <2>3 DEF Around, Call, AcquireConn, Grant, Cancel, CancelAcquire, AcquireQuery,
       Unlock, UnlockFails, LoseSession, Read, AcquireRead, ReadDone, Step
  <2> QED
    BY <2>1, <2>2, <2>3 DEF Elsewhere
<1> QED
  BY <1>1, <1>2 DEF BootInv, BootTypeOK, OneToken, Boots, bootVars

LEMMA LandInv ==
  ASSUME BootInv, NEW t \in Token, Land(t)
  PROVE  BootInv'
BY DEF Land, vars, BootInv, BootTypeOK, OneToken, Boots

\* A bootstrap that gives up on what it was doing.
LEMMA AbandonInv ==
  ASSUME IInv, BootInv, NEW p \in Proc, Break(p) \/ Crash(p)
  PROVE  BootInv'
<1>1. /\ tokens \subseteq Token /\ late \subseteq Token /\ made \subseteq tokens
      /\ stage \in [Proc -> Stage] /\ minted \in [Proc -> Token \cup {None}]
      /\ pc \in [Proc -> Label] /\ None \notin Token
  BY NoneNoToken DEF BootInv, BootTypeOK, OneToken, IInv, TypeOK
<1>2. /\ UNCHANGED <<key, made>> /\ minted' = [minted EXCEPT ![p] = None]
      /\ \E m \in {"in", "out"} : pc' = [pc EXCEPT ![p] = m]
      /\ \E l \in {"done", "none"} : stage' = [stage EXCEPT ![p] = l]
  BY DEF Break, Crash, Abandon, QueryDone, Die, Step
<1>3. /\ tokens \subseteq tokens' /\ tokens' \subseteq Token /\ late' \subseteq Token
  <2>1. {minted[p]} \ {None} \subseteq Token
    BY <1>1
  <2>2. PICK sent \in SUBSET Token :
          \/ tokens' = tokens \cup sent /\ UNCHANGED late
          \/ late' = late \cup sent /\ UNCHANGED tokens
    BY <2>1 DEF Break, Crash, Abandon
  <2> QED
    BY <1>1, <2>2
<1>4. \A q \in Proc : q # p => /\ pc'[q] = pc[q] /\ stage'[q] = stage[q]
                              /\ minted'[q] = minted[q] /\ key'[q] = key[q]
  BY <1>1, <1>2
<1>5. minted'[p] = None /\ stage'[p] \in {"done", "none"}
  BY <1>1, <1>2
<1>6. BootTypeOK' /\ OneToken'
  BY <1>1, <1>2, <1>3 DEF BootInv, BootTypeOK, OneToken, Stage
<1> QED
  BY <1>2, <1>4, <1>5, <1>6 DEF BootInv, Boots

LEMMA FnInv ==
  ASSUME SessionsHold, IInv, BootInv, NEW p \in Proc,
         Start(p) \/ Ask(p) \/ AnyToken(p) \/ PutToken(p) \/ OtherDone(p) \/ Finish(p)
  PROVE  BootInv'
<1>1. /\ tokens \subseteq Token /\ stage \in [Proc -> Stage] /\ minted \in [Proc -> Token \cup {None}]
      /\ pc \in [Proc -> Label] /\ None \notin Token
  BY NoneNoToken DEF BootInv, BootTypeOK, IInv, TypeOK
<1>2. /\ UNCHANGED <<key, late>> /\ pc[p] \in {"wait", "in", "query"}
      /\ \E m \in {"in", "ask", "unlock"} : pc' = [pc EXCEPT ![p] = m]
  BY DEF Start, Ask, AnyToken, PutToken, OtherDone, Finish, Enter, AskQuery, QueryDone,
     Return, Step, bootVars
<1>3. \A q \in Proc : q # p => pc'[q] = pc[q]
  BY <1>1, <1>2
<1>4. CASE Start(p)
  <2>1. /\ UNCHANGED <<tokens, minted, made>> /\ pc'[p] = "in" /\ pc[p] = "wait"
        /\ stage' = [stage EXCEPT ![p] = IF Boots(p) THEN "check" ELSE "none"]
    BY <1>1, <1>4 DEF Start, Enter, Step
  <2>2. minted[p] = None
    BY <2>1 DEF BootInv
  <2> QED
    BY <1>1, <1>2, <1>3, <2>1, <2>2 DEF BootInv, BootTypeOK, OneToken, Boots, Stage
<1>5. CASE Ask(p) \/ OtherDone(p)
  <2>1. UNCHANGED bootVars /\ pc'[p] \in {"in", "ask"}
    BY <1>1, <1>5 DEF Ask, OtherDone, AskQuery, QueryDone, Step
  <2> QED
    BY <1>1, <1>2, <1>3, <2>1 DEF BootInv, BootTypeOK, OneToken, Boots, bootVars
<1>6. CASE AnyToken(p)
  <2>1. /\ pc'[p] = "in" /\ UNCHANGED <<tokens, made>> /\ Boots(p) /\ stage[p] = "check"
        /\ minted[p] = None
    BY <1>1, <1>6 DEF AnyToken, QueryDone, Step, BootInv
  <2>2. CASE tokens # {}
    <3>1. stage' = [stage EXCEPT ![p] = "done"] /\ UNCHANGED minted
      BY <1>6, <2>2 DEF AnyToken
    <3> QED
      BY <1>1, <1>2, <1>3, <2>1, <3>1 DEF BootInv, BootTypeOK, OneToken, Boots, Stage
  <2>3. CASE tokens = {}
    <3>1. PICK t \in Token :
            stage' = [stage EXCEPT ![p] = "put"] /\ minted' = [minted EXCEPT ![p] = t]
      BY <1>6, <2>3 DEF AnyToken, Fresh
    <3>2. made = {}
      BY <2>3 DEF BootInv, OneToken
    <3> QED
      BY <1>1, <1>2, <1>3, <2>1, <3>1, <3>2 DEF BootInv, BootTypeOK, OneToken, Boots, Stage
  <2> QED
    BY <2>2, <2>3
<1>7. CASE PutToken(p)
  <2>1. /\ pc'[p] = "in" /\ Boots(p) /\ stage[p] = "put" /\ made = {} /\ minted[p] \in Token
        /\ tokens' = tokens \cup {minted[p]} /\ made' = {minted[p]}
        /\ stage' = [stage EXCEPT ![p] = "done"] /\ minted' = [minted EXCEPT ![p] = None]
    BY <1>1, <1>7 DEF PutToken, QueryDone, Step, BootInv
  <2>2. \A q \in Proc : stage[q] \in {"check", "put"} => q = p
    BY <1>7, <2>1, OneInserts DEF PutToken, QueryDone, Step
  <2> QED
    BY <1>1, <1>2, <1>3, <2>1, <2>2 DEF BootInv, BootTypeOK, OneToken, Boots, Stage
<1>8. CASE Finish(p)
  <2>1. /\ UNCHANGED <<tokens, minted, made>> /\ stage' = [stage EXCEPT ![p] = "none"]
        /\ (Boots(p) => stage[p] = "done")
    BY <1>8 DEF Finish
  <2>2. stage[p] \notin {"check", "put"}
    BY <2>1 DEF BootInv
  <2> QED
    BY <1>1, <1>2, <1>3, <2>1, <2>2 DEF BootInv, BootTypeOK, OneToken, Boots, Stage
<1> QED
  BY <1>4, <1>5, <1>6, <1>7, <1>8

LEMMA NextBootInv ==
  ASSUME SessionsHold
  PROVE  IInv /\ BootInv /\ [BootNext]_allVars => BootInv'
<1>1. ASSUME BootInv, UNCHANGED allVars PROVE BootInv'
  BY <1>1 DEF allVars, vars, bootVars, BootInv, BootTypeOK, OneToken, Boots
<1> QED
  BY <1>1, AroundInv, FnInv, AbandonInv, LandInv DEF BootNext

(* If sessions hold, bootstraps at any number of instances, cancelled or dying where they
   may, report one token done at most, and it stays in the table. *)
THEOREM OneTokenHolds ==
  ASSUME SessionsHold
  PROVE  BootSpec => []OneToken
<1>1. BootInv => OneToken
  BY DEF BootInv
<1> QED
  BY <1>1, InitBootInv, NextBootInv, Embeds, Inductive, PTL DEF BootSpec
=============================================================================
