---------------------------- MODULE AdvisoryLock ----------------------------
(***************************************************************************)
(* The PostgreSQL locker (advisorylock.go) under the two connection pools  *)
(* that each app instance opens (postgres.go): With takes a connection     *)
(* from the lock pool for the whole call, its session waits for an         *)
(* advisory lock, and fn runs queries on connections of the other pool.    *)
(* The lock table is the server's and shared by all instances.             *)
(*                                                                         *)
(* A cancelled request closes its connection, and so does a failed unlock; *)
(* the server ends the session, and frees its lock, only later.  So it is  *)
(* when the process dies under fn.  "sessionLoss" in Faults ends a session *)
(* under a running fn, which is not told.                                  *)
(***************************************************************************)
EXTENDS Naturals, FiniteSets

CONSTANTS Proc, Instance, Key, Session, Id,
          at,          \* at[p]: the app instance request p runs in
          advisoryKey, \* advisoryKey[k]: the 64-bit id a key hashes to
          MaxConns,    \* size of each pool (PG_POOL_MAX)
          Faults,      \* {"sessionLoss"} or none
          None

ASSUME Placed == at \in [Proc -> Instance]
ASSUME Hashed == advisoryKey \in [Key -> Id]
ASSUME PoolMax == MaxConns \in Nat \ {0}
ASSUME FaultsKnown == Faults \subseteq {"sessionLoss"}
ASSUME NoneNoSession == None \notin Session

VARIABLES pc, key,
          conn,     \* conn[p]: the session of p's lock connection
          holder,   \* holder[i]: the session holding advisory lock i
          closing   \* sessions closed by the client that the server has not ended

vars == <<pc, key, conn, holder, closing>>

\* out; conn: in lockPool.Acquire; wait: in pg_advisory_lock; in: running fn;
\* ask: fn waits for a query connection; query: fn has one; unlock: the defer;
\* read: a request that needs no lock waits for a query connection; reading: has one.
Label == {"out", "conn", "wait", "in", "ask", "query", "unlock", "read", "reading"}

TypeOK ==
  /\ pc \in [Proc -> Label] /\ key \in [Proc -> Key]
  /\ conn \in [Proc -> Session \cup {None}]
  /\ holder \in [Id -> Session \cup {None}]
  /\ closing \in SUBSET Session

Init ==
  /\ pc = [p \in Proc |-> "out"]
  /\ \E k \in Key : key = [p \in Proc |-> k]
  /\ conn = [p \in Proc |-> None]
  /\ holder = [i \in Id |-> None]
  /\ closing = {}

\* What fn runs within.
Holding == {"in", "ask", "query", "unlock"}

Step(p, l, m) == pc[p] = l /\ pc' = [pc EXCEPT ![p] = m]
IdOf(p) == advisoryKey[key[p]]
Peers(p) == {q \in Proc : at[q] = at[p]}
InLockPool(p) == {q \in Peers(p) : conn[q] # None}
InQueryPool(p) == {q \in Peers(p) : pc[q] \in {"query", "reading"}}
-----------------------------------------------------------------------------
(* With(key, fn) is called with a live context. *)
Call(p, k) ==
  /\ Step(p, "out", "conn")
  /\ key' = [key EXCEPT ![p] = k]
  /\ UNCHANGED <<conn, holder, closing>>

(* lockPool.Acquire: an idle or a new connection, as long as the pool is not full. *)
AcquireConn(p) ==
  /\ Step(p, "conn", "wait")
  /\ Cardinality(InLockPool(p)) < MaxConns
  /\ \E s \in Session \ closing :
       /\ \A q \in Proc : conn[q] # s
       /\ conn' = [conn EXCEPT ![p] = s]
  /\ UNCHANGED <<key, holder, closing>>

(* The server grants the lock to a waiting session. *)
Grant(p) ==
  /\ pc[p] = "wait"
  /\ holder[IdOf(p)] = None
  /\ holder' = [holder EXCEPT ![IdOf(p)] = conn[p]]
  /\ UNCHANGED <<pc, key, conn, closing>>

\* fn starts whether or not the lock was granted (pg_try_advisory_lock).
EnterUngranted(p) ==
  /\ Step(p, "wait", "in")
  /\ UNCHANGED <<key, conn, holder, closing>>

(* pg_advisory_lock returns and fn starts. *)
Enter(p) ==
  /\ Step(p, "wait", "in")
  /\ holder[IdOf(p)] = conn[p]
  /\ UNCHANGED <<key, conn, holder, closing>>

\* A cancelled wait puts its connection back into the pool as it is.
CancelKeepsSession(p) ==
  /\ Step(p, "wait", "out")
  /\ conn' = [conn EXCEPT ![p] = None]
  /\ UNCHANGED <<key, holder, closing>>

\* The connection of p is closed and leaves the pool.
Close(p) ==
  /\ conn' = [conn EXCEPT ![p] = None]
  /\ closing' = closing \cup {conn[p]}

(* The request is cancelled while its statement waits, the lock perhaps just granted:
   the driver closes the connection. *)
Cancel(p) ==
  /\ Step(p, "wait", "out")
  /\ Close(p)
  /\ UNCHANGED <<key, holder>>

(* Cancelled before it had a connection. *)
CancelAcquire(p) ==
  /\ Step(p, "conn", "out")
  /\ UNCHANGED <<key, conn, holder, closing>>

(* The server ends a closed session and frees what it held or waited for. *)
EndSession(s) ==
  /\ s \in closing
  /\ closing' = closing \ {s}
  /\ holder' = [i \in Id |-> IF holder[i] = s THEN None ELSE holder[i]]
  /\ UNCHANGED <<pc, key, conn>>
-----------------------------------------------------------------------------
(* fn makes a store call: pool.Query takes a connection of the query pool. *)
AskQuery(p) == Step(p, "in", "ask") /\ UNCHANGED <<key, conn, holder, closing>>

\* Locks and queries share one pool.
QueryFromOnePool(p) ==
  /\ Step(p, "ask", "query")
  /\ Cardinality(InQueryPool(p) \cup InLockPool(p)) < MaxConns
  /\ UNCHANGED <<key, conn, holder, closing>>

AcquireQuery(p) ==
  /\ Step(p, "ask", "query")
  /\ Cardinality(InQueryPool(p)) < MaxConns
  /\ UNCHANGED <<key, conn, holder, closing>>

QueryDone(p) == Step(p, "query", "in") /\ UNCHANGED <<key, conn, holder, closing>>

(* fn returns. *)
Return(p) == Step(p, "in", "unlock") /\ UNCHANGED <<key, conn, holder, closing>>

(* The deferred pg_advisory_unlock, on a context that is never cancelled, then Release. *)
Unlock(p) ==
  /\ Step(p, "unlock", "out")
  /\ holder[IdOf(p)] = conn[p]
  /\ holder' = [holder EXCEPT ![IdOf(p)] = None]
  /\ conn' = [conn EXCEPT ![p] = None]
  /\ UNCHANGED <<key, closing>>

(* The unlock statement fails on a broken connection; its error is dropped. *)
UnlockFails(p) ==
  /\ Step(p, "unlock", "out")
  /\ Close(p)
  /\ UNCHANGED <<key, holder>>

(* The session that holds the lock ends under fn, and the lock is free: pgx notices when
   it next uses the connection, which is to unlock. *)
LoseSession(p) ==
  /\ "sessionLoss" \in Faults
  /\ pc[p] \in Holding /\ holder[IdOf(p)] = conn[p]
  /\ holder' = [holder EXCEPT ![IdOf(p)] = None]
  /\ UNCHANGED <<pc, key, conn, closing>>

(* The process dies under fn: the lock is free when the server has ended its session. *)
Die(p) ==
  /\ pc[p] \in Holding
  /\ pc' = [pc EXCEPT ![p] = "out"]
  /\ Close(p)
  /\ UNCHANGED <<key, holder>>

(* Requests that take no lock (rendering, listing) share the query pool. *)
Read(p) == Step(p, "out", "read") /\ UNCHANGED <<key, conn, holder, closing>>

AcquireRead(p) ==
  /\ Step(p, "read", "reading")
  /\ Cardinality(InQueryPool(p)) < MaxConns
  /\ UNCHANGED <<key, conn, holder, closing>>

ReadDone(p) == Step(p, "reading", "out") /\ UNCHANGED <<key, conn, holder, closing>>
-----------------------------------------------------------------------------
Work(p) == \/ Enter(p) \/ QueryDone(p) \/ Unlock(p) \/ UnlockFails(p) \/ ReadDone(p)

Next ==
  \/ \E p \in Proc :
       \/ \E k \in Key : Call(p, k)
       \/ AcquireConn(p) \/ Grant(p) \/ Cancel(p) \/ CancelAcquire(p)
       \/ AskQuery(p) \/ AcquireQuery(p) \/ Return(p)
       \/ LoseSession(p) \/ Die(p)
       \/ Read(p) \/ AcquireRead(p)
       \/ Work(p)
  \/ \E s \in Session : EndSession(s)

Spec == Init /\ [][Next]_vars

(***************************************************************************)
(* A request takes the steps open to it and fn returns; pgxpool serves its *)
(* waiters first come, first served, PostgreSQL queues lock waiters too,   *)
(* and the server ends closed sessions.  Nobody has to call or cancel.     *)
(***************************************************************************)
FairSpec ==
  /\ Spec
  /\ \A p \in Proc :
       /\ WF_vars(Work(p)) /\ SF_vars(Return(p))
       /\ SF_vars(AcquireConn(p)) /\ SF_vars(Grant(p))
       /\ SF_vars(AcquireQuery(p)) /\ SF_vars(AcquireRead(p))
  /\ \A s \in Session : WF_vars(EndSession(s))
-----------------------------------------------------------------------------
\* No session ends under fn but with the process.
SessionsHold == "sessionLoss" \notin Faults

(* A request runs fn only while its own session holds its lock, sessions are never
   shared, and a lock held by no running request is on its way to its request or to
   being freed. *)
IInv ==
  /\ TypeOK
  /\ \A p \in Proc :
       /\ conn[p] = None <=> pc[p] \in {"out", "conn", "read", "reading"}
       /\ conn[p] \notin closing
       /\ SessionsHold /\ pc[p] \in Holding => holder[IdOf(p)] = conn[p]
       /\ \A q \in Proc : conn[p] = conn[q] /\ conn[p] # None => p = q
  /\ \A i \in Id : holder[i] # None =>
       holder[i] \in closing \/ \E p \in Proc : conn[p] = holder[i] /\ IdOf(p) = i

(* No two requests, of any instances, run fn under one key, if sessions hold. *)
MutualExclusion == \A p, q \in Proc :
  p # q /\ pc[p] \in Holding /\ pc[q] \in Holding => key[p] # key[q]

(* Every call comes back and every read is served: a full lock pool delays new callers
   but never the queries of those inside, and an abandoned grant is freed. *)
CallsReturn == \A p \in Proc : pc[p] # "out" ~> pc[p] = "out"

Phase == [p \in Proc |-> IF pc[p] \in Holding THEN "inside"
                         ELSE IF pc[p] \in {"conn", "wait"} THEN "asking" ELSE "out"]
Lock == INSTANCE KeyedLock WITH phase <- Phase, want <- key
(* The locker keeps the promise of sluglock.Locker, if sessions hold. *)
ImplementsKeyedLock == Lock!Spec
=============================================================================
