----------------------------- MODULE Bootstrap -----------------------------
(***************************************************************************)
(* The first write token (auth.go, Bootstrap) over the PostgreSQL locker:  *)
(* a look at the tokens table and an insert, two statements of two         *)
(* connections, made one by the lock of the key "__bootstrap__".  Servers  *)
(* and the bootstrap command all take that lock at the same database.      *)
(* Requests under other keys run what they like (AdvisoryLock).            *)
(*                                                                         *)
(* An INSERT that is cancelled, or whose process dies, may still be under  *)
(* way at the server when the lock is free again.                          *)
(***************************************************************************)
EXTENDS AdvisoryLock

CONSTANTS BootKey, Token

ASSUME BootKeyIsKey == BootKey \in Key
ASSUME NoneNoToken == None \notin Token

VARIABLES tokens,         \* the rows of the tokens table
          late,           \* abandoned inserts that the server has not resolved
          stage, minted,  \* what each bootstrap does next, and the token it is to insert
          made            \* history: tokens whose insert was reported done

bootVars == <<tokens, late, stage, minted, made>>
allVars == <<vars, bootVars>>

Stage == {"none", "check", "put", "done"}

BootTypeOK ==
  /\ tokens \subseteq Token /\ late \subseteq Token /\ made \subseteq Token
  /\ stage \in [Proc -> Stage]
  /\ minted \in [Proc -> Token \cup {None}]

BootInit ==
  /\ Init
  /\ tokens = {} /\ late = {} /\ made = {}
  /\ stage = [p \in Proc |-> "none"]
  /\ minted = [p \in Proc |-> None]

Boots(p) == key[p] = BootKey
-----------------------------------------------------------------------------
(* fn starts: the bootstrap's looks at the table first. *)
Start(p) ==
  /\ Enter(p)
  /\ stage' = [stage EXCEPT ![p] = IF Boots(p) THEN "check" ELSE "none"]
  /\ UNCHANGED <<tokens, late, minted, made>>

(* fn's next statement. *)
Ask(p) == AskQuery(p) /\ (Boots(p) => stage[p] \in {"check", "put"}) /\ UNCHANGED bootVars

\* A random token is new to the database and to everyone.
Fresh == Token \ (tokens \cup late \cup {minted[p] : p \in Proc})

(* AnyToken: a row is a conflict, and an empty table a fresh random token. *)
AnyToken(p) ==
  /\ QueryDone(p)
  /\ Boots(p) /\ stage[p] = "check"
  /\ \/ tokens # {} /\ stage' = [stage EXCEPT ![p] = "done"] /\ UNCHANGED minted
     \/ tokens = {} /\ stage' = [stage EXCEPT ![p] = "put"]
        /\ \E t \in Fresh : minted' = [minted EXCEPT ![p] = t]
  /\ UNCHANGED <<tokens, late, made>>

(* PutToken: the row is there, and the token is the answer. *)
PutToken(p) ==
  /\ QueryDone(p)
  /\ Boots(p) /\ stage[p] = "put"
  /\ tokens' = tokens \cup {minted[p]}
  /\ made' = made \cup {minted[p]}
  /\ stage' = [stage EXCEPT ![p] = "done"]
  /\ minted' = [minted EXCEPT ![p] = None]
  /\ UNCHANGED late

\* p goes on to stage l without its insert: if that was under way its row is there, or may
\* still come.
Abandon(p, l) ==
  /\ LET sent == IF pc[p] = "query" THEN {minted[p]} \ {None} ELSE {}
     IN \/ tokens' = tokens \cup sent /\ UNCHANGED late
        \/ late' = late \cup sent /\ UNCHANGED tokens
  /\ stage' = [stage EXCEPT ![p] = l]
  /\ minted' = [minted EXCEPT ![p] = None]
  /\ UNCHANGED made

(* A statement fails or is cancelled, and With answers an error. *)
Break(p) == QueryDone(p) /\ Boots(p) /\ Abandon(p, "done")

(* The process dies, and its lock goes whether or not the insert is resolved. *)
Crash(p) == Die(p) /\ Abandon(p, "none")

(* The server resolves an abandoned insert. *)
Land(t) ==
  /\ t \in late /\ late' = late \ {t}
  /\ tokens' \in {tokens, tokens \cup {t}}
  /\ UNCHANGED <<vars, stage, minted, made>>

\* fn of another key.
OtherDone(p) == QueryDone(p) /\ ~Boots(p) /\ UNCHANGED bootVars

(* fn returns when it is done, and the call answers with the token if there is one. *)
Finish(p) ==
  /\ Return(p)
  /\ Boots(p) => stage[p] = "done"
  /\ stage' = [stage EXCEPT ![p] = "none"]
  /\ UNCHANGED <<tokens, late, minted, made>>

(* What the locker and the pools do around fn. *)
Around(p) ==
  \/ \E k \in Key : Call(p, k)
  \/ AcquireConn(p) \/ Grant(p) \/ Cancel(p) \/ CancelAcquire(p) \/ AcquireQuery(p)
  \/ Unlock(p) \/ UnlockFails(p) \/ LoseSession(p) \/ Read(p) \/ AcquireRead(p) \/ ReadDone(p)

Elsewhere ==
  /\ (\E p \in Proc : Around(p)) \/ (\E s \in Session : EndSession(s))
  /\ UNCHANGED bootVars

BootNext ==
  \/ Elsewhere
  \/ \E p \in Proc :
       \/ Start(p) \/ Ask(p) \/ AnyToken(p) \/ PutToken(p) \/ Break(p) \/ Crash(p)
       \/ OtherDone(p) \/ Finish(p)
  \/ \E t \in Token : Land(t)

BootSpec == BootInit /\ [][BootNext]_allVars
-----------------------------------------------------------------------------
(* Servers and commands that bootstrap at the same time, whoever fails on the way, report
   one token done at most, and that one is in the table to stay.  An abandoned insert may
   leave a row besides, whose token nobody was given. *)
OneToken ==
  /\ \A t, u \in made : t = u
  /\ made \subseteq tokens

(* The inductive invariant, with AdvisoryLock's: a bootstrap that is about to insert
   holds the lock, and no token has been made since it looked. *)
BootInv ==
  /\ BootTypeOK
  /\ \A p \in Proc :
       /\ stage[p] \in {"check", "put"} => Boots(p) /\ pc[p] \in {"in", "ask", "query"}
       /\ minted[p] # None <=> stage[p] = "put"
       /\ stage[p] = "put" => made = {}
  /\ OneToken
=============================================================================
