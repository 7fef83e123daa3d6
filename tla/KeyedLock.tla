----------------------------- MODULE KeyedLock -----------------------------
(***************************************************************************)
(* What sluglock.Locker promises its callers: With(key, fn) runs fn while  *)
(* no other fn runs under the same key.  A caller asks for a key, enters   *)
(* once nobody is inside with that key, and leaves; a caller that has not  *)
(* entered may give up (its context was cancelled).  Nothing here says how *)
(* the keys are kept: SlugLock and AdvisoryLock are shown to implement it. *)
(***************************************************************************)
CONSTANTS Proc,    \* callers of With: one per request in flight
          Key      \* lock keys: slugs and the bootstrap sentinel

VARIABLES phase,   \* phase[p]: "out", "asking" or "inside"
          want     \* want[p]: the key p last asked for

vars == <<phase, want>>

Init ==
  /\ phase = [p \in Proc |-> "out"]
  /\ want \in [Proc -> Key]

Ask(p, k) ==
  /\ phase[p] = "out"
  /\ phase' = [phase EXCEPT ![p] = "asking"]
  /\ want' = [want EXCEPT ![p] = k]

Enter(p) ==
  /\ phase[p] = "asking"
  /\ \A q \in Proc : phase[q] = "inside" => want[q] # want[p]
  /\ phase' = [phase EXCEPT ![p] = "inside"]
  /\ UNCHANGED want

GiveUp(p) ==
  /\ phase[p] = "asking"
  /\ phase' = [phase EXCEPT ![p] = "out"]
  /\ UNCHANGED want

Leave(p) ==
  /\ phase[p] = "inside"
  /\ phase' = [phase EXCEPT ![p] = "out"]
  /\ UNCHANGED want

Next == \E p \in Proc :
  \/ \E k \in Key : Ask(p, k)
  \/ Enter(p)
  \/ GiveUp(p)
  \/ Leave(p)

Spec == Init /\ [][Next]_vars
=============================================================================
