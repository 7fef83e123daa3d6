---- MODULE MCAdvisoryLock ----
(* Two requests of one instance, with pools of one connection and a key each they may
   share. *)
EXTENDS AdvisoryLock

CONSTANTS p1, p2, i1, k1, k2, s1, s2, d1, d2

Procs == {p1, p2}
Instances == {i1}
Where == [p \in Procs |-> i1]
Keys == {k1, k2}
Ids == {d1, d2}
Hash == [k \in Keys |-> IF k = k1 THEN d1 ELSE d2]
Sessions == {s1, s2}
====
