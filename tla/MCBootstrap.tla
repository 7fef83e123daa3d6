---- MODULE MCBootstrap ----
(* Two instances with pools of one connection; p1 and p2 share the pools of the first.
   k1 is the bootstrap's key and hashes to the same id as k2.  Sessions beyond one per
   request are there for closed ones the server still holds, a second token to be minted
   by mistake.  Deployed is one instance with two requests. *)
EXTENDS Bootstrap, TLC

CONSTANTS p1, p2, p3, i1, i2, k1, k2, k3, s1, s2, s3, d1, d2, t1, t2

Procs == {p1, p2, p3}
Instances == {i1, i2}
Where == [p \in Procs |-> IF p = p3 THEN i2 ELSE i1]
Pair == {p1, p2}
Deployed == {i1}
Together == [p \in Pair |-> i1]
Keys == {k1, k2, k3}
Ids == {d1, d2}
Hash == [k \in Keys |-> IF k = k3 THEN d2 ELSE d1]
Sessions == {s1, s2, s3}
Tokens == {t1, t2}
Symmetric == Permutations(Sessions) \cup Permutations(Tokens)
====
