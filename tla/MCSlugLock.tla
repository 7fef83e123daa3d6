---- MODULE MCSlugLock ----
(* An instance of SlugLock for TLC: three goroutines contend for two keys; three
   heap entries are as many as three goroutines can hold pointers to at once. *)
EXTENDS SlugLock

CONSTANTS p1, p2, p3, k1, k2, e1, e2, e3

Procs == {p1, p2, p3}
Keys == {k1, k2}
Entries == {e1, e2, e3}
====
