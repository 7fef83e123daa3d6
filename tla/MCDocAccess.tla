---- MODULE MCDocAccess ----
(* DocAccess for TLC: one handler and one viewer, whose steps interleave, and two codes, so
   that one of them is old. *)
EXTENDS DocAccess, TLC

CONSTANTS p1, w1, h1, c1, c2

OneHandler == {p1}
Viewers == {w1}
OneHtml == {h1}
Codes == {c1, c2}
AnyCode == Permutations(Codes)
Sharing == {"publish", "share", "remove"}
====
