---- MODULE MCDocStore ----
(* Instances of DocStore for TLC.  Two handlers are enough for any one handler to
   be overtaken between two of its store calls; the third state a handler can meet,
   what an earlier failed call left behind, comes from runs of many calls. *)
EXTENDS DocStore, TLC

CONSTANTS p1, p2, h1, h2, c1, n1, s1

Handlers == {p1, p2}
Symmetric == Permutations(Handlers)
OneHtml == {h1}
TwoHtml == {h1, h2}
OneCode == {c1}
OneNote == {n1}
OneSha == {s1}
ClientVersions == {2}

Versioning == {"publish", "saveDraft", "promote", "remove"}
Records == {"publish", "share", "revoke", "comment", "wipe", "putAsset", "dropAsset", "remove"}
Publishes == {"publish", "share"}
====
