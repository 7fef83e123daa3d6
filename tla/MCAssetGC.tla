------------------------------ MODULE MCAssetGC ------------------------------
(* Instances of AssetGC for TLC.  Addresses have two digits instead of 64.  Asset 01 is
   uploaded to slug a.  "late" refers to it behind an odd digit, as behind a git sha;
   "dump" is a run beyond maxSlideRun, which refers to nothing. *)
EXTENDS AssetGC

CONSTANTS a, b, late, dump

Slugs == {a, b}
Owner == {a}
Texts2 == {late, dump}
Runs == [h \in Texts2 |-> IF h = late THEN {<<0, 0, 1>>} ELSE {<<1>>, <<1, 0, 1, 1, 1>>}]
Address == {<<0, 1>>}
FirstVersion == {1}
=============================================================================
