----------------------------- MODULE DocRecord -----------------------------
(***************************************************************************)
(* What the stores of one slug promise when each operation is taken as a   *)
(* whole: a version is appended right after the newest one, every change   *)
(* of the metadata record touches one field of the record as it is now,    *)
(* a version is listed only once its HTML is stored, and a draft is        *)
(* cleared only after its HTML became a version.  DocStore, whose handlers *)
(* read, compute and write in separate calls, is shown to implement it.    *)
(***************************************************************************)
EXTENDS Naturals

CONSTANTS Html, Code, Note, Sha, None, MaxVersion, Explicit

VARIABLES blob, draft, bytes, meta, comments, rows

vars == <<blob, draft, bytes, meta, comments, rows>>
blobVars == <<blob, draft, bytes>>
metaVars == <<meta, comments, rows>>

Version == 1..MaxVersion
NewMeta == [versions |-> {}, draft |-> FALSE, share |-> None]
Current == IF meta = None THEN NewMeta ELSE meta

Init ==
  /\ blob = [v \in Version |-> None]
  /\ draft = None /\ bytes = {}
  /\ meta = None /\ comments = {} /\ rows = {}

\* v is one past the newest stored version: an append, never an overwrite.
Append(v, h) ==
  /\ \A w \in Version : /\ blob[w] # None => w < v
                        /\ w = v - 1 => blob[w] # None
  /\ blob' = [blob EXCEPT ![v] = h]
  /\ UNCHANGED <<draft, bytes, metaVars>>

\* A client named the version: it may replace HTML that is already there.
Replace(v, h) ==
  /\ v \in Explicit
  /\ blob' = [blob EXCEPT ![v] = h]
  /\ UNCHANGED <<draft, bytes, metaVars>>

ListVersion(v) ==
  /\ blob[v] # None
  /\ meta' = [Current EXCEPT !.versions = @ \cup {v}]
  /\ UNCHANGED <<blobVars, comments, rows>>

SaveDraft(h) ==
  /\ draft' = h
  /\ UNCHANGED <<blob, bytes, metaVars>>

ClearDraft ==
  /\ \E v \in Current.versions : blob[v] = draft
  /\ draft' = None
  /\ UNCHANGED <<blob, bytes, metaVars>>

MarkDraft(b) ==
  /\ meta' = [Current EXCEPT !.draft = b]
  /\ UNCHANGED <<blobVars, comments, rows>>

SetShare(c) ==
  /\ meta # None
  /\ meta' = [meta EXCEPT !.share = c]
  /\ UNCHANGED <<blobVars, comments, rows>>

AddComments(ns) ==
  /\ comments' = comments \cup ns
  /\ UNCHANGED <<blobVars, meta, rows>>

WipeComments ==
  /\ comments' = {}
  /\ UNCHANGED <<blobVars, meta, rows>>

PutBytes(s) == bytes' = bytes \cup {s} /\ UNCHANGED <<blob, draft, metaVars>>
PutRow(s) == s \in bytes /\ rows' = rows \cup {s} /\ UNCHANGED <<blobVars, meta, comments>>
DropBytes(s) == bytes' = bytes \ {s} /\ UNCHANGED <<blob, draft, metaVars>>
DropRow(s) == s \notin bytes /\ rows' = rows \ {s} /\ UNCHANGED <<blobVars, meta, comments>>

\* Removing the document may stop after any number of objects.
Erase ==
  /\ blob' \in [Version -> Html \cup {None}]
  /\ \A v \in Version : blob'[v] \in {blob[v], None}
  /\ draft' \in {draft, None}
  /\ bytes' \subseteq bytes
  /\ UNCHANGED metaVars

DropMeta == meta' = None /\ UNCHANGED <<blobVars, comments, rows>>

Next ==
  \/ \E v \in Version, h \in Html : Append(v, h) \/ Replace(v, h)
  \/ \E v \in Version : ListVersion(v)
  \/ \E h \in Html : SaveDraft(h)
  \/ ClearDraft
  \/ \E b \in BOOLEAN : MarkDraft(b)
  \/ \E c \in Code \cup {None} : SetShare(c)
  \/ \E ns \in SUBSET Note : AddComments(ns)
  \/ WipeComments
  \/ \E s \in Sha : PutBytes(s) \/ PutRow(s) \/ DropBytes(s) \/ DropRow(s)
  \/ Erase
  \/ DropMeta

Spec == Init /\ [][Next]_vars
=============================================================================
