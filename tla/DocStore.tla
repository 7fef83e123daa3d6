------------------------------ MODULE DocStore ------------------------------
(***************************************************************************)
(* The document service over one slug: DocService (doc.go) with the        *)
(* comment, asset and share-code writes that share its per-slug lock.      *)
(* Every store call is one step, so another handler, or an error return,   *)
(* can come between any two calls.  A handler keeps its locals in f[p].    *)
(*                                                                         *)
(* The HTML of a version, a comment event, a share code and an asset are   *)
(* members of small sets.  Titles, sizes, timestamps and URLs are left out.*)
(* The slug lock is taken as KeyedLock gives it (SlugLock, AdvisoryLock);  *)
(* "sessionLoss" in Faults drops it under a running handler.               *)
(***************************************************************************)
EXTENDS Naturals

CONSTANTS Proc,        \* request handlers
          Html, Code, Note, Sha,
          None,
          MaxVersion,  \* bound: highest version number a run can mint
          Explicit,    \* versions a client may name itself in POST /v1/docs
          Ops,         \* operations clients invoke
          Faults       \* subset of {"error", "silentDelete", "sessionLoss"}

AllOps == {"publish", "saveDraft", "promote", "remove", "share", "revoke",
           "comment", "wipe", "putAsset", "dropAsset"}

ASSUME VersionBound == MaxVersion \in Nat \ {0} /\ Explicit \subseteq 1..MaxVersion
ASSUME OpsKnown == Ops \subseteq AllOps
ASSUME NoneFresh == None \notin Html \cup Code \cup Note \cup Sha \cup Proc

Version == 1..MaxVersion
Meta == [versions : SUBSET Version, draft : BOOLEAN, share : Code \cup {None}]
ASSUME NoneNotMeta == None \notin Meta

VARIABLES blob,      \* blob[v]: HTML at <slug>/v<v>/index.html
          draft,     \* HTML at <slug>/draft/index.html
          bytes,     \* assets whose bytes are under <slug>/assets/
          meta,      \* the meta row, None if absent
          comments,  \* the comment events of the slug
          rows,      \* asset metadata rows
          owner,     \* who holds the slug lock
          pc, f,     \* each handler's position and locals
          lost       \* history: listed versions whose HTML an unfinished removal deleted

blobVars == <<blob, draft, bytes>>
metaVars == <<meta, comments, rows>>
vars == <<blobVars, metaVars, owner, pc, f, lost>>

\* The arguments and locals of one handler: explicit is the version the client named
\* (0: none), version the one resolveVersion settled on.
Frame == [op : AllOps \cup {"none"}, html : Html \cup {None}, explicit : 0..MaxVersion,
          version : 0..MaxVersion, code : Code \cup {None}, notes : SUBSET Note,
          sha : Sha \cup {None}, meta : Meta \cup {None}, read : SUBSET Note,
          todo : SUBSET Sha]
Blank == [op |-> "none", html |-> None, explicit |-> 0, version |-> 0, code |-> None,
          notes |-> {}, sha |-> None, meta |-> None, read |-> {}, todo |-> {}]

Init ==
  /\ blob = [v \in Version |-> None]
  /\ draft = None /\ bytes = {}
  /\ meta = None /\ comments = {} /\ rows = {}
  /\ owner = None
  /\ pc = [p \in Proc |-> "idle"]
  /\ f = [p \in Proc |-> Blank]
  /\ lost = {}
-----------------------------------------------------------------------------
\* Handler p stands at store call l; afterwards it stands at m.
Step(p, l, m) == pc[p] = l /\ pc' = [pc EXCEPT ![p] = m]

(* A request has passed validation and asks for the slug lock. *)
Request(p, r) ==
  /\ Step(p, "idle", "lock")
  /\ r.op \in Ops
  /\ f' = [f EXCEPT ![p] = r]
  /\ UNCHANGED <<blobVars, metaVars, owner, lost>>

\* The calls clients make, with the arguments that matter here.
Call(op, h, v, c, ns, s) ==
  [Blank EXCEPT !.op = op, !.html = h, !.explicit = v, !.code = c, !.notes = ns, !.sha = s]
Bare(op) == Call(op, None, 0, None, {}, None)

Publish(p) == \E h \in Html, v \in {0} \cup Explicit, ns \in SUBSET Note :
  Request(p, Call("publish", h, v, None, ns, None))
SaveDraft(p) == \E h \in Html : Request(p, Call("saveDraft", h, 0, None, {}, None))
Promote(p) == Request(p, Bare("promote"))
Remove(p) == Request(p, Bare("remove"))
GenerateCode(p) == \E c \in Code : Request(p, Call("share", None, 0, c, {}, None))
RevokeCode(p) == Request(p, Bare("revoke"))
Comment(p) == \E n \in Note : Request(p, Call("comment", None, 0, None, {n}, None))
WipeComments(p) == Request(p, Bare("wipe"))
PutAsset(p) == \E s \in Sha : Request(p, Call("putAsset", None, 0, None, {}, s))
DropAsset(p) == \E s \in Sha : Request(p, Call("dropAsset", None, 0, None, {}, s))

FirstStep(op) ==
  CASE op = "publish" -> "resolve"
    [] op = "saveDraft" -> "putDraft"
    [] op = "promote" -> "getDraft"
    [] op = "remove" -> "deleteDoc"
    [] op \in {"share", "revoke"} -> "readMeta"
    [] op = "comment" -> "readComments"
    [] op = "wipe" -> "wipe"
    [] op = "putAsset" -> "putBytes"
    [] op = "dropAsset" -> "dropBytes"

\* The service forgot to take the lock.
EnterUnlocked(p) ==
  /\ Step(p, "lock", FirstStep(f[p].op))
  /\ owner' = p
  /\ UNCHANGED <<blobVars, metaVars, f, lost>>

(* lock.With grants the slug lock and runs fn. *)
Enter(p) ==
  /\ Step(p, "lock", FirstStep(f[p].op))
  /\ owner = None
  /\ owner' = p
  /\ UNCHANGED <<blobVars, metaVars, f, lost>>

\* fn has returned: the lock is released and the frame dies with the response.
Leave(p) ==
  /\ pc' = [pc EXCEPT ![p] = "idle"]
  /\ f' = [f EXCEPT ![p] = Blank]
  /\ owner' = IF owner = p THEN None ELSE owner

(* fn returned a result or a refusal (404, lost write). *)
Reply(p) ==
  /\ pc[p] \in {"reply", "refuse"}
  /\ Leave(p)
  /\ UNCHANGED <<blobVars, metaVars, lost>>

(* A store call failed, the request was cancelled, or the process died: the calls
   already made stay made (a call that failed after taking effect is the error at
   the next one). *)
Fail(p) ==
  /\ "error" \in Faults
  /\ pc[p] \notin {"idle", "reply", "refuse"}
  /\ Leave(p)
  /\ UNCHANGED <<blobVars, metaVars, lost>>

(* The database session that carries the advisory lock dies; fn is not told. *)
LoseSession(p) ==
  /\ "sessionLoss" \in Faults
  /\ owner = p
  /\ owner' = None
  /\ UNCHANGED <<blobVars, metaVars, pc, f, lost>>
-----------------------------------------------------------------------------
\* The versions the meta row lists.
Listed == IF meta = None THEN {} ELSE meta.versions

\* One past the newest stored version.
IsNextVersion(v) ==
  \A w \in Version : /\ blob[w] # None => w < v
                     /\ w = v - 1 => blob[w] # None

\* The next number is taken from the metadata list instead of the stored blobs.
ResolveFromMeta(p) ==
  /\ Step(p, "resolve", "putDoc")
  /\ \E v \in Version :
       /\ IF f[p].explicit = 0 THEN \A w \in Version : /\ w \in Listed => w < v
                                               /\ w = v - 1 => w \in Listed
                       ELSE v = f[p].explicit
       /\ f' = [f EXCEPT ![p].version = v]
  /\ UNCHANGED <<blobVars, metaVars, owner, lost>>

\* The new version is listed, and only then would its HTML be stored.
ResolveAndList(p) ==
  /\ Step(p, "resolve", "readMeta")
  /\ \E v \in Version :
       /\ IF f[p].explicit = 0 THEN IsNextVersion(v) ELSE v = f[p].explicit
       /\ f' = [f EXCEPT ![p].version = v]
  /\ UNCHANGED <<blobVars, metaVars, owner, lost>>

(* resolveVersion: the version the client named, else max(blobs.ListVersions)+1. *)
ResolveVersion(p) ==
  /\ Step(p, "resolve", "putDoc")
  /\ \E v \in Version :
       /\ IF f[p].explicit = 0 THEN IsNextVersion(v) ELSE v = f[p].explicit
       /\ f' = [f EXCEPT ![p].version = v]
  /\ UNCHANGED <<blobVars, metaVars, owner, lost>>

\* Bound: with MaxVersion stored the run mints no further version.
VersionsExhausted(p) ==
  /\ Step(p, "resolve", "refuse")
  /\ f[p].explicit = 0 /\ \A v \in Version : ~IsNextVersion(v)
  /\ UNCHANGED <<blobVars, metaVars, owner, f, lost>>

(* blobs.PutDoc. *)
PutDoc(p) ==
  /\ Step(p, "putDoc", "headDoc")
  /\ blob' = [blob EXCEPT ![f[p].version] = f[p].html]
  /\ lost' = lost \ {f[p].version}
  /\ UNCHANGED <<draft, bytes, metaVars, owner, f>>

(* blobs.HeadDoc: a write that did not persist is refused. *)
HeadDoc(p) ==
  /\ Step(p, "headDoc", IF blob[f[p].version] = None THEN "refuse" ELSE "readMeta")
  /\ UNCHANGED <<blobVars, metaVars, owner, f, lost>>

(* meta.GetMeta, as upsertMeta, setDraftMeta, GenerateCode and RevokeCode make it.
   Without a row a share code cannot be made or revoked; without a code revoking
   is done. *)
AfterReadMeta(p) ==
  CASE f[p].op \in {"share", "revoke"} /\ meta = None -> "refuse"
    [] f[p].op = "revoke" /\ meta # None /\ meta.share = None -> "reply"
    [] OTHER -> "writeMeta"

ReadMeta(p) ==
  /\ Step(p, "readMeta", AfterReadMeta(p))
  /\ f' = [f EXCEPT ![p].meta = meta]
  /\ UNCHANGED <<blobVars, metaVars, owner, lost>>

\* The row a handler writes back is computed from the copy it read.
NewMeta == [versions |-> {}, draft |-> FALSE, share |-> None]
Copy(p) == IF f[p].meta = None THEN NewMeta ELSE f[p].meta

\* upsertMeta rebuilt the row without carrying Extra over.
UpsertMetaDropsExtra(p) ==
  /\ f[p].op \in {"publish", "promote"}
  /\ Step(p, "writeMeta", "readComments")
  /\ meta' = [NewMeta EXCEPT !.versions = Copy(p).versions \cup {f[p].version}]
  /\ UNCHANGED <<blobVars, comments, rows, owner, f, lost>>

\* upsertMeta lists a version only if it is newer than every listed one.
UpsertMetaOnlyNewest(p) ==
  /\ f[p].op \in {"publish", "promote"}
  /\ Step(p, "writeMeta", "readComments")
  /\ meta' = [Copy(p) EXCEPT !.versions =
                 @ \cup {v \in {f[p].version} : \A w \in @ : w < v}]
  /\ UNCHANGED <<blobVars, comments, rows, owner, f, lost>>

(* upsertMeta's PutMeta: the version is listed, Extra (draft, share) is carried over. *)
UpsertMeta(p) ==
  /\ f[p].op \in {"publish", "promote"}
  /\ Step(p, "writeMeta", "readComments")
  /\ meta' = [Copy(p) EXCEPT !.versions = @ \cup {f[p].version}]
  /\ UNCHANGED <<blobVars, comments, rows, owner, f, lost>>

(* setDraftMeta's PutMeta. *)
SetDraftMeta(p) ==
  /\ f[p].op = "saveDraft"
  /\ Step(p, "writeMeta", "reply")
  /\ meta' = [Copy(p) EXCEPT !.draft = TRUE]
  /\ UNCHANGED <<blobVars, comments, rows, owner, f, lost>>

(* GenerateCode's PutMeta: the new code's hash replaces the old one. *)
StoreCode(p) ==
  /\ f[p].op = "share"
  /\ Step(p, "writeMeta", "reply")
  /\ meta' = [Copy(p) EXCEPT !.share = f[p].code]
  /\ UNCHANGED <<blobVars, comments, rows, owner, f, lost>>

(* RevokeCode's PutMeta. *)
DropCode(p) ==
  /\ f[p].op = "revoke"
  /\ Step(p, "writeMeta", "reply")
  /\ meta' = [Copy(p) EXCEPT !.share = None]
  /\ UNCHANGED <<blobVars, comments, rows, owner, f, lost>>

(* applyOp's GetComments. *)
ReadComments(p) ==
  /\ Step(p, "readComments", "writeComments")
  /\ f' = [f EXCEPT ![p].read = comments]
  /\ UNCHANGED <<blobVars, metaVars, owner, lost>>

(* applyOp's PutComments: the list read, with the comment or the local comments of a
   publish added.  A promote still has its draft to clear. *)
WriteComments(p) ==
  /\ Step(p, "writeComments", IF f[p].op = "promote" THEN "clearDraft" ELSE "reply")
  /\ comments' = f[p].read \cup f[p].notes
  /\ UNCHANGED <<blobVars, meta, rows, owner, f, lost>>
-----------------------------------------------------------------------------
(* SaveDraft's blobs.PutDraft. *)
PutDraft(p) ==
  /\ Step(p, "putDraft", "readMeta")
  /\ draft' = f[p].html
  /\ UNCHANGED <<blob, bytes, metaVars, owner, f, lost>>

\* The draft slot is emptied before the new version is stored.
GetDraftAndClear(p) ==
  /\ Step(p, "getDraft", IF draft = None THEN "refuse" ELSE "resolve")
  /\ f' = [f EXCEPT ![p].html = draft]
  /\ draft' = None
  /\ UNCHANGED <<blob, bytes, metaVars, owner, lost>>

(* Promote's blobs.GetDraft; no draft is a 404. *)
GetDraft(p) ==
  /\ Step(p, "getDraft", IF draft = None THEN "refuse" ELSE "resolve")
  /\ f' = [f EXCEPT ![p].html = draft]
  /\ UNCHANGED <<blobVars, metaVars, owner, lost>>

\* A best-effort call whose error is only logged may have had no effect.
Swallows == "error" \in Faults

(* Promote's blobs.DeleteDraft, after the version is committed. *)
ClearDraft(p) ==
  /\ Step(p, "clearDraft", "readMarker")
  /\ draft' = None \/ (Swallows /\ draft' = draft)
  /\ UNCHANGED <<blob, bytes, metaVars, owner, f, lost>>

(* clearDraftMeta's GetMeta: an error, no row or no marker ends the promote. *)
ReadMarker(p) ==
  /\ \/ Step(p, "readMarker", "clearMarker") /\ meta # None /\ meta.draft
        /\ f' = [f EXCEPT ![p].meta = meta]
     \/ Step(p, "readMarker", "reply") /\ (Swallows \/ meta = None \/ ~meta.draft)
        /\ UNCHANGED f
  /\ UNCHANGED <<blobVars, metaVars, owner, lost>>

(* clearDraftMeta's PutMeta. *)
ClearMarker(p) ==
  /\ Step(p, "clearMarker", "reply")
  /\ meta' = [Copy(p) EXCEPT !.draft = FALSE] \/ (Swallows /\ meta' = meta)
  /\ UNCHANGED <<blobVars, comments, rows, owner, f, lost>>

-----------------------------------------------------------------------------
\* The objects under the slug's prefix after a sweep that left the versions vs, the
\* assets as and, if dr, the draft.
Sweep(vs, as, dr) ==
  /\ blob' = [v \in Version |-> IF v \in vs THEN blob[v] ELSE None]
  /\ bytes' = bytes \cap as
  /\ draft' = IF dr THEN draft ELSE None
  /\ lost' = lost \cup (Listed \ vs)
  /\ UNCHANGED metaVars

(* Remove's blobs.DeleteDoc: versions, draft and asset bytes share one prefix.
   DeleteObjects reports a failure per key, which DeleteDoc does not read. *)
DeleteDoc(p) ==
  /\ Step(p, "deleteDoc", "listRows")
  /\ \E vs \in SUBSET Version, as \in SUBSET Sha, dr \in BOOLEAN :
       /\ (vs # {} \/ as # {} \/ dr) => "silentDelete" \in Faults
       /\ Sweep(vs, as, dr)
  /\ UNCHANGED <<owner, f>>

(* DeleteDoc stops part of the way: Remove returns the error. *)
DeleteDocFails(p) ==
  /\ "error" \in Faults
  /\ pc[p] = "deleteDoc"
  /\ Leave(p)
  /\ \E vs \in SUBSET Version, as \in SUBSET Sha, dr \in BOOLEAN : Sweep(vs, as, dr)

(* Remove's meta.ListAssetMeta. *)
ListAssetRows(p) ==
  /\ Step(p, "listRows", "deleteRows")
  /\ f' = [f EXCEPT ![p].todo = rows]
  /\ UNCHANGED <<blobVars, metaVars, owner, lost>>

(* Remove's DeleteAssetMeta, one row at a time. *)
DeleteAssetRow(p) ==
  /\ pc[p] = "deleteRows"
  /\ \E s \in f[p].todo :
       /\ rows' = rows \ {s}
       /\ f' = [f EXCEPT ![p].todo = @ \ {s}]
  /\ UNCHANGED <<blobVars, meta, comments, owner, pc, lost>>

\* Remove forgets the asset rows, whose bytes are gone with the prefix.
DeleteMetaEarly(p) ==
  /\ Step(p, "deleteRows", "wipe")
  /\ meta' = None
  /\ lost' = {}
  /\ UNCHANGED <<blobVars, comments, rows, owner, f>>

\* Remove then calls Wipe, which takes the lock Remove still holds.
DeleteMetaThenRelock(p) ==
  /\ Step(p, "deleteRows", "lock")
  /\ f[p].todo = {}
  /\ meta' = None
  /\ lost' = {}
  /\ f' = [f EXCEPT ![p] = [Blank EXCEPT !.op = "wipe"]]
  /\ UNCHANGED <<blobVars, comments, rows, owner>>

(* Remove's meta.DeleteMeta, once the listed rows are gone. *)
DeleteMeta(p) ==
  /\ Step(p, "deleteRows", "wipe")
  /\ f[p].todo = {}
  /\ meta' = None
  /\ lost' = {}
  /\ UNCHANGED <<blobVars, comments, rows, owner, f>>

(* A wipe op: GetComments only counts, DeleteComments drops the row. *)
Wipe(p) ==
  /\ Step(p, "wipe", "reply")
  /\ comments' = {}
  /\ UNCHANGED <<blobVars, meta, rows, owner, f, lost>>

(* AssetService.Put: bytes first, then the row. *)
PutAssetBytes(p) ==
  /\ Step(p, "putBytes", "putRow")
  /\ bytes' = bytes \cup {f[p].sha}
  /\ UNCHANGED <<blob, draft, metaVars, owner, f, lost>>

PutAssetRow(p) ==
  /\ Step(p, "putRow", "reply")
  /\ rows' = rows \cup {f[p].sha}
  /\ UNCHANGED <<blobVars, meta, comments, owner, f, lost>>

(* deleteLocked: bytes first, then the row. *)
DropAssetBytes(p) ==
  /\ Step(p, "dropBytes", "dropRow")
  /\ bytes' = bytes \ {f[p].sha}
  /\ UNCHANGED <<blob, draft, metaVars, owner, f, lost>>

DropAssetRow(p) ==
  /\ Step(p, "dropRow", "reply")
  /\ rows' = rows \ {f[p].sha}
  /\ UNCHANGED <<blobVars, meta, comments, owner, f, lost>>
-----------------------------------------------------------------------------
Publishing(p) ==
  \/ ResolveVersion(p) \/ VersionsExhausted(p) \/ PutDoc(p) \/ HeadDoc(p)
  \/ ReadComments(p) \/ WriteComments(p)
Metadata(p) ==
  ReadMeta(p) \/ UpsertMeta(p) \/ SetDraftMeta(p) \/ StoreCode(p) \/ DropCode(p)
Drafting(p) ==
  PutDraft(p) \/ GetDraft(p) \/ ClearDraft(p) \/ ReadMarker(p) \/ ClearMarker(p)
Removing(p) ==
  \/ DeleteDoc(p) \/ DeleteDocFails(p) \/ ListAssetRows(p) \/ DeleteAssetRow(p)
  \/ DeleteMeta(p) \/ Wipe(p)
Assets(p) ==
  PutAssetBytes(p) \/ PutAssetRow(p) \/ DropAssetBytes(p) \/ DropAssetRow(p)

Arrivals(p) ==
  \/ Publish(p) \/ SaveDraft(p) \/ Promote(p) \/ Remove(p) \/ GenerateCode(p)
  \/ RevokeCode(p) \/ Comment(p) \/ WipeComments(p) \/ PutAsset(p) \/ DropAsset(p)

Work(p) == Publishing(p) \/ Metadata(p) \/ Drafting(p) \/ Removing(p) \/ Assets(p) \/ Reply(p)

Next == \E p \in Proc :
  \/ Arrivals(p)
  \/ Enter(p)
  \/ Work(p)
  \/ Fail(p)
  \/ LoseSession(p)

Spec == Init /\ [][Next]_vars

(***************************************************************************)
(* A running handler takes its next step; a waiting one is granted the     *)
(* lock if it is free again and again (the lock's queue is first come,     *)
(* first served).  Clients owe nothing and faults need not happen.         *)
(***************************************************************************)
FairSpec == Spec /\ \A p \in Proc : WF_vars(Work(p)) /\ SF_vars(Enter(p))

-----------------------------------------------------------------------------
Label == {"idle", "lock", "reply", "refuse", "resolve", "putDoc", "headDoc", "readMeta",
          "writeMeta", "readComments", "writeComments", "putDraft", "getDraft",
          "clearDraft", "readMarker", "clearMarker", "deleteDoc", "listRows",
          "deleteRows", "wipe", "putBytes", "putRow", "dropBytes", "dropRow"}

(* Every variable, and every handler's locals, range over the values the code can hold. *)
TypeOK ==
  /\ blob \in [Version -> Html \cup {None}]
  /\ draft \in Html \cup {None} /\ bytes \in SUBSET Sha
  /\ meta \in Meta \cup {None} /\ comments \in SUBSET Note /\ rows \in SUBSET Sha
  /\ owner \in Proc \cup {None}
  /\ pc \in [Proc -> Label]
  /\ f \in [Proc -> Frame]
  /\ lost \in SUBSET Version

Commits(p) == f[p].op \in {"publish", "promote"}
PastLock == Label \ {"idle", "lock"}
AfterPut == {"headDoc", "readMeta", "writeMeta", "readComments", "writeComments",
             "clearDraft", "readMarker", "clearMarker", "reply"}
AfterList == {"readComments", "writeComments", "clearDraft", "readMarker", "clearMarker", "reply"}
AfterMerge == {"clearDraft", "readMarker", "clearMarker", "reply"}
HoldsDraft == {"resolve", "putDoc", "headDoc", "readMeta", "writeMeta", "readComments",
               "writeComments", "clearDraft"}

\* Which operation stands at which store call.
OpAt(p) ==
  /\ pc[p] # "idle" => f[p].op # "none"
  /\ pc[p] \in {"resolve", "putDoc", "headDoc"} => Commits(p)
  /\ pc[p] \in {"readMeta", "writeMeta"} => Commits(p) \/ f[p].op \in {"saveDraft", "share", "revoke"}
  /\ pc[p] \in {"readComments", "writeComments"} => Commits(p) \/ f[p].op = "comment"
  /\ pc[p] \in {"getDraft", "clearDraft", "readMarker", "clearMarker"} => f[p].op = "promote"
  /\ pc[p] \in {"deleteDoc", "listRows", "deleteRows"} => f[p].op = "remove"
  /\ pc[p] = "wipe" => f[p].op \in {"remove", "wipe"}
  /\ pc[p] = "putDraft" => f[p].op = "saveDraft"
  /\ pc[p] \in {"putBytes", "putRow"} => f[p].op = "putAsset"
  /\ pc[p] \in {"dropBytes", "dropRow"} => f[p].op = "dropAsset"

\* The arguments an operation carries.
Arguments(p) ==
  /\ f[p].op = "publish" => f[p].html \in Html
  /\ f[p].op = "saveDraft" => f[p].html \in Html
  /\ f[p].op = "share" => f[p].code \in Code
  /\ f[p].op \in {"putAsset", "dropAsset"} => f[p].sha \in Sha
  /\ f[p].explicit # 0 => f[p].op = "publish" /\ f[p].explicit \in Explicit

\* What a handler between two store calls relies on.
CopyCurrent(p) ==
  /\ pc[p] \in {"writeMeta", "clearMarker"} => f[p].meta = meta
  /\ pc[p] = "writeMeta" /\ f[p].op \in {"share", "revoke"} => meta # None
  /\ pc[p] = "clearMarker" => meta # None
  /\ pc[p] = "writeComments" => f[p].read = comments
  /\ pc[p] = "deleteRows" => f[p].todo = rows
NumberFresh(p) == pc[p] = "putDoc" =>
  IF f[p].explicit = 0 THEN IsNextVersion(f[p].version) ELSE f[p].version = f[p].explicit
Committing(p) == Commits(p) =>
  /\ pc[p] \in {"putDoc"} \cup AfterPut => f[p].version \in Version /\ f[p].html \in Html
  /\ pc[p] \in AfterPut => blob[f[p].version] = f[p].html
  /\ pc[p] \in AfterList => f[p].version \in Listed
  /\ pc[p] \in AfterMerge => f[p].notes \subseteq comments
  /\ f[p].op = "promote" /\ pc[p] \in HoldsDraft => draft = f[p].html /\ draft # None
Erasing(p) == f[p].op = "remove" =>
  /\ pc[p] \in {"listRows", "deleteRows", "wipe", "reply"} =>
       draft = None /\ bytes = {} /\ \A v \in Version : blob[v] = None
  /\ pc[p] \in {"wipe", "reply"} => meta = None /\ rows = {}
  /\ pc[p] = "reply" => comments = {}
Storing(p) ==
  /\ pc[p] = "putRow" => f[p].sha \in bytes
  /\ pc[p] = "dropRow" => f[p].sha \notin bytes
  /\ pc[p] = "reply" /\ f[p].op = "comment" => f[p].notes \subseteq comments

\* All that holds of one handler.
Local(p) == /\ OpAt(p) /\ Arguments(p) /\ CopyCurrent(p) /\ NumberFresh(p)
            /\ Committing(p) /\ Erasing(p) /\ Storing(p)

\* The stores may fail a call, but lose no session and hide no failed delete.
Reliable == Faults \subseteq {"error"}

LockHeld == \A p \in Proc : pc[p] \in PastLock <=> owner = p

(* The version list never names a version whose HTML is missing, save those an
   unfinished removal deleted (Remove drops the objects before the row). *)
ListedHaveBlobs == \A v \in Listed : blob[v] # None \/ v \in lost

(* The inductive invariant: the lock is held exactly by the handler inside, whose
   copies are therefore current and whose earlier writes still stand. *)
IInv ==
  /\ TypeOK
  /\ LockHeld
  /\ ListedHaveBlobs
  /\ \A p \in Proc : Local(p)

(* When publish or promote answers 201, that version holds the HTML that was sent and
   is listed; and whoever sent comments finds them in the comment list. *)
AnsweredIsCommitted == \A p \in Proc : pc[p] = "reply" =>
  /\ Commits(p) => blob[f[p].version] = f[p].html /\ f[p].version \in Listed
  /\ Commits(p) \/ f[p].op = "comment" => f[p].notes \subseteq comments

(* When a removal answers, every store has forgotten the slug, whatever earlier
   failed removals, uploads and publishes left behind. *)
RemoveLeavesNothing == \A p \in Proc : f[p].op = "remove" /\ pc[p] = "reply" =>
  /\ \A v \in Version : blob[v] = None
  /\ draft = None /\ bytes = {} /\ rows = {} /\ meta = None /\ comments = {}

\* Handler p writes the HTML of a version in this step.
Writes(p) == pc[p] = "putDoc" /\ pc'[p] = "headDoc"

(* A publish that leaves the version to the server, and every promote, writes a
   number no stored version has: HTML is write-once unless a client names the version. *)
AutoNeverOverwrites ==
  [][\A p \in Proc : Writes(p) /\ f[p].explicit = 0 => blob[f[p].version] = None]_vars

(* A draft disappears only once a listed version holds its HTML, or with the document. *)
DraftClearedOnlyWhenPublished ==
  [][draft # None /\ draft' = None =>
       \/ \E v \in Listed : blob[v] = draft
       \/ \E p \in Proc : pc[p] = "deleteDoc"]_vars

(* While the row stands, only share and revoke change the share code: a revoked code
   never comes back through another handler's stale copy of the row. *)
CodeChangedOnlyByItsHandlers ==
  [][meta # None /\ meta' # None /\ meta'.share # meta.share =>
       \E p \in Proc : /\ f[p].op \in {"share", "revoke"}
                       /\ pc[p] = "writeMeta" /\ pc'[p] = "reply"]_vars

(* Every request is answered: the lock is always handed on. *)
Answered == \A p \in Proc : pc[p] = "lock" ~> pc[p] = "idle"

Abstract == INSTANCE DocRecord
(* Each store call is one whole step of DocRecord, or changes none of its state. *)
ImplementsDocRecord == Abstract!Spec
=============================================================================
