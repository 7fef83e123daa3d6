--------------------------- MODULE DocStore_proofs ---------------------------
(***************************************************************************)
(* Proofs about DocStore.  The lock makes each handler the only one past   *)
(* it (LockHeld), so a step of one handler leaves what the others rely on  *)
(* alone (OnlyOneMoves); what remains, per action, is its own handler.     *)
(***************************************************************************)
EXTENDS DocStore, TLAPS

-----------------------------------------------------------------------------
LEMMA BlankTyped == Blank \in Frame /\ Blank.explicit = 0
BY VersionBound DEF Blank, Frame, AllOps

\* The arguments of r suit its operation.
WellFormed(r) ==
  /\ r \in Frame
  /\ r.op # "none"
  /\ r.op \in {"publish", "saveDraft"} => r.html \in Html
  /\ r.op = "share" => r.code \in Code
  /\ r.op \in {"putAsset", "dropAsset"} => r.sha \in Sha
  /\ r.explicit # 0 => r.op = "publish" /\ r.explicit \in Explicit

LEMMA CallWellFormed ==
  ASSUME NEW op \in AllOps, NEW h \in Html \cup {None}, NEW v \in {0} \cup Explicit,
         NEW c \in Code \cup {None}, NEW ns \in SUBSET Note, NEW s \in Sha \cup {None},
         op \in {"publish", "saveDraft"} => h \in Html,
         op = "share" => c \in Code,
         op \in {"putAsset", "dropAsset"} => s \in Sha,
         v # 0 => op = "publish"
  PROVE  WellFormed(Call(op, h, v, c, ns, s))
<1> DEFINE r == Call(op, h, v, c, ns, s)
<1>1. v \in 0..MaxVersion
  BY VersionBound
<1>2. r \in Frame /\ r.op = op /\ r.html = h /\ r.explicit = v /\ r.code = c /\ r.sha = s
  BY <1>1, BlankTyped DEF Call, Frame
<1> HIDE DEF r
<1>3. WellFormed(r)
  BY <1>2 DEF WellFormed, AllOps
<1> QED
  BY <1>3 DEF r

LEMMA RequestWellFormed ==
  ASSUME NEW p \in Proc, Arrivals(p)
  PROVE  \E r : WellFormed(r) /\ Request(p, r)
<1>1. CASE Publish(p)
  <2>1. PICK h \in Html, v \in {0} \cup Explicit, ns \in SUBSET Note :
          Request(p, Call("publish", h, v, None, ns, None))
    BY <1>1, Zenon DEF Publish
  <2>2. WellFormed(Call("publish", h, v, None, ns, None))
    BY CallWellFormed DEF AllOps
  <2> QED
    BY <2>1, <2>2, Zenon
<1>2. CASE SaveDraft(p)
  <2>1. PICK h \in Html : Request(p, Call("saveDraft", h, 0, None, {}, None))
    BY <1>2, Zenon DEF SaveDraft
  <2>2. WellFormed(Call("saveDraft", h, 0, None, {}, None))
    BY CallWellFormed DEF AllOps
  <2> QED
    BY <2>1, <2>2, Zenon
<1>3. CASE Promote(p) \/ Remove(p) \/ RevokeCode(p) \/ WipeComments(p)
  <2>1. \A op \in {"promote", "remove", "revoke", "wipe"} : WellFormed(Bare(op))
    BY CallWellFormed DEF AllOps, Bare
  <2> QED
    BY <1>3, <2>1, Zenon DEF Promote, Remove, RevokeCode, WipeComments
<1>4. CASE GenerateCode(p)
  <2>1. \A c \in Code : WellFormed(Call("share", None, 0, c, {}, None))
    BY CallWellFormed DEF AllOps
  <2> QED
    BY <1>4, <2>1, Zenon DEF GenerateCode
<1>5. CASE Comment(p)
  <2>1. \A n \in Note : WellFormed(Call("comment", None, 0, None, {n}, None))
    BY CallWellFormed DEF AllOps
  <2> QED
    BY <1>5, <2>1, Zenon DEF Comment
<1>6. CASE PutAsset(p) \/ DropAsset(p)
  <2>1. \A op \in {"putAsset", "dropAsset"}, s \in Sha :
          WellFormed(Call(op, None, 0, None, {}, s))
    BY CallWellFormed DEF AllOps
  <2> QED
    BY <1>6, <2>1, Zenon DEF PutAsset, DropAsset
<1> QED
  BY <1>1, <1>2, <1>3, <1>4, <1>5, <1>6 DEF Arrivals

(* In the initial state nothing is stored and nobody runs. *)
LEMMA InitIInv == Init => IInv
<1> SUFFICES ASSUME Init PROVE IInv
  OBVIOUS
<1>1. TypeOK
  BY VersionBound, BlankTyped DEF Init, TypeOK, Label, Version, Meta
<1>2. LockHeld
  BY NoneFresh DEF Init, LockHeld, PastLock, Label
<1>3. ListedHaveBlobs
  BY DEF Init, ListedHaveBlobs, Listed
<1>4. ASSUME NEW p \in Proc PROVE Local(p)
  BY DEF Init, Local, OpAt, Arguments, CopyCurrent, NumberFresh, Committing, Erasing,
     Storing, Commits, Blank, AfterPut, AfterList, AfterMerge, HoldsDraft
<1> QED
  BY <1>1, <1>2, <1>3, <1>4 DEF IInv

(* The handler past the lock is the only one; whatever it does, a handler before the
   lock still relies on nothing. *)
LEMMA OnlyOneMoves ==
  ASSUME IInv, NEW p \in Proc, NEW q \in Proc, q # p, pc[p] \in PastLock,
         pc'[q] = pc[q], f'[q] = f[q]
  PROVE  Local(q)'
<1>1. pc[q] \in {"idle", "lock"}
  BY DEF IInv, LockHeld, TypeOK, PastLock
<1>2. OpAt(q) /\ Arguments(q)
  BY DEF IInv, Local
<1>3. OpAt(q)'
  BY <1>1, <1>2 DEF OpAt, Commits
<1>4. Arguments(q)'
  BY <1>2 DEF Arguments
<1>5. CopyCurrent(q)' /\ NumberFresh(q)' /\ Storing(q)'
  BY <1>1 DEF CopyCurrent, NumberFresh, Storing
<1>6. Committing(q)'
  BY <1>1 DEF Committing, AfterPut, AfterList, AfterMerge, HoldsDraft
<1>7. Erasing(q)'
  BY <1>1 DEF Erasing
<1> QED
  BY <1>3, <1>4, <1>5, <1>6, <1>7 DEF Local

(* A step of the handler inside that stays inside: only its own part is left to show. *)
LEMMA StepInside ==
  ASSUME IInv, NEW p \in Proc, NEW l \in PastLock, NEW m \in PastLock, Step(p, l, m),
         owner' = owner, \A q \in Proc \ {p} : f'[q] = f[q],
         TypeOK', ListedHaveBlobs', Local(p)'
  PROVE  IInv'
<1>1. \A q \in Proc : pc'[q] = IF q = p THEN m ELSE pc[q]
  BY DEF Step, IInv, TypeOK
<1>2. LockHeld'
  BY <1>1 DEF LockHeld, IInv, Step
<1>3. ASSUME NEW q \in Proc PROVE Local(q)'
  <2>1. CASE q = p
    BY <2>1
  <2>2. CASE q # p
    BY <2>2, <1>1, OnlyOneMoves DEF Step
  <2> QED
    BY <2>1, <2>2
<1> QED
  BY <1>2, <1>3 DEF IInv

-----------------------------------------------------------------------------
(* Publishing: the number resolved under the lock is still free when it is written,
   and what was written stands when it is listed. *)

LEMMA ResolveVersionInv ==
  ASSUME IInv, Reliable, NEW p \in Proc, ResolveVersion(p)
  PROVE  IInv'
<1>1. PICK v \in Version :
        /\ IF f[p].explicit = 0 THEN IsNextVersion(v) ELSE v = f[p].explicit
        /\ f' = [f EXCEPT ![p].version = v]
  BY DEF ResolveVersion
<1>2. f[p] \in Frame /\ v \in 0..MaxVersion
  BY VersionBound DEF IInv, TypeOK, Version
<1>3. f' \in [Proc -> Frame]
  BY <1>1, <1>2 DEF IInv, TypeOK, Frame
<1>4. /\ f'[p].version = v /\ f'[p].op = f[p].op /\ f'[p].explicit = f[p].explicit
      /\ f'[p].html = f[p].html /\ f'[p].code = f[p].code /\ f'[p].sha = f[p].sha
  BY <1>1, <1>2 DEF IInv, TypeOK, Frame
<1>5. TypeOK'
  BY <1>3 DEF ResolveVersion, Step, IInv, TypeOK, Label, blobVars, metaVars
<1>6. ListedHaveBlobs'
  BY DEF ResolveVersion, IInv, ListedHaveBlobs, Listed, blobVars, metaVars
<1>7. pc[p] = "resolve" /\ pc'[p] = "putDoc" /\ Commits(p) /\ Local(p)
  BY DEF ResolveVersion, Step, IInv, TypeOK, Local, OpAt
<1>8. NumberFresh(p)'
  BY <1>1, <1>4 DEF NumberFresh, IsNextVersion, ResolveVersion, blobVars
<1>9. Local(p)'
  BY <1>4, <1>7, <1>8 DEF ResolveVersion, IInv, TypeOK, blobVars, metaVars, Local, OpAt,
     Arguments, CopyCurrent, NumberFresh, Committing, Erasing, Storing, Commits,
     AfterPut, AfterList, AfterMerge, HoldsDraft
<1> QED
  BY <1>1, <1>5, <1>6, <1>9, StepInside DEF ResolveVersion, Step, IInv, TypeOK,
     PastLock, Label

LEMMA VersionsExhaustedInv ==
  ASSUME IInv, Reliable, NEW p \in Proc, VersionsExhausted(p)
  PROVE  IInv'
<1>1. TypeOK'
  BY DEF VersionsExhausted, Step, IInv, TypeOK, blobVars, metaVars, Label
<1>2. ListedHaveBlobs'
  BY DEF VersionsExhausted, IInv, ListedHaveBlobs, Listed, blobVars, metaVars
<1>3. Local(p)'
  BY DEF VersionsExhausted, Step, IInv, TypeOK, blobVars, metaVars, Local, OpAt,
     Arguments, CopyCurrent, NumberFresh, Committing, Erasing, Storing, Commits,
     AfterPut, AfterList, AfterMerge, HoldsDraft
<1> QED
  BY <1>1, <1>2, <1>3, StepInside DEF VersionsExhausted, Step, IInv, TypeOK, PastLock,
     Label

LEMMA PutDocInv ==
  ASSUME IInv, Reliable, NEW p \in Proc, PutDoc(p)
  PROVE  IInv'
<1>0. f[p].version \in Version /\ f[p].html \in Html /\ f[p].html # None
  BY NoneFresh DEF PutDoc, Step, IInv, Local, OpAt, Committing, AfterPut
<1>1. TypeOK'
  BY DEF PutDoc, Step, IInv, TypeOK, blobVars, metaVars, Label, Version, Frame
<1>2. ListedHaveBlobs'
  BY <1>0 DEF PutDoc, IInv, ListedHaveBlobs, Listed, blobVars, metaVars, TypeOK
<1>3. Local(p)'
  BY DEF PutDoc, Step, IInv, TypeOK, blobVars, metaVars, Local, OpAt, Arguments,
     CopyCurrent, NumberFresh, Committing, Erasing, Storing, Commits, AfterPut,
     AfterList, AfterMerge, HoldsDraft, Version, IsNextVersion
<1> QED
  BY <1>1, <1>2, <1>3, StepInside DEF PutDoc, Step, IInv, TypeOK, PastLock, Label

LEMMA HeadDocInv ==
  ASSUME IInv, Reliable, NEW p \in Proc, HeadDoc(p)
  PROVE  IInv'
<1>1. TypeOK'
  BY DEF HeadDoc, Step, IInv, TypeOK, blobVars, metaVars, Label
<1>2. ListedHaveBlobs'
  BY DEF HeadDoc, IInv, ListedHaveBlobs, Listed, blobVars, metaVars
<1>3. Local(p)'
  BY DEF HeadDoc, Step, IInv, TypeOK, blobVars, metaVars, Local, OpAt, Arguments,
     CopyCurrent, NumberFresh, Committing, Erasing, Storing, Commits, AfterPut,
     AfterList, AfterMerge, HoldsDraft
<1> QED
  BY <1>1, <1>2, <1>3, StepInside DEF HeadDoc, Step, IInv, TypeOK, PastLock, Label

LEMMA ReadMetaInv ==
  ASSUME IInv, Reliable, NEW p \in Proc, ReadMeta(p)
  PROVE  IInv'
<1>1. TypeOK'
  BY DEF ReadMeta, Step, IInv, TypeOK, blobVars, metaVars, Label, Frame, AfterReadMeta
<1>2. ListedHaveBlobs'
  BY DEF ReadMeta, IInv, ListedHaveBlobs, Listed, blobVars, metaVars
<1>3. Local(p)'
  BY DEF ReadMeta, Step, IInv, TypeOK, blobVars, metaVars, Local, OpAt, Arguments,
     CopyCurrent, NumberFresh, Committing, Erasing, Storing, Commits, AfterPut,
     AfterList, AfterMerge, HoldsDraft, AfterReadMeta, Listed
<1> QED
  BY <1>1, <1>2, <1>3, StepInside DEF ReadMeta, Step, IInv, TypeOK, PastLock, Label,
     AfterReadMeta

-----------------------------------------------------------------------------
(* The metadata row: a handler writes back the row it read, changed in one field, and
   the row it read is still the row that is stored. *)

LEMMA CopyTyped ==
  ASSUME IInv, NEW p \in Proc, f[p].meta = meta
  PROVE  /\ Copy(p) \in Meta
         /\ meta # None => Copy(p) = meta
         /\ Listed = Copy(p).versions
  BY DEF IInv, TypeOK, Copy, NewMeta, Meta, Listed

LEMMA UpsertMetaInv ==
  ASSUME IInv, Reliable, NEW p \in Proc, UpsertMeta(p)
  PROVE  IInv'
<1>1. /\ Copy(p) \in Meta
      /\ meta # None => Copy(p) = meta
      /\ Listed = Copy(p).versions
  BY CopyTyped DEF UpsertMeta, Step, IInv, Local, CopyCurrent
<1>0. /\ f[p].version \in Version /\ f[p].html # None
      /\ blob[f[p].version] = f[p].html
  BY NoneFresh DEF UpsertMeta, Step, IInv, Local, Committing, Commits, AfterPut
<1>2. /\ meta' \in Meta /\ meta' # None
      /\ meta'.versions = Copy(p).versions \cup {f[p].version}
  BY <1>1, NoneNotMeta, <1>0 DEF UpsertMeta, Meta
<1>3. Listed' = Copy(p).versions \cup {f[p].version}
  BY <1>2 DEF Listed
<1>4. TypeOK'
  BY <1>2 DEF UpsertMeta, Step, IInv, TypeOK, Label, blobVars
<1>5. ListedHaveBlobs'
  BY <1>1, <1>3, <1>0 DEF UpsertMeta, IInv, ListedHaveBlobs, blobVars
<1>6. Local(p)'
  BY <1>3 DEF UpsertMeta, Step, IInv, TypeOK, blobVars, Local, OpAt, Arguments,
     CopyCurrent, NumberFresh, Committing, Erasing, Storing, Commits, AfterPut,
     AfterList, AfterMerge, HoldsDraft
<1> QED
  BY <1>4, <1>5, <1>6, StepInside DEF UpsertMeta, Step, IInv, TypeOK, PastLock, Label

LEMMA SetDraftMetaInv ==
  ASSUME IInv, Reliable, NEW p \in Proc, SetDraftMeta(p)
  PROVE  IInv'
<1>1. /\ Copy(p) \in Meta
      /\ meta # None => Copy(p) = meta
      /\ Listed = Copy(p).versions
  BY CopyTyped DEF SetDraftMeta, Step, IInv, Local, CopyCurrent
<1>2. /\ meta' \in Meta /\ meta' # None
      /\ meta'.versions = Copy(p).versions
  BY <1>1, NoneNotMeta DEF SetDraftMeta, Meta, IInv, TypeOK, Frame, Local, Arguments
<1>3. Listed' = Copy(p).versions
  BY <1>2 DEF Listed
<1>4. TypeOK'
  BY <1>2 DEF SetDraftMeta, Step, IInv, TypeOK, Label, blobVars
<1>5. ListedHaveBlobs'
  BY <1>1, <1>3 DEF SetDraftMeta, IInv, ListedHaveBlobs, blobVars
<1>6. Local(p)'
  BY <1>3, <1>2 DEF SetDraftMeta, Step, IInv, TypeOK, blobVars, Local, OpAt, Arguments,
     CopyCurrent, NumberFresh, Committing, Erasing, Storing, Commits, AfterPut,
     AfterList, AfterMerge, HoldsDraft
<1> QED
  BY <1>4, <1>5, <1>6, StepInside DEF SetDraftMeta, Step, IInv, TypeOK, PastLock, Label

LEMMA StoreCodeInv ==
  ASSUME IInv, Reliable, NEW p \in Proc, StoreCode(p)
  PROVE  IInv'
<1>1. /\ Copy(p) \in Meta
      /\ meta # None => Copy(p) = meta
      /\ Listed = Copy(p).versions
  BY CopyTyped DEF StoreCode, Step, IInv, Local, CopyCurrent
<1>2. /\ meta' \in Meta /\ meta' # None
      /\ meta'.versions = Copy(p).versions
  BY <1>1, NoneNotMeta DEF StoreCode, Meta, IInv, TypeOK, Frame, Local, Arguments
<1>3. Listed' = Copy(p).versions
  BY <1>2 DEF Listed
<1>4. TypeOK'
  BY <1>2 DEF StoreCode, Step, IInv, TypeOK, Label, blobVars
<1>5. ListedHaveBlobs'
  BY <1>1, <1>3 DEF StoreCode, IInv, ListedHaveBlobs, blobVars
<1>6. Local(p)'
  BY <1>3, <1>2 DEF StoreCode, Step, IInv, TypeOK, blobVars, Local, OpAt, Arguments,
     CopyCurrent, NumberFresh, Committing, Erasing, Storing, Commits, AfterPut,
     AfterList, AfterMerge, HoldsDraft
<1> QED
  BY <1>4, <1>5, <1>6, StepInside DEF StoreCode, Step, IInv, TypeOK, PastLock, Label

LEMMA DropCodeInv ==
  ASSUME IInv, Reliable, NEW p \in Proc, DropCode(p)
  PROVE  IInv'
<1>1. /\ Copy(p) \in Meta
      /\ meta # None => Copy(p) = meta
      /\ Listed = Copy(p).versions
  BY CopyTyped DEF DropCode, Step, IInv, Local, CopyCurrent
<1>2. /\ meta' \in Meta /\ meta' # None
      /\ meta'.versions = Copy(p).versions
  BY <1>1, NoneNotMeta DEF DropCode, Meta, IInv, TypeOK, Frame, Local, Arguments
<1>3. Listed' = Copy(p).versions
  BY <1>2 DEF Listed
<1>4. TypeOK'
  BY <1>2 DEF DropCode, Step, IInv, TypeOK, Label, blobVars
<1>5. ListedHaveBlobs'
  BY <1>1, <1>3 DEF DropCode, IInv, ListedHaveBlobs, blobVars
<1>6. Local(p)'
  BY <1>3, <1>2 DEF DropCode, Step, IInv, TypeOK, blobVars, Local, OpAt, Arguments,
     CopyCurrent, NumberFresh, Committing, Erasing, Storing, Commits, AfterPut,
     AfterList, AfterMerge, HoldsDraft
<1> QED
  BY <1>4, <1>5, <1>6, StepInside DEF DropCode, Step, IInv, TypeOK, PastLock, Label

-----------------------------------------------------------------------------
(* Comments: the list written back is the list read plus the new notes. *)

LEMMA ReadCommentsInv ==
  ASSUME IInv, Reliable, NEW p \in Proc, ReadComments(p)
  PROVE  IInv'
<1>1. f[p] \in Frame /\ f' = [f EXCEPT ![p].read = comments]
  BY DEF ReadComments, IInv, TypeOK
<1>2. f' \in [Proc -> Frame] /\ f'[p].read = comments
  BY <1>1 DEF IInv, TypeOK, Frame
<1>3. /\ f'[p].op = f[p].op /\ f'[p].html = f[p].html /\ f'[p].explicit = f[p].explicit
      /\ f'[p].version = f[p].version /\ f'[p].code = f[p].code /\ f'[p].sha = f[p].sha
      /\ f'[p].notes = f[p].notes
  BY <1>1 DEF IInv, TypeOK, Frame
<1>4. TypeOK'
  BY <1>2 DEF ReadComments, Step, IInv, TypeOK, Label, blobVars, metaVars
<1>5. ListedHaveBlobs'
  BY DEF ReadComments, IInv, ListedHaveBlobs, Listed, blobVars, metaVars
<1>6. Local(p)'
  BY <1>2, <1>3 DEF ReadComments, Step, IInv, TypeOK, blobVars, metaVars, Listed, Local,
     OpAt, Arguments, CopyCurrent, NumberFresh, Committing, Erasing, Storing, Commits,
     AfterPut, AfterList, AfterMerge, HoldsDraft
<1> QED
  BY <1>1, <1>4, <1>5, <1>6, StepInside DEF ReadComments, Step, IInv, TypeOK, PastLock,
     Label

LEMMA WriteCommentsInv ==
  ASSUME IInv, Reliable, NEW p \in Proc, WriteComments(p)
  PROVE  IInv'
<1>1. f[p] \in Frame /\ pc[p] = "writeComments" /\ Local(p) /\ f[p].read = comments
  BY DEF WriteComments, Step, IInv, TypeOK, Local, CopyCurrent
<1>2. comments' = comments \cup f[p].notes
  BY <1>1 DEF WriteComments
<1>3. pc'[p] = IF f[p].op = "promote" THEN "clearDraft" ELSE "reply"
  BY DEF WriteComments, Step, IInv, TypeOK
<1>4. TypeOK'
  BY <1>1, <1>2 DEF WriteComments, Step, IInv, TypeOK, Label, Frame, blobVars
<1>5. ListedHaveBlobs'
  BY DEF WriteComments, IInv, ListedHaveBlobs, Listed, blobVars
<1>6. Committing(p)'
  BY <1>1, <1>2, <1>3 DEF WriteComments, blobVars, Local, Committing, Commits, AfterPut,
     AfterList, AfterMerge, HoldsDraft, Listed
<1>7. Storing(p)'
  BY <1>1, <1>2, <1>3 DEF WriteComments, Storing
<1>8. Local(p)'
  BY <1>1, <1>3, <1>6, <1>7 DEF WriteComments, blobVars, Local, OpAt, Arguments,
     CopyCurrent, NumberFresh, Erasing, Commits
<1> QED
  BY <1>4, <1>5, <1>8, StepInside DEF WriteComments, Step, IInv, TypeOK, PastLock, Label

-----------------------------------------------------------------------------
(* Drafts: the HTML a promote read stays in the slot until its version is committed. *)

LEMMA PutDraftInv ==
  ASSUME IInv, Reliable, NEW p \in Proc, PutDraft(p)
  PROVE  IInv'
<1>0. f[p].html \in Html
  BY DEF PutDraft, Step, IInv, Local, OpAt, Arguments
<1>1. TypeOK'
  BY <1>0 DEF PutDraft, Step, IInv, TypeOK, blobVars, metaVars, Label, Frame
<1>2. ListedHaveBlobs'
  BY DEF PutDraft, IInv, ListedHaveBlobs, Listed, blobVars, metaVars
<1>3. Local(p)'
  BY DEF PutDraft, Step, IInv, TypeOK, blobVars, metaVars, Local, OpAt, Arguments,
     CopyCurrent, NumberFresh, Committing, Erasing, Storing, Commits, AfterPut,
     AfterList, AfterMerge, HoldsDraft
<1> QED
  BY <1>1, <1>2, <1>3, StepInside DEF PutDraft, Step, IInv, TypeOK, PastLock, Label

LEMMA GetDraftInv ==
  ASSUME IInv, Reliable, NEW p \in Proc, GetDraft(p)
  PROVE  IInv'
<1>1. f[p] \in Frame /\ f' = [f EXCEPT ![p].html = draft]
  BY DEF GetDraft, IInv, TypeOK
<1>2. f' \in [Proc -> Frame] /\ f'[p].html = draft
  BY <1>1 DEF IInv, TypeOK, Frame
<1>3. /\ f'[p].op = f[p].op /\ f'[p].read = f[p].read /\ f'[p].explicit = f[p].explicit
      /\ f'[p].version = f[p].version /\ f'[p].code = f[p].code /\ f'[p].sha = f[p].sha
      /\ f'[p].notes = f[p].notes
  BY <1>1 DEF IInv, TypeOK, Frame
<1>4. TypeOK'
  BY <1>2 DEF GetDraft, Step, IInv, TypeOK, Label, blobVars, metaVars
<1>5. ListedHaveBlobs'
  BY DEF GetDraft, IInv, ListedHaveBlobs, Listed, blobVars, metaVars
<1>6. Local(p)'
  BY <1>2, <1>3 DEF GetDraft, Step, IInv, TypeOK, blobVars, metaVars, Listed, Local,
     OpAt, Arguments, CopyCurrent, NumberFresh, Committing, Erasing, Storing, Commits,
     AfterPut, AfterList, AfterMerge, HoldsDraft
<1> QED
  BY <1>1, <1>4, <1>5, <1>6, StepInside DEF GetDraft, Step, IInv, TypeOK, PastLock,
     Label

LEMMA ClearDraftInv ==
  ASSUME IInv, Reliable, NEW p \in Proc, ClearDraft(p)
  PROVE  IInv'
<1>1. TypeOK'
  BY DEF ClearDraft, Step, IInv, TypeOK, blobVars, metaVars, Label
<1>2. ListedHaveBlobs'
  BY DEF ClearDraft, IInv, ListedHaveBlobs, Listed, blobVars, metaVars
<1>3. Local(p)'
  BY DEF ClearDraft, Step, IInv, TypeOK, blobVars, metaVars, Local, OpAt, Arguments,
     CopyCurrent, NumberFresh, Committing, Erasing, Storing, Commits, AfterPut,
     AfterList, AfterMerge, HoldsDraft, Listed
<1> QED
  BY <1>1, <1>2, <1>3, StepInside DEF ClearDraft, Step, IInv, TypeOK, PastLock, Label

LEMMA ReadMarkerInv ==
  ASSUME IInv, Reliable, NEW p \in Proc, ReadMarker(p)
  PROVE  IInv'
<1>1. CASE Step(p, "readMarker", "clearMarker") /\ meta # None /\ f' = [f EXCEPT ![p].meta = meta]
  <2>1. f[p] \in Frame
    BY DEF IInv, TypeOK
  <2>2. f' \in [Proc -> Frame] /\ f'[p].meta = meta
    BY <1>1, <2>1 DEF IInv, TypeOK, Frame
  <2>3. /\ f'[p].op = f[p].op /\ f'[p].html = f[p].html /\ f'[p].explicit = f[p].explicit
        /\ f'[p].version = f[p].version /\ f'[p].code = f[p].code /\ f'[p].sha = f[p].sha
        /\ f'[p].notes = f[p].notes
    BY <1>1, <2>1 DEF IInv, TypeOK, Frame
  <2>4. TypeOK'
    BY <1>1, <2>2 DEF ReadMarker, Step, IInv, TypeOK, Label, blobVars, metaVars
  <2>5. ListedHaveBlobs'
    BY DEF ReadMarker, IInv, ListedHaveBlobs, Listed, blobVars, metaVars
  <2>6. Local(p)'
    BY <1>1, <2>2, <2>3 DEF ReadMarker, Step, IInv, TypeOK, blobVars, metaVars, Listed,
       Local, OpAt, Arguments, CopyCurrent, NumberFresh, Committing, Erasing, Storing,
       Commits, AfterPut, AfterList, AfterMerge, HoldsDraft
  <2> QED
    BY <1>1, <2>4, <2>5, <2>6, StepInside DEF ReadMarker, PastLock, Label
<1>2. CASE Step(p, "readMarker", "reply") /\ UNCHANGED f
  <2>1. TypeOK'
    BY <1>2 DEF ReadMarker, Step, IInv, TypeOK, Label, blobVars, metaVars
  <2>2. ListedHaveBlobs'
    BY DEF ReadMarker, IInv, ListedHaveBlobs, Listed, blobVars, metaVars
  <2>3. Local(p)'
    BY <1>2 DEF ReadMarker, Step, IInv, TypeOK, blobVars, metaVars, Listed, Local, OpAt,
       Arguments, CopyCurrent, NumberFresh, Committing, Erasing, Storing, Commits,
       AfterPut, AfterList, AfterMerge, HoldsDraft
  <2> QED
    BY <1>2, <2>1, <2>2, <2>3, StepInside DEF ReadMarker, PastLock, Label
<1> QED
  BY <1>1, <1>2 DEF ReadMarker

LEMMA ClearMarkerInv ==
  ASSUME IInv, Reliable, NEW p \in Proc, ClearMarker(p)
  PROVE  IInv'
<1>1. /\ Copy(p) \in Meta /\ Copy(p) = meta /\ meta # None
      /\ Listed = Copy(p).versions
  BY CopyTyped DEF ClearMarker, Step, IInv, Local, CopyCurrent
<1>2. meta' \in Meta /\ meta' # None /\ meta'.versions = Copy(p).versions
  BY <1>1, NoneNotMeta DEF ClearMarker, Meta
<1>3. Listed' = Listed
  BY <1>1, <1>2 DEF Listed
<1>4. TypeOK'
  BY <1>2 DEF ClearMarker, Step, IInv, TypeOK, Label, blobVars
<1>5. ListedHaveBlobs'
  BY <1>3 DEF ClearMarker, IInv, ListedHaveBlobs, blobVars
<1>6. Local(p)'
  BY <1>3 DEF ClearMarker, Step, IInv, TypeOK, blobVars, Local, OpAt, Arguments,
     CopyCurrent, NumberFresh, Committing, Erasing, Storing, Commits, AfterPut,
     AfterList, AfterMerge, HoldsDraft
<1> QED
  BY <1>4, <1>5, <1>6, StepInside DEF ClearMarker, Step, IInv, TypeOK, PastLock, Label

-----------------------------------------------------------------------------
(* Removal: a sweep only takes objects away, and records the listed ones it took. *)

LEMMA SweepInv ==
  ASSUME IInv, NEW vs \in SUBSET Version, NEW as \in SUBSET Sha, NEW dr \in BOOLEAN,
         Sweep(vs, as, dr)
  PROVE  /\ blob' \in [Version -> Html \cup {None}] /\ draft' \in Html \cup {None}
         /\ bytes' \in SUBSET Sha /\ lost' \in SUBSET Version
         /\ ListedHaveBlobs'
         /\ vs = {} => \A v \in Version : blob'[v] = None
         /\ as = {} => bytes' = {}
         /\ dr = FALSE => draft' = None
  BY DEF Sweep, IInv, TypeOK, ListedHaveBlobs, Listed, metaVars, Meta

LEMMA DeleteDocInv ==
  ASSUME IInv, Reliable, NEW p \in Proc, DeleteDoc(p)
  PROVE  IInv'
<1>1. PICK vs \in SUBSET Version, as \in SUBSET Sha, dr \in BOOLEAN :
        vs = {} /\ as = {} /\ dr = FALSE /\ Sweep(vs, as, dr)
  BY DEF DeleteDoc, Reliable
<1>2. /\ \A v \in Version : blob'[v] = None
      /\ bytes' = {} /\ draft' = None
  BY <1>1, SweepInv
<1>3. UNCHANGED metaVars
  BY <1>1 DEF Sweep
<1>4. TypeOK'
  BY <1>1, <1>3, SweepInv DEF DeleteDoc, Step, IInv, TypeOK, Label, metaVars
<1>5. ListedHaveBlobs'
  BY <1>1, SweepInv
<1>6. Local(p)'
  BY <1>2, <1>3 DEF DeleteDoc, Step, IInv, TypeOK, metaVars, Local, OpAt, Arguments,
     CopyCurrent, NumberFresh, Committing, Erasing, Storing, Commits, AfterPut,
     AfterList, AfterMerge, HoldsDraft
<1> QED
  BY <1>4, <1>5, <1>6, StepInside DEF DeleteDoc, Step, IInv, TypeOK, PastLock, Label

LEMMA ListAssetRowsInv ==
  ASSUME IInv, Reliable, NEW p \in Proc, ListAssetRows(p)
  PROVE  IInv'
<1>1. f[p] \in Frame /\ f' = [f EXCEPT ![p].todo = rows]
  BY DEF ListAssetRows, IInv, TypeOK
<1>2. f' \in [Proc -> Frame] /\ f'[p].todo = rows
  BY <1>1 DEF IInv, TypeOK, Frame
<1>3. /\ f'[p].op = f[p].op /\ f'[p].html = f[p].html /\ f'[p].explicit = f[p].explicit
      /\ f'[p].version = f[p].version /\ f'[p].code = f[p].code /\ f'[p].sha = f[p].sha
      /\ f'[p].notes = f[p].notes
  BY <1>1 DEF IInv, TypeOK, Frame
<1>4. TypeOK'
  BY <1>2 DEF ListAssetRows, Step, IInv, TypeOK, Label, blobVars, metaVars
<1>5. ListedHaveBlobs'
  BY DEF ListAssetRows, IInv, ListedHaveBlobs, Listed, blobVars, metaVars
<1>6. Local(p)'
  BY <1>2, <1>3 DEF ListAssetRows, Step, IInv, TypeOK, blobVars, metaVars, Listed,
     Local, OpAt, Arguments, CopyCurrent, NumberFresh, Committing, Erasing, Storing,
     Commits, AfterPut, AfterList, AfterMerge, HoldsDraft
<1> QED
  BY <1>1, <1>4, <1>5, <1>6, StepInside DEF ListAssetRows, Step, IInv, TypeOK, PastLock,
     Label

LEMMA DeleteAssetRowInv ==
  ASSUME IInv, Reliable, NEW p \in Proc, DeleteAssetRow(p)
  PROVE  IInv'
<1>1. PICK s \in f[p].todo :
        rows' = rows \ {s} /\ f' = [f EXCEPT ![p].todo = f[p].todo \ {s}]
  BY DEF DeleteAssetRow
<1>2. f[p] \in Frame /\ pc[p] = "deleteRows" /\ f[p].todo = rows
  BY DEF DeleteAssetRow, IInv, TypeOK, Local, CopyCurrent
<1>3. f' \in [Proc -> Frame] /\ f'[p].todo = rows'
  BY <1>1, <1>2 DEF IInv, TypeOK, Frame
<1>4. /\ f'[p].op = f[p].op /\ f'[p].html = f[p].html /\ f'[p].explicit = f[p].explicit
      /\ f'[p].version = f[p].version /\ f'[p].code = f[p].code /\ f'[p].sha = f[p].sha
      /\ f'[p].notes = f[p].notes
  BY <1>1, <1>2 DEF IInv, TypeOK, Frame
<1>5. TypeOK'
  BY <1>1, <1>3 DEF DeleteAssetRow, IInv, TypeOK, blobVars
<1>6. ListedHaveBlobs'
  BY DEF DeleteAssetRow, IInv, ListedHaveBlobs, Listed, blobVars
<1>7. Local(p)'
  BY <1>2, <1>3, <1>4 DEF DeleteAssetRow, IInv, blobVars, Local, OpAt, Arguments,
     CopyCurrent, NumberFresh, Committing, Erasing, Storing, Commits, AfterPut,
     AfterList, AfterMerge, HoldsDraft
<1>8. Step(p, "deleteRows", "deleteRows")
  BY <1>2 DEF DeleteAssetRow, Step, IInv, TypeOK
<1> QED
  BY <1>1, <1>5, <1>6, <1>7, <1>8, StepInside DEF DeleteAssetRow, IInv, TypeOK,
     PastLock, Label

LEMMA DeleteMetaInv ==
  ASSUME IInv, Reliable, NEW p \in Proc, DeleteMeta(p)
  PROVE  IInv'
<1>1. TypeOK'
  BY DEF DeleteMeta, Step, IInv, TypeOK, blobVars, metaVars, Label
<1>2. ListedHaveBlobs'
  BY DEF DeleteMeta, IInv, ListedHaveBlobs, Listed, blobVars, metaVars
<1>3. Local(p)'
  BY DEF DeleteMeta, Step, IInv, TypeOK, blobVars, metaVars, Local, OpAt, Arguments,
     CopyCurrent, NumberFresh, Committing, Erasing, Storing, Commits, AfterPut,
     AfterList, AfterMerge, HoldsDraft
<1> QED
  BY <1>1, <1>2, <1>3, StepInside DEF DeleteMeta, Step, IInv, TypeOK, PastLock, Label

LEMMA WipeInv ==
  ASSUME IInv, Reliable, NEW p \in Proc, Wipe(p)
  PROVE  IInv'
<1>1. TypeOK'
  BY DEF Wipe, Step, IInv, TypeOK, blobVars, metaVars, Label
<1>2. ListedHaveBlobs'
  BY DEF Wipe, IInv, ListedHaveBlobs, Listed, blobVars, metaVars
<1>3. Local(p)'
  BY DEF Wipe, Step, IInv, TypeOK, blobVars, metaVars, Local, OpAt, Arguments,
     CopyCurrent, NumberFresh, Committing, Erasing, Storing, Commits, AfterPut,
     AfterList, AfterMerge, HoldsDraft, Listed
<1> QED
  BY <1>1, <1>2, <1>3, StepInside DEF Wipe, Step, IInv, TypeOK, PastLock, Label

-----------------------------------------------------------------------------
(* Assets. *)

LEMMA PutAssetBytesInv ==
  ASSUME IInv, Reliable, NEW p \in Proc, PutAssetBytes(p)
  PROVE  IInv'
<1>0. f[p].sha \in Sha
  BY DEF PutAssetBytes, Step, IInv, Local, OpAt, Arguments
<1>1. TypeOK'
  BY <1>0 DEF PutAssetBytes, Step, IInv, TypeOK, blobVars, metaVars, Label, Frame
<1>2. ListedHaveBlobs'
  BY DEF PutAssetBytes, IInv, ListedHaveBlobs, Listed, blobVars, metaVars
<1>3. Local(p)'
  BY DEF PutAssetBytes, Step, IInv, TypeOK, blobVars, metaVars, Local, OpAt, Arguments,
     CopyCurrent, NumberFresh, Committing, Erasing, Storing, Commits, AfterPut,
     AfterList, AfterMerge, HoldsDraft
<1> QED
  BY <1>1, <1>2, <1>3, StepInside DEF PutAssetBytes, Step, IInv, TypeOK, PastLock, Label

LEMMA PutAssetRowInv ==
  ASSUME IInv, Reliable, NEW p \in Proc, PutAssetRow(p)
  PROVE  IInv'
<1>0. f[p].sha \in Sha
  BY DEF PutAssetRow, Step, IInv, Local, OpAt, Arguments
<1>1. TypeOK'
  BY <1>0 DEF PutAssetRow, Step, IInv, TypeOK, blobVars, metaVars, Label, Frame
<1>2. ListedHaveBlobs'
  BY DEF PutAssetRow, IInv, ListedHaveBlobs, Listed, blobVars, metaVars
<1>3. Local(p)'
  BY DEF PutAssetRow, Step, IInv, TypeOK, blobVars, metaVars, Local, OpAt, Arguments,
     CopyCurrent, NumberFresh, Committing, Erasing, Storing, Commits, AfterPut,
     AfterList, AfterMerge, HoldsDraft
<1> QED
  BY <1>1, <1>2, <1>3, StepInside DEF PutAssetRow, Step, IInv, TypeOK, PastLock, Label

LEMMA DropAssetBytesInv ==
  ASSUME IInv, Reliable, NEW p \in Proc, DropAssetBytes(p)
  PROVE  IInv'
<1>1. TypeOK'
  BY DEF DropAssetBytes, Step, IInv, TypeOK, blobVars, metaVars, Label
<1>2. ListedHaveBlobs'
  BY DEF DropAssetBytes, IInv, ListedHaveBlobs, Listed, blobVars, metaVars
<1>3. Local(p)'
  BY DEF DropAssetBytes, Step, IInv, TypeOK, blobVars, metaVars, Local, OpAt, Arguments,
     CopyCurrent, NumberFresh, Committing, Erasing, Storing, Commits, AfterPut,
     AfterList, AfterMerge, HoldsDraft
<1> QED
  BY <1>1, <1>2, <1>3, StepInside DEF DropAssetBytes, Step, IInv, TypeOK, PastLock,
     Label

LEMMA DropAssetRowInv ==
  ASSUME IInv, Reliable, NEW p \in Proc, DropAssetRow(p)
  PROVE  IInv'
<1>1. TypeOK'
  BY DEF DropAssetRow, Step, IInv, TypeOK, blobVars, metaVars, Label
<1>2. ListedHaveBlobs'
  BY DEF DropAssetRow, IInv, ListedHaveBlobs, Listed, blobVars, metaVars
<1>3. Local(p)'
  BY DEF DropAssetRow, Step, IInv, TypeOK, blobVars, metaVars, Local, OpAt, Arguments,
     CopyCurrent, NumberFresh, Committing, Erasing, Storing, Commits, AfterPut,
     AfterList, AfterMerge, HoldsDraft
<1> QED
  BY <1>1, <1>2, <1>3, StepInside DEF DropAssetRow, Step, IInv, TypeOK, PastLock, Label

-----------------------------------------------------------------------------
(* Coming and going: before the lock and after the answer a handler relies on nothing. *)

LEMMA ArrivalInv ==
  ASSUME IInv, Reliable, NEW p \in Proc, Arrivals(p)
  PROVE  IInv'
<1>1. PICK r : WellFormed(r) /\ Request(p, r)
  BY RequestWellFormed
<1>2. /\ \A q \in Proc : pc'[q] = IF q = p THEN "lock" ELSE pc[q]
      /\ \A q \in Proc : f'[q] = IF q = p THEN r ELSE f[q]
  BY <1>1 DEF Request, Step, IInv, TypeOK
<1>3. TypeOK'
  BY <1>1 DEF WellFormed, Request, Step, IInv, TypeOK, Label, blobVars, metaVars
<1>4. LockHeld'
  BY <1>1, <1>2 DEF Request, Step, IInv, LockHeld, PastLock
<1>5. ListedHaveBlobs'
  BY <1>1 DEF Request, IInv, ListedHaveBlobs, Listed, blobVars, metaVars
<1>6. ASSUME NEW q \in Proc PROVE Local(q)'
  <2>1. CASE q = p
    BY <1>1, <1>2, <2>1 DEF WellFormed, Local, OpAt, Arguments, CopyCurrent,
       NumberFresh, Committing, Erasing, Storing, Commits, AfterPut, AfterList,
       AfterMerge, HoldsDraft
  <2>2. CASE q # p
    BY <1>1, <1>2, <2>2 DEF Request, IInv, blobVars, metaVars, Listed, IsNextVersion,
       Local, OpAt, Arguments, CopyCurrent, NumberFresh, Committing, Erasing, Storing,
       Commits, AfterPut, AfterList, AfterMerge, HoldsDraft
  <2> QED
    BY <2>1, <2>2
<1> QED
  BY <1>3, <1>4, <1>5, <1>6 DEF IInv

LEMMA EnterInv ==
  ASSUME IInv, Reliable, NEW p \in Proc, Enter(p)
  PROVE  IInv'
<1>1. f[p].op \in AllOps /\ pc[p] = "lock" /\ Arguments(p)
  BY DEF Enter, Step, IInv, TypeOK, Frame, Local, OpAt
<1>2. \A q \in Proc : pc'[q] = IF q = p THEN FirstStep(f[p].op) ELSE pc[q]
  BY DEF Enter, Step, IInv, TypeOK
<1>3. FirstStep(f[p].op) \in PastLock
  BY <1>1 DEF FirstStep, AllOps, PastLock, Label
<1>4. TypeOK'
  BY <1>2, <1>3 DEF Enter, Step, IInv, TypeOK, PastLock, blobVars, metaVars
<1>5. LockHeld'
  BY <1>2, <1>3, NoneFresh DEF Enter, IInv, LockHeld
<1>6. ListedHaveBlobs'
  BY DEF Enter, IInv, ListedHaveBlobs, Listed, blobVars, metaVars
<1>7. ASSUME NEW q \in Proc PROVE Local(q)'
  <2>1. CASE q = p
    BY <1>1, <1>2, <2>1 DEF Enter, FirstStep, AllOps, blobVars, metaVars, Local, OpAt,
       Arguments, CopyCurrent, NumberFresh, Committing, Erasing, Storing, Commits,
       AfterPut, AfterList, AfterMerge, HoldsDraft
  <2>2. CASE q # p
    BY <1>2, <2>2 DEF Enter, IInv, blobVars, metaVars, Listed, IsNextVersion, Local,
       OpAt, Arguments, CopyCurrent, NumberFresh, Committing, Erasing, Storing, Commits,
       AfterPut, AfterList, AfterMerge, HoldsDraft
  <2> QED
    BY <2>1, <2>2
<1> QED
  BY <1>4, <1>5, <1>6, <1>7 DEF IInv

(* Whatever a handler had changed when it answered or failed, the invariant needs only
   the stores to be typed and the list to have its blobs. *)
LEMMA LeaveInv ==
  ASSUME IInv, NEW p \in Proc, Leave(p), pc[p] \in PastLock \cup {"lock"},
         pc[p] \in PastLock \/ UNCHANGED <<blobVars, metaVars>>,
         blob' \in [Version -> Html \cup {None}], draft' \in Html \cup {None},
         bytes' \in SUBSET Sha, UNCHANGED metaVars, lost' \in SUBSET Version,
         ListedHaveBlobs'
  PROVE  IInv'
<1>1. /\ \A q \in Proc : pc'[q] = IF q = p THEN "idle" ELSE pc[q]
      /\ \A q \in Proc : f'[q] = IF q = p THEN Blank ELSE f[q]
  BY DEF Leave, IInv, TypeOK
<1>2. TypeOK'
  BY BlankTyped DEF Leave, IInv, TypeOK, Label, metaVars
<1>3. LockHeld'
  BY <1>1, NoneFresh DEF Leave, IInv, LockHeld, PastLock
<1>4. ASSUME NEW q \in Proc PROVE Local(q)'
  <2>1. CASE q = p
    BY <1>1, <2>1, BlankTyped DEF Blank, Local, OpAt, Arguments, CopyCurrent,
       NumberFresh, Committing, Erasing, Storing, Commits, AfterPut, AfterList,
       AfterMerge, HoldsDraft
  <2>2. CASE q # p /\ pc[p] \in PastLock
    BY <1>1, <2>2, OnlyOneMoves
  <2>3. CASE q # p /\ UNCHANGED <<blobVars, metaVars>>
    BY <1>1, <2>3 DEF IInv, blobVars, metaVars, Listed, IsNextVersion, Local, OpAt,
       Arguments, CopyCurrent, NumberFresh, Committing, Erasing, Storing, Commits,
       AfterPut, AfterList, AfterMerge, HoldsDraft
  <2> QED
    BY <2>1, <2>2, <2>3
<1> QED
  BY <1>2, <1>3, <1>4 DEF IInv

LEMMA ReplyInv ==
  ASSUME IInv, Reliable, NEW p \in Proc, Reply(p) \/ Fail(p)
  PROVE  IInv'
<1>1. /\ Leave(p) /\ pc[p] \in PastLock \cup {"lock"}
      /\ UNCHANGED <<blobVars, metaVars, lost>>
  BY DEF Reply, Fail, IInv, TypeOK, PastLock, Label
<1>2. ListedHaveBlobs'
  BY <1>1 DEF IInv, ListedHaveBlobs, Listed, blobVars, metaVars
<1> QED
  BY <1>1, <1>2, LeaveInv DEF IInv, TypeOK, blobVars, metaVars

LEMMA DeleteDocFailsInv ==
  ASSUME IInv, Reliable, NEW p \in Proc, DeleteDocFails(p)
  PROVE  IInv'
<1>1. PICK vs \in SUBSET Version, as \in SUBSET Sha, dr \in BOOLEAN : Sweep(vs, as, dr)
  BY DEF DeleteDocFails
<1>2. Leave(p) /\ pc[p] \in PastLock
  BY DEF DeleteDocFails, PastLock, Label
<1>3. UNCHANGED metaVars
  BY <1>1 DEF Sweep
<1> QED
  BY <1>1, <1>2, <1>3, SweepInv, LeaveInv

-----------------------------------------------------------------------------
LEMMA NextInv == IInv /\ Reliable /\ [Next]_vars => IInv'
<1> SUFFICES ASSUME IInv, Reliable, [Next]_vars PROVE IInv'
  OBVIOUS
<1>1. CASE UNCHANGED vars
  BY <1>1 DEF vars, blobVars, metaVars, IInv, TypeOK, LockHeld, ListedHaveBlobs, Listed,
     IsNextVersion, Local, OpAt, Arguments, CopyCurrent, NumberFresh, Committing,
     Erasing, Storing, Commits, AfterPut, AfterList, AfterMerge, HoldsDraft
<1>2. ASSUME NEW p \in Proc, Arrivals(p) \/ Enter(p) \/ Work(p) \/ Fail(p) \/ LoseSession(p)
      PROVE  IInv'
  <2>1. CASE Arrivals(p) \/ Enter(p)
    BY <2>1, ArrivalInv, EnterInv
  <2>2. CASE Publishing(p)
    BY <2>2, ResolveVersionInv, VersionsExhaustedInv, PutDocInv, HeadDocInv,
       ReadCommentsInv, WriteCommentsInv DEF Publishing
  <2>3. CASE Metadata(p)
    BY <2>3, ReadMetaInv, UpsertMetaInv, SetDraftMetaInv, StoreCodeInv, DropCodeInv
       DEF Metadata
  <2>4. CASE Drafting(p)
    BY <2>4, PutDraftInv, GetDraftInv, ClearDraftInv, ReadMarkerInv, ClearMarkerInv
       DEF Drafting
  <2>5. CASE Removing(p)
    BY <2>5, DeleteDocInv, DeleteDocFailsInv, ListAssetRowsInv, DeleteAssetRowInv,
       DeleteMetaInv, WipeInv DEF Removing
  <2>6. CASE Assets(p)
    BY <2>6, PutAssetBytesInv, PutAssetRowInv, DropAssetBytesInv, DropAssetRowInv
       DEF Assets
  <2>7. CASE Reply(p) \/ Fail(p)
    BY <2>7, ReplyInv
  <2>8. CASE LoseSession(p)
    BY <2>8 DEF LoseSession, Reliable
  <2> QED
    BY <1>2, <2>1, <2>2, <2>3, <2>4, <2>5, <2>6, <2>7, <2>8 DEF Work
<1> QED
  BY <1>1, <1>2 DEF Next

(* The stores and every handler's locals stay well-typed, the lock is exclusive, every
   copy a handler writes back is current and every listed version has its HTML, for any
   number of handlers, versions and arguments, as long as no database session is lost
   and no failed delete goes unreported. *)
THEOREM Inductive ==
  ASSUME Reliable
  PROVE  Spec => []IInv
<1>1. Init => IInv
  BY InitIInv
<1>2. IInv /\ [Next]_vars => IInv'
  BY NextInv
<1> QED
  BY <1>1, <1>2, PTL DEF Spec

(* An answer is durable: a published version holds the HTML that was sent and is listed,
   and comments that were sent are stored. *)
THEOREM CommittedWhenAnswered ==
  ASSUME Reliable
  PROVE  Spec => []AnsweredIsCommitted
<1>1. IInv => AnsweredIsCommitted
  BY DEF IInv, Local, Committing, Storing, AnsweredIsCommitted, AfterPut, AfterList,
     AfterMerge
<1> QED
  BY <1>1, Inductive, PTL

(* When a removal answers, no store holds anything of the slug. *)
THEOREM RemovedWhenAnswered ==
  ASSUME Reliable
  PROVE  Spec => []RemoveLeavesNothing
<1>1. IInv => RemoveLeavesNothing
  BY DEF IInv, Local, Erasing, RemoveLeavesNothing
<1> QED
  BY <1>1, Inductive, PTL

(* The version list names no version whose HTML is missing, except those an unfinished
   removal has deleted. *)
THEOREM ListIsHonest ==
  ASSUME Reliable
  PROVE  Spec => []ListedHaveBlobs
<1>1. IInv => ListedHaveBlobs
  BY DEF IInv
<1> QED
  BY <1>1, Inductive, PTL

(* A version number the server chose is never one that is already stored. *)
THEOREM NoOverwrite ==
  ASSUME Reliable
  PROVE  Spec => AutoNeverOverwrites
<1>1. IInv => \A p \in Proc : Writes(p) /\ f[p].explicit = 0 => blob[f[p].version] = None
  <2> SUFFICES ASSUME IInv, NEW p \in Proc, pc[p] = "putDoc", f[p].explicit = 0
               PROVE  blob[f[p].version] = None
    BY DEF Writes
  <2>1. f[p].version \in Version /\ IsNextVersion(f[p].version)
    BY DEF IInv, Local, OpAt, NumberFresh, Committing
  <2> QED
    BY <2>1, VersionBound DEF IsNextVersion, Version
<1> QED
  BY <1>1, Inductive, PTL DEF AutoNeverOverwrites

(* No draft is lost: it leaves its slot only when a listed version holds its HTML, or
   when the document is removed. *)
THEOREM NoDraftLost ==
  ASSUME Reliable
  PROVE  Spec => DraftClearedOnlyWhenPublished
<1> DEFINE Kept == draft # None /\ draft' = None =>
                     \/ \E v \in Listed : blob[v] = draft
                     \/ \E p \in Proc : pc[p] = "deleteDoc"
<1>1. IInv /\ Next => Kept
  <2> SUFFICES ASSUME IInv, Next, draft # None, draft' = None
               PROVE  \/ \E v \in Listed : blob[v] = draft
                      \/ \E p \in Proc : pc[p] = "deleteDoc"
    OBVIOUS
  <2>1. PICK p \in Proc : Arrivals(p) \/ Enter(p) \/ Work(p) \/ Fail(p) \/ LoseSession(p)
    BY DEF Next
  <2>2. ~(Arrivals(p) \/ Enter(p) \/ Fail(p) \/ LoseSession(p) \/ Reply(p))
    <3>1. ~Arrivals(p)
      BY RequestWellFormed DEF Request, blobVars
    <3> QED
      BY <3>1 DEF Enter, Fail, LoseSession, Reply, blobVars
  <2>3. ~Publishing(p) /\ ~Metadata(p) /\ ~Assets(p)
    BY DEF Publishing, Metadata, Assets, ResolveVersion, VersionsExhausted, PutDoc,
       HeadDoc, ReadComments, WriteComments, ReadMeta, UpsertMeta, SetDraftMeta, StoreCode,
       DropCode, PutAssetBytes, PutAssetRow, DropAssetBytes, DropAssetRow, blobVars
  <2>4. CASE Drafting(p)
    <3>1. ClearDraft(p)
      <4>1. ~PutDraft(p)
        BY NoneFresh DEF PutDraft, Step, IInv, Local, OpAt, Arguments
      <4> QED
        BY <2>4, <4>1 DEF Drafting, GetDraft, ReadMarker, ClearMarker, blobVars
    <3>2. pc[p] = "clearDraft" /\ f[p].op = "promote" /\ Committing(p)
      BY <3>1 DEF ClearDraft, Step, IInv, Local, OpAt
    <3> QED
      BY <3>2 DEF Committing, Commits, HoldsDraft, AfterPut, AfterList
  <2>5. CASE Removing(p)
    <3>1. DeleteDoc(p) \/ DeleteDocFails(p)
      BY <2>5 DEF Removing, ListAssetRows, DeleteAssetRow, DeleteMeta, Wipe, blobVars
    <3> QED
      BY <3>1 DEF DeleteDoc, DeleteDocFails, Step
  <2> QED
    BY <2>1, <2>2, <2>3, <2>4, <2>5 DEF Work
<1>2. IInv /\ [Next]_vars => [Kept]_vars
  BY <1>1
<1> QED
  BY <1>2, Inductive, PTL DEF Spec, DraftClearedOnlyWhenPublished

(* While the document stands, its share code changes only in share and revoke: no other
   handler writes an older one back. *)
THEOREM NoRevokedCodeReturns ==
  ASSUME Reliable
  PROVE  Spec => CodeChangedOnlyByItsHandlers
<1> DEFINE Owned == meta # None /\ meta' # None /\ meta'.share # meta.share =>
                      \E p \in Proc : /\ f[p].op \in {"share", "revoke"}
                                      /\ pc[p] = "writeMeta" /\ pc'[p] = "reply"
<1>1. IInv /\ Next => Owned
  <2> SUFFICES ASSUME IInv, Next, meta # None, meta' # None, meta'.share # meta.share
               PROVE  \E p \in Proc : /\ f[p].op \in {"share", "revoke"}
                                      /\ pc[p] = "writeMeta" /\ pc'[p] = "reply"
    OBVIOUS
  <2>1. PICK p \in Proc : Arrivals(p) \/ Enter(p) \/ Work(p) \/ Fail(p) \/ LoseSession(p)
    BY DEF Next
  <2>2. ~(Arrivals(p) \/ Enter(p) \/ Fail(p) \/ LoseSession(p) \/ Reply(p))
    <3>1. ~Arrivals(p)
      BY RequestWellFormed DEF Request, metaVars
    <3> QED
      BY <3>1 DEF Enter, Fail, LoseSession, Reply, metaVars
  <2>3. ~Publishing(p) /\ ~Assets(p)
    BY DEF Publishing, Assets, ResolveVersion, VersionsExhausted, PutDoc,
       HeadDoc, ReadComments, WriteComments, PutAssetBytes, PutAssetRow, DropAssetBytes,
       DropAssetRow, metaVars
  <2>4. ASSUME f[p].meta = meta
        PROVE  Copy(p) = meta /\ meta \in Meta
    BY <2>4, CopyTyped
  <2>5. ~(UpsertMeta(p) \/ SetDraftMeta(p))
    BY <2>4 DEF UpsertMeta, SetDraftMeta, Step, IInv, Local, CopyCurrent, Meta
  <2>6. ~Drafting(p)
    BY <2>4 DEF Drafting, PutDraft, GetDraft, ClearDraft, ReadMarker, ClearMarker, Step,
       IInv, Local, CopyCurrent, Meta, metaVars
  <2>7. ~Removing(p)
    BY DEF Removing, DeleteDoc, DeleteDocFails, Sweep, ListAssetRows, DeleteAssetRow,
       DeleteMeta, Wipe, metaVars
  <2>8. StoreCode(p) \/ DropCode(p)
    BY <2>1, <2>2, <2>3, <2>5, <2>6, <2>7 DEF Work, Metadata, ReadMeta, metaVars
  <2> QED
    BY <2>8 DEF StoreCode, DropCode, Step, IInv, TypeOK
<1>2. IInv /\ [Next]_vars => [Owned]_vars
  BY <1>1
<1> QED
  BY <1>2, Inductive, PTL DEF Spec, CodeChangedOnlyByItsHandlers

-----------------------------------------------------------------------------
(* Refinement: each store call is a whole step of DocRecord, because the copy it was
   computed from is what the store still holds. *)

LEMMA InitRefines == Init => Abstract!Init
  BY DEF Init, Abstract!Init, Version, Abstract!Version

LEMMA PutDocRefines ==
  ASSUME IInv, NEW p \in Proc, PutDoc(p)
  PROVE  Abstract!Next
<1> DEFINE v == f[p].version
           h == f[p].html
<1>1. /\ v \in Version /\ h \in Html
      /\ f[p].explicit = 0 => IsNextVersion(v)
      /\ f[p].explicit # 0 => v \in Explicit
  BY DEF PutDoc, Step, IInv, Local, OpAt, NumberFresh, Committing, Arguments
<1>2. blob' = [blob EXCEPT ![v] = h] /\ UNCHANGED <<draft, bytes, metaVars>>
  BY DEF PutDoc
<1> HIDE DEF v, h
<1>3. Abstract!Append(v, h) \/ Abstract!Replace(v, h)
  BY <1>1, <1>2 DEF Abstract!Append, Abstract!Replace, IsNextVersion, Version,
     Abstract!Version, metaVars, Abstract!metaVars
<1> QED
  BY <1>1, <1>3 DEF Abstract!Next, Version, Abstract!Version

LEMMA MetadataRefines ==
  ASSUME IInv, NEW p \in Proc, Metadata(p)
  PROVE  Abstract!Next \/ UNCHANGED Abstract!vars
<1>1. CASE ReadMeta(p)
  BY <1>1 DEF ReadMeta, blobVars, metaVars, Abstract!vars
<1>2. ASSUME UpsertMeta(p) \/ SetDraftMeta(p) \/ StoreCode(p) \/ DropCode(p)
      PROVE  Copy(p) = Abstract!Current /\ pc[p] = "writeMeta" /\ Local(p)
  <2>1. f[p].meta = meta /\ pc[p] = "writeMeta" /\ Local(p)
    BY <1>2 DEF UpsertMeta, SetDraftMeta, StoreCode, DropCode, Step, IInv, Local,
       CopyCurrent
  <2> QED
    BY <2>1 DEF Copy, NewMeta, Abstract!Current, Abstract!NewMeta
<1>3. CASE UpsertMeta(p)
  <2> DEFINE v == f[p].version
  <2>1. v \in Version /\ blob[v] # None
    BY <1>2, <1>3, NoneFresh DEF UpsertMeta, Local, Committing, Commits, AfterPut
  <2>2. Abstract!ListVersion(v)
    BY <1>2, <1>3, <2>1 DEF UpsertMeta, Abstract!ListVersion, blobVars, Abstract!blobVars
  <2> QED
    BY <2>1, <2>2 DEF Abstract!Next, Version, Abstract!Version
<1>4. CASE SetDraftMeta(p)
  <2>1. Abstract!MarkDraft(TRUE)
    BY <1>2, <1>4 DEF SetDraftMeta, Abstract!MarkDraft, blobVars, Abstract!blobVars
  <2> QED
    BY <2>1 DEF Abstract!Next
<1>5. CASE StoreCode(p) \/ DropCode(p)
  <2>1. meta # None /\ Copy(p) = meta
    BY <1>2, <1>5 DEF StoreCode, DropCode, Local, CopyCurrent, Abstract!Current
  <2>2. \E c \in Code \cup {None} : meta' = [meta EXCEPT !.share = c]
    BY <1>2, <1>5, <2>1 DEF StoreCode, DropCode, Local, Arguments
  <2>3. \E c \in Code \cup {None} : Abstract!SetShare(c)
    BY <1>5, <2>1, <2>2 DEF StoreCode, DropCode, Abstract!SetShare, blobVars,
       Abstract!blobVars
  <2> QED
    BY <2>3 DEF Abstract!Next
<1> QED
  BY <1>1, <1>3, <1>4, <1>5 DEF Metadata

LEMMA CommentsRefine ==
  ASSUME IInv, NEW p \in Proc, WriteComments(p)
  PROVE  Abstract!Next
<1>1. comments' = comments \cup f[p].notes /\ f[p].notes \in SUBSET Note
  BY DEF WriteComments, Step, IInv, TypeOK, Frame, Local, CopyCurrent
<1>2. Abstract!AddComments(f[p].notes)
  BY <1>1 DEF WriteComments, Abstract!AddComments, blobVars, Abstract!blobVars
<1> QED
  BY <1>1, <1>2 DEF Abstract!Next

LEMMA DraftingRefines ==
  ASSUME IInv, NEW p \in Proc, Drafting(p)
  PROVE  Abstract!Next \/ UNCHANGED Abstract!vars
<1>1. CASE PutDraft(p)
  <2>1. f[p].html \in Html
    BY <1>1 DEF PutDraft, Step, IInv, Local, OpAt, Arguments
  <2>2. Abstract!SaveDraft(f[p].html)
    BY <1>1 DEF PutDraft, Abstract!SaveDraft, metaVars, Abstract!metaVars
  <2> QED
    BY <2>1, <2>2 DEF Abstract!Next
<1>2. CASE GetDraft(p) \/ ReadMarker(p)
  BY <1>2 DEF GetDraft, ReadMarker, blobVars, metaVars, Abstract!vars
<1>3. CASE ClearDraft(p) /\ draft' = None
  <2>1. \E v \in Listed : v \in Version /\ blob[v] = draft
    BY <1>3 DEF ClearDraft, Step, IInv, Local, OpAt, Committing, Commits, HoldsDraft,
       AfterPut, AfterList
  <2>2. Listed = Abstract!Current.versions
    BY DEF Listed, Abstract!Current, Abstract!NewMeta
  <2>3. Abstract!ClearDraft
    BY <1>3, <2>1, <2>2 DEF ClearDraft, Abstract!ClearDraft, metaVars, Abstract!metaVars
  <2> QED
    BY <2>3 DEF Abstract!Next
<1>4. CASE ClearDraft(p) /\ draft' = draft
  BY <1>4 DEF ClearDraft, metaVars, Abstract!vars
<1>5. CASE ClearMarker(p)
  <2>1. Copy(p) = Abstract!Current
    BY <1>5 DEF ClearMarker, Step, IInv, Local, CopyCurrent, Copy, Abstract!Current
  <2>2. Abstract!MarkDraft(FALSE) \/ UNCHANGED Abstract!vars
    BY <1>5, <2>1 DEF ClearMarker, Abstract!MarkDraft, blobVars, Abstract!blobVars,
       Abstract!vars
  <2> QED
    BY <2>2 DEF Abstract!Next
<1> QED
  BY <1>1, <1>2, <1>3, <1>4, <1>5 DEF Drafting, ClearDraft

LEMMA SweepRefines ==
  ASSUME IInv, NEW vs \in SUBSET Version, NEW as \in SUBSET Sha, NEW dr \in BOOLEAN,
         Sweep(vs, as, dr)
  PROVE  Abstract!Next
<1>1. /\ blob' \in [Version -> Html \cup {None}]
      /\ \A v \in Version : blob'[v] \in {blob[v], None}
      /\ draft' \in {draft, None} /\ bytes' \subseteq bytes
      /\ UNCHANGED metaVars
  BY DEF Sweep, IInv, TypeOK
<1>2. Abstract!Erase
  BY <1>1 DEF Abstract!Erase, Version, Abstract!Version, metaVars, Abstract!metaVars
<1> QED
  BY <1>2 DEF Abstract!Next

LEMMA RemovingRefines ==
  ASSUME IInv, NEW p \in Proc, Removing(p)
  PROVE  Abstract!Next \/ UNCHANGED Abstract!vars
<1>1. CASE DeleteDoc(p) \/ DeleteDocFails(p)
  BY <1>1, SweepRefines DEF DeleteDoc, DeleteDocFails
<1>2. CASE ListAssetRows(p)
  BY <1>2 DEF ListAssetRows, blobVars, metaVars, Abstract!vars
<1>3. CASE DeleteAssetRow(p)
  <2>1. bytes = {} /\ f[p].todo \subseteq Sha
    BY <1>3 DEF DeleteAssetRow, IInv, TypeOK, Frame, Local, OpAt, Erasing
  <2>2. \E s \in Sha : Abstract!DropRow(s)
    BY <1>3, <2>1 DEF DeleteAssetRow, Abstract!DropRow, blobVars, Abstract!blobVars
  <2> QED
    BY <2>2 DEF Abstract!Next
<1>4. CASE DeleteMeta(p)
  BY <1>4 DEF DeleteMeta, Abstract!DropMeta, blobVars, Abstract!blobVars, Abstract!Next
<1>5. CASE Wipe(p)
  BY <1>5 DEF Wipe, Abstract!WipeComments, blobVars, Abstract!blobVars, Abstract!Next
<1> QED
  BY <1>1, <1>2, <1>3, <1>4, <1>5 DEF Removing

LEMMA AssetsRefine ==
  ASSUME IInv, NEW p \in Proc, Assets(p)
  PROVE  Abstract!Next
<1> DEFINE s == f[p].sha
<1>1. /\ s \in Sha
      /\ pc[p] = "putRow" => s \in bytes
      /\ pc[p] = "dropRow" => s \notin bytes
  BY DEF Assets, PutAssetBytes, PutAssetRow, DropAssetBytes, DropAssetRow, Step, IInv,
     Local, OpAt, Arguments, Storing
<1>2. Abstract!PutBytes(s) \/ Abstract!PutRow(s) \/ Abstract!DropBytes(s) \/ Abstract!DropRow(s)
  BY <1>1 DEF Assets, PutAssetBytes, PutAssetRow, DropAssetBytes, DropAssetRow, Step,
     Abstract!PutBytes, Abstract!PutRow, Abstract!DropBytes, Abstract!DropRow, blobVars,
     metaVars, Abstract!blobVars, Abstract!metaVars
<1> HIDE DEF s
<1> QED
  BY <1>1, <1>2 DEF Abstract!Next

LEMMA StepRefines ==
  ASSUME IInv, [Next]_vars
  PROVE  [Abstract!Next]_(Abstract!vars)
<1>1. CASE UNCHANGED vars
  BY <1>1 DEF vars, blobVars, metaVars, Abstract!vars
<1>2. ASSUME NEW p \in Proc, Arrivals(p) \/ Enter(p) \/ Work(p) \/ Fail(p) \/ LoseSession(p)
      PROVE  Abstract!Next \/ UNCHANGED Abstract!vars
  <2>1. CASE Arrivals(p)
    BY <2>1, RequestWellFormed DEF Request, blobVars, metaVars, Abstract!vars
  <2>2. CASE Enter(p) \/ Reply(p) \/ Fail(p) \/ LoseSession(p)
    BY <2>2 DEF Enter, Reply, Fail, LoseSession, blobVars, metaVars, Abstract!vars
  <2>3. CASE Publishing(p)
    <3>1. CASE PutDoc(p) \/ WriteComments(p)
      BY <3>1, PutDocRefines, CommentsRefine
    <3>2. CASE ResolveVersion(p) \/ VersionsExhausted(p) \/ HeadDoc(p) \/ ReadComments(p)
      BY <3>2 DEF ResolveVersion, VersionsExhausted, HeadDoc, ReadComments, blobVars,
         metaVars, Abstract!vars
    <3> QED
      BY <2>3, <3>1, <3>2 DEF Publishing
  <2> QED
    BY <1>2, <2>1, <2>2, <2>3, MetadataRefines, DraftingRefines, RemovingRefines,
       AssetsRefine DEF Work
<1> QED
  BY <1>1, <1>2 DEF Next

(* The handlers, interleaved call by call, implement whole operations on the record:
   no update is computed from a stale copy and none is lost. *)
THEOREM Implements ==
  ASSUME Reliable
  PROVE  Spec => ImplementsDocRecord
<1>1. Init => Abstract!Init
  BY InitRefines
<1>2. IInv /\ [Next]_vars => [Abstract!Next]_(Abstract!vars)
  BY StepRefines
<1> QED
  BY <1>1, <1>2, Inductive, PTL DEF Spec, Abstract!Spec, ImplementsDocRecord
=============================================================================
