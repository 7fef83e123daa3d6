----------------------------- MODULE CommentLog -----------------------------
(***************************************************************************)
(* The comment event logs of one slug (core/events.go, fold.go, ops.go,    *)
(* reconcile.go): every operation appends events to a comment's log, a     *)
(* publish re-binds anchors and compacts the logs, and a reader folds a    *)
(* log up to the version he looks at.  CommentService runs each operation  *)
(* under the slug lock, read to write, so each is one step here (DocStore  *)
(* splits them).                                                           *)
(*                                                                         *)
(* Versions are what clients send: a comment, reply, reaction or deletion  *)
(* may name any version at any time.  Texts, authors and times are left    *)
(* out, all reactions use one emoji, and event ids appear through SameEID. *)
(***************************************************************************)
EXTENDS Naturals, Sequences, FiniteSets

CONSTANTS Comment, Reply, User,
          Artifact,    \* stamped artifacts (aids)
          tag, head,   \* tag[x], head[x]: an artifact's tag and nearest heading
          Page,        \* the artifact sets of the HTML that is published
          Sent,        \* anchors clients send
          Local,       \* flat comments a publish may bring along
          None,
          MaxVersion, MaxEvents  \* bounds: versions named, events ever appended per comment

ASSUME Shapes == DOMAIN tag = Artifact /\ DOMAIN head = Artifact
ASSUME Pages == Page \subseteq SUBSET Artifact /\ \A aids \in Page : IsFiniteSet(aids)
ASSUME Bounds == MaxVersion \in Nat \ {0} /\ MaxEvents \in Nat \ {0}

Version == 1..MaxVersion
Latest == MaxVersion + 1    \* 999999 in a delete without a version; VersionLatest in a read

VARIABLES log,   \* log[c]: the stored events of comment c, <<>> if there is no such comment
          full   \* history: the same events without any compaction

vars == <<log, full>>

Init == log = [c \in Comment |-> <<>>] /\ full = log
-----------------------------------------------------------------------------
\* hint: the artifact the anchor was made on, which its label, fingerprint and nearest
\* heading describe for good.
Anchor == [kind : {"text", "element", "lost"}, aid : Artifact \cup {None},
           hint : Artifact \cup {None}]
TextAnchor == [kind |-> "text", aid |-> None, hint |-> None]
Element(x, h) == [kind |-> "element", aid |-> x, hint |-> h]
Lost(h) == [kind |-> "lost", aid |-> None, hint |-> h]

ASSUME AnchorsSent == Sent \subseteq {TextAnchor} \cup {Element(x, x) : x \in Artifact}
ASSUME LocalFlat == Local \subseteq
  [v : Version, anchor : Anchor, applied : 0..MaxVersion, by : User \cup {None}]

Verdict == {"applied", "question"}
Mark(verdict) == IF verdict = "applied" THEN "marked_applied" ELSE "marked_open"

Event ==
  [kind : {"created"}, v : Version, anchor : Anchor]
  \cup [kind : {"anchor_changed"}, v : Version, anchor : Anchor, reset : BOOLEAN]
  \cup [kind : {"marked_applied", "marked_open"}, v : Version, verdict : Verdict]
  \cup [kind : {"deleted"}, v : Version \cup {Latest}]
  \cup [kind : {"reaction_added", "reaction_removed"}, v : Version, by : User]
  \cup [kind : {"reply_added"}, v : Version, reply : Reply]
  \cup [kind : {"reply_deleted"}, v : Version \cup {Latest}, reply : Reply]
  \cup [kind : {"reply_reaction_added", "reply_reaction_removed"}, v : Version,
        reply : Reply, by : User]

\* Marks are identified by their kind alone.
MarkEIDWithoutVersion(d, e) ==
  /\ d.kind = e.kind
  /\ \/ d.kind \in {"reaction_added", "reaction_removed"} /\ d.by = e.by
     \/ d.kind \in {"marked_applied", "marked_open", "deleted"}

(* EventEID: reactions are identified by kind, emoji and login, marks and deletions by
   kind and version; everything else gets a fresh id. *)
SameEID(d, e) ==
  /\ d.kind = e.kind
  /\ \/ d.kind \in {"reaction_added", "reaction_removed"} /\ d.by = e.by
     \/ d.kind \in {"marked_applied", "marked_open", "deleted"} /\ d.v = e.v

\* The place of the last event with the id of the i-th.
lastByEID(l, i) == CHOOSE j \in i..Len(l) :
  /\ j = i \/ SameEID(l[i], l[j])
  /\ \A k \in (j + 1)..Len(l) : ~SameEID(l[i], l[k])

\* Some earlier event has the id of the i-th.
emitted(l, i) == \E j \in 1..(i - 1) : SameEID(l[j], l[i])

(* DedupEvents: of the events sharing an id, the last, at the place of the first. *)
DedupEvents(l) ==
  LET out[i \in 0..Len(l)] ==
        IF i = 0 THEN <<>>
        ELSE IF emitted(l, i) THEN out[i - 1] ELSE Append(out[i - 1], l[lastByEID(l, i)])
  IN  out[Len(l)]
-----------------------------------------------------------------------------
(* What a reader sees of a comment.  applied is the version of status "applied", 0 for
   "open"; likes are the reactions to its replies, verdict the agent's emoji. *)
emptySnapshot == [anchor |-> None, applied |-> 0, verdict |-> None, users |-> {},
                  replies |-> {}, likes |-> {}, deleted |-> FALSE]

(* applyCommentEvent; a deleted reply is never shown again, nor are its reactions. *)
applyCommentEvent(s, e) ==
  CASE e.kind = "created" -> [s EXCEPT !.anchor = e.anchor]
    [] e.kind = "anchor_changed" ->
         [s EXCEPT !.anchor = e.anchor, !.applied = IF e.reset THEN 0 ELSE @]
    [] e.kind = "marked_applied" -> [s EXCEPT !.applied = e.v, !.verdict = e.verdict]
    [] e.kind = "marked_open" -> [s EXCEPT !.applied = 0, !.verdict = e.verdict]
    [] e.kind = "deleted" -> [s EXCEPT !.deleted = TRUE]
    [] e.kind = "reaction_added" -> [s EXCEPT !.users = @ \cup {e.by}]
    [] e.kind = "reaction_removed" -> [s EXCEPT !.users = @ \ {e.by}]
    [] e.kind = "reply_added" -> [s EXCEPT !.replies = @ \cup {e.reply}]
    [] e.kind = "reply_deleted" ->
         [s EXCEPT !.replies = @ \ {e.reply}, !.likes = @ \ ({e.reply} \X User)]
    [] e.kind = "reply_reaction_added" ->
         IF e.reply \in s.replies THEN [s EXCEPT !.likes = @ \cup {<<e.reply, e.by>>}] ELSE s
    [] e.kind = "reply_reaction_removed" ->
         IF e.reply \in s.replies THEN [s EXCEPT !.likes = @ \ {<<e.reply, e.by>>}] ELSE s

\* The state s after the events of version v among d, in the order of the log.
replayVersion(s, d, v) ==
  LET state[n \in 0..Len(d)] ==
        IF n = 0 THEN s
        ELSE IF d[n].v = v THEN applyCommentEvent(state[n - 1], d[n]) ELSE state[n - 1]
  IN  state[Len(d)]

(* replay of the deduplicated events d as far as version at; orderedEvents sorts them
   stably, which is version by version. *)
replay(d, at) ==
  LET state[v \in 0..at] ==
        IF v = 0 THEN emptySnapshot ELSE replayVersion(state[v - 1], d, v)
  IN  state[at]

(* SnapshotAt: None before the version the comment was created in. *)
SnapshotAt(l, at) == IF l = <<>> \/ l[1].v > at THEN None ELSE replay(DedupEvents(l), at)
-----------------------------------------------------------------------------
HasReply(l, r) == \E i \in DOMAIN l : l[i].kind = "reply_added" /\ l[i].reply = r
FreshReply(r) == \A c \in Comment : ~HasReply(full[c], r)

\* Operation on comment c stores its log with the events es appended.
AppendEvents(c, es) ==
  /\ log' = [log EXCEPT ![c] = @ \o es]
  /\ full' = [full EXCEPT ![c] = @ \o es]
  /\ Len(full[c]) + Len(es) <= MaxEvents

(* opCreate. *)
Create(c, v, a) ==
  /\ log[c] = <<>>
  /\ AppendEvents(c, <<[kind |-> "created", v |-> v, anchor |-> a]>>)

(* opReply: the parent may be deleted, but it must exist. *)
AddReply(c, r, v) ==
  /\ log[c] # <<>> /\ FreshReply(r)
  /\ AppendEvents(c, <<[kind |-> "reply_added", v |-> v, reply |-> r]>>)

(* opReact on a comment that is visible at v: what the fold shows is undone. *)
React(c, u, v) ==
  LET s == SnapshotAt(log[c], v) IN
  /\ s # None
  /\ AppendEvents(c, <<[kind |-> IF u \in s.users THEN "reaction_removed" ELSE "reaction_added",
                   v |-> v, by |-> u]>>)

\* The current reaction is looked up in the newest state.
ReactToReplyAtLatest(c, r, u, v) ==
  LET s == SnapshotAt(log[c], Latest) IN
  /\ SnapshotAt(log[c], v) # None /\ HasReply(log[c], r)
  /\ AppendEvents(c, <<[kind |-> IF <<r, u>> \in s.likes THEN "reply_reaction_removed"
                            ELSE "reply_reaction_added",
                   v |-> v, reply |-> r, by |-> u]>>)

(* opReact on a reply: its host must be visible at v, the reply need not be. *)
ReactToReply(c, r, u, v) ==
  LET s == SnapshotAt(log[c], v) IN
  /\ s # None /\ HasReply(log[c], r)
  /\ AppendEvents(c, <<[kind |-> IF <<r, u>> \in s.likes THEN "reply_reaction_removed"
                            ELSE "reply_reaction_added",
                   v |-> v, reply |-> r, by |-> u]>>)

(* opPatchAnchor, always with ResetStatus. *)
PatchAnchor(c, a, v) ==
  /\ log[c] # <<>>
  /\ AppendEvents(c, <<[kind |-> "anchor_changed", v |-> v, anchor |-> a, reset |-> TRUE]>>)

(* opDelete of a comment. *)
Delete(c, v) ==
  /\ log[c] # <<>>
  /\ AppendEvents(c, <<[kind |-> "deleted", v |-> v]>>)

(* opDelete of a reply. *)
DeleteReply(c, r, v) ==
  /\ HasReply(log[c], r)
  /\ AppendEvents(c, <<[kind |-> "reply_deleted", v |-> v, reply |-> r]>>)

(* handleAgentReply and opRawEvents: a reply and the agent's verdict (without one it is
   AddReply); "partial" folds like "question". *)
AgentReply(c, r, verdict, v) ==
  /\ log[c] # <<>> /\ FreshReply(r)
  /\ AppendEvents(c, <<[kind |-> "reply_added", v |-> v, reply |-> r],
                  [kind |-> Mark(verdict), v |-> v, verdict |-> verdict]>>)

(* A wipe op deletes the slug's comment row. *)
Wipe == log' = [c \in Comment |-> <<>>] /\ full' = [c \in Comment |-> <<>>]
-----------------------------------------------------------------------------
(* findRebindAid: the artifacts that look like the one the anchor was made on; one is
   enough to decide, several are not. *)
Candidates(h, aids) ==
  LET tagged == {x \in aids : tag[x] = tag[h]}
      alike == {x \in tagged : head[h] = None \/ head[x] = head[h]}
  IN  IF alike = {} THEN tagged ELSE alike

(* nextAnchor; the anchor itself where the code returns nil. *)
nextAnchor(a, aids) ==
  IF Cardinality(Candidates(a.hint, aids)) = 1
  THEN Element(CHOOSE x \in Candidates(a.hint, aids) : TRUE, a.hint)
  ELSE Lost(a.hint)

\* Anchors are read from the newest state instead of the version being published.
ReconcileNewest(l, aids, v) ==
  LET s == SnapshotAt(l, Latest) IN
  IF s = None \/ s.deleted \/ s.anchor.kind = "text" \/ s.anchor.aid \in aids
     \/ nextAnchor(s.anchor, aids) = s.anchor
  THEN <<>>
  ELSE <<[kind |-> "anchor_changed", v |-> v, anchor |-> nextAnchor(s.anchor, aids),
          reset |-> FALSE]>>

(* reconcileComment: the event that re-binds or loses a drifted anchor, if any. *)
reconcileComment(l, aids, v) ==
  LET s == SnapshotAt(l, v) IN
  IF s = None \/ s.deleted \/ s.anchor.kind = "text" \/ s.anchor.aid \in aids
     \/ nextAnchor(s.anchor, aids) = s.anchor
  THEN <<>>
  ELSE <<[kind |-> "anchor_changed", v |-> v, anchor |-> nextAnchor(s.anchor, aids),
          reset |-> FALSE]>>

(* A comment a publish brings along, as legacyToEvents makes its log: created at v,
   perhaps applied in version w (0: no) and liked by u; its replies are left out. *)
LocalLog(m) ==
  <<[kind |-> "created", v |-> m.v, anchor |-> m.anchor]>>
  \o (IF m.applied = 0 THEN <<>>
      ELSE <<[kind |-> "marked_applied", v |-> m.applied, verdict |-> "applied"]>>)
  \o (IF m.by = None THEN <<>>
      ELSE <<[kind |-> "reaction_added", v |-> m.v, by |-> m.by]>>)

\* opPublishMerge takes the local copy of a comment that is deleted on the server.
MergeReplacesDeleted(c, l) ==
  IF log[c] = <<>> \/ (l # <<>> /\ SnapshotAt(log[c], Latest).deleted) THEN l ELSE log[c]

\* opPublishMerge appends the local log to the stored one.
MergeConcatenates(c, l) == log[c] \o l

(* opPublishMerge: a local comment is taken only if its id is unknown. *)
Merge(c, l) == IF log[c] = <<>> THEN l ELSE log[c]

\* Compaction drops what is not shown in the version being published.
CompactsToVersion(v, aids, c, l) ==
  LET merged == [log EXCEPT ![c] = Merge(c, l)]
      ever == [full EXCEPT ![c] = IF @ = <<>> THEN l ELSE @]
      change == [d \in Comment |-> reconcileComment(merged[d], aids, v)]
  IN  /\ log' = [d \in Comment |->
                   SelectSeq(DedupEvents(merged[d] \o change[d]), LAMBDA e : e.v <= v)]
      /\ full' = [d \in Comment |-> ever[d] \o change[d]]
      /\ \A d \in Comment : Len(full'[d]) <= MaxEvents

(* opPublishMerge for the version v with the artifacts aids: l, if not empty, is the
   local comment with id c.  Every log is reconciled, then compacted. *)
PublishMerge(v, aids, c, l) ==
  LET merged == [log EXCEPT ![c] = Merge(c, l)]
      ever == [full EXCEPT ![c] = IF @ = <<>> THEN l ELSE @]
      change == [d \in Comment |-> reconcileComment(merged[d], aids, v)]
  IN  /\ log' = [d \in Comment |-> DedupEvents(merged[d] \o change[d])]
      /\ full' = [d \in Comment |-> ever[d] \o change[d]]
      /\ \A d \in Comment : Len(full'[d]) <= MaxEvents

Publish(v, aids) == \E c \in Comment :
  \/ PublishMerge(v, aids, c, <<>>)
  \/ \E m \in Local : PublishMerge(v, aids, c, LocalLog(m))

Mutate(c, v) ==
  \/ \E a \in Sent : Create(c, v, a) \/ PatchAnchor(c, a, v)
  \/ \E r \in Reply : \/ AddReply(c, r, v)
                      \/ \E verdict \in Verdict : AgentReply(c, r, verdict, v)
                      \/ \E u \in User : ReactToReply(c, r, u, v)
  \/ \E u \in User : React(c, u, v)

Next ==
  \/ \E c \in Comment, v \in Version : Mutate(c, v)
  \/ \E c \in Comment, v \in Version \cup {Latest} :
       Delete(c, v) \/ \E r \in Reply : DeleteReply(c, r, v)
  \/ \E v \in Version, aids \in Page : Publish(v, aids)
  \/ Wipe

Spec == Init /\ [][Next]_vars
-----------------------------------------------------------------------------
\* A log begins with the creation of its comment, and holds no other and no reply twice.
Wellformed(l) ==
  /\ \A i \in DOMAIN l : l[i].kind = "created" <=> i = 1
  /\ \A i, j \in DOMAIN l :
       /\ l[i].kind = "reply_added" /\ l[j].kind = "reply_added"
       /\ l[i].reply = l[j].reply
       => i = j

(* The inductive invariant: logs are well-formed sequences of events, and have the same
   deduplicated form as if they had never been compacted. *)
IInv ==
  /\ log \in [Comment -> Seq(Event)] /\ full \in [Comment -> Seq(Event)]
  /\ \A c \in Comment :
       /\ log[c] = <<>> <=> full[c] = <<>>
       /\ DedupEvents(log[c]) = DedupEvents(full[c])
       /\ Wellformed(log[c])

(* Compacting at publish time loses nothing a reader can see, at any version, now or
   after any later operation. *)
CompactionInvisible ==
  \A c \in Comment, at \in 1..Latest : SnapshotAt(log[c], at) = SnapshotAt(full[c], at)

\* The events of c that this step appended.
New(c) == SubSeq(full'[c], Len(full[c]) + 1, Len(full'[c]))

\* No event of this step belongs to version at or an earlier one.
Later(c, at) == /\ full[c] # <<>> /\ full'[c] # <<>>
                /\ \A i \in DOMAIN New(c) : New(c)[i].v > at

\* This step is a reaction to comment c itself.
Reacted(c) == \E i \in DOMAIN New(c) : New(c)[i].kind \in {"reaction_added", "reaction_removed"}

(* Reading as of version N does not change when events are appended to later versions,
   except by reactions, whose ids repeat: one appended to a later version can replace
   an earlier one in place. *)
PastStands == [][\A c \in Comment, at \in Version :
  Later(c, at) /\ ~Reacted(c) => SnapshotAt(log'[c], at) = SnapshotAt(log[c], at)]_vars

(* A soft-deleted comment stays deleted until the comments are wiped: no operation, and
   no local copy a publish brings along, revives it. *)
DeletedStays == [][\A c \in Comment :
  LET s == SnapshotAt(log[c], Latest) IN
  s # None /\ s.deleted /\ log'[c] # <<>> => SnapshotAt(log'[c], Latest).deleted]_vars

(* Publishing artifacts aids as version v leaves no anchor the HTML cannot resolve: every
   comment shown in v is then on text, on one of aids, or marked lost; and publishing
   the same again changes no anchor. *)
AnchorsSettle == \A c \in Comment, v \in Version, aids \in Page :
  LET l == DedupEvents(log[c] \o reconcileComment(log[c], aids, v))
      s == SnapshotAt(l, v)
  IN  /\ s # None /\ ~s.deleted => s.anchor.kind # "element" \/ s.anchor.aid \in aids
      /\ reconcileComment(l, aids, v) = <<>>

\* This step appended one event to c, of one of these kinds.
Appended(c, kinds) == log[c] # <<>> /\ Len(New(c)) = 1 /\ New(c)[1].kind \in kinds

(* Reacting to a reply that is shown turns the user's reaction on or off in that version. *)
ReplyReactionTurns == [][\A c \in Comment :
  Appended(c, {"reply_reaction_added", "reply_reaction_removed"}) =>
    LET e == New(c)[1]
        s == SnapshotAt(log[c], e.v)
        t == SnapshotAt(log'[c], e.v)
    IN  e.reply \in s.replies =>
          (<<e.reply, e.by>> \in t.likes <=> <<e.reply, e.by>> \notin s.likes)]_vars
=============================================================================
