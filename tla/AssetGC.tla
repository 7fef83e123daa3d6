------------------------------- MODULE AssetGC -------------------------------
(***************************************************************************)
(* Garbage collection of assets (gc.go) among authors who publish, draft,  *)
(* promote, remove, upload and drop on several slugs.  A pass first reads  *)
(* every document without locks and then decides slug by slug under each   *)
(* slug's lock, as KeyedLock gives it.                                     *)
(*                                                                         *)
(* Of an author's handler only the writes are steps of their own (DocStore *)
(* takes it apart call by call): the lock is taken with the first write,   *)
(* and a failure may come between any two.  The meta row is its presence.  *)
(* HTML is the set of its maximal runs of hex digits, an address a short   *)
(* run.  A dry run is a pass that aborts before it deletes.                *)
(***************************************************************************)
EXTENDS Integers, Sequences

CONSTANTS Slug, Html, Sha, None,
          hexRuns,      \* the maximal hex runs of an HTML text
          Width,        \* digits of an address (64)
          maxSlideRun,  \* longest run searched at every offset (4096)
          Uploader,     \* slugs assets are uploaded to
          Named,        \* versions a client may name itself
          Grace,
          Faults,       \* failures besides those that are reported: "silentDelete" or none
          MaxVersion, MaxClock,  \* bounds: versions per slug, ticks of the clock
          MaxCalls               \* bound: requests of authors

Version == 1..MaxVersion
Clock == 0..MaxClock
\* Where HTML is: a version, or 0 for the draft.
Place == Slug \X (0..MaxVersion)

ASSUME Texts == hexRuns \in [Html -> SUBSET Seq(Nat)]
ASSUME Addresses == Width \in Nat \ {0} /\ maxSlideRun \in Nat /\ Sha \subseteq [1..Width -> Nat]
ASSUME Bounds == MaxVersion \in Nat /\ MaxClock \in Nat /\ Grace \in Nat /\ MaxCalls \in Nat
ASSUME Inputs == Uploader \subseteq Slug /\ Named \subseteq Version
ASSUME FaultsKnown == Faults \subseteq {"silentDelete"}
ASSUME NoneFresh == None \notin Html \cup Sha \cup Slug \cup Nat

VARIABLES blob,     \* blob[s][v]: HTML of a version
          draft,    \* draft[s]
          doc,      \* doc[s]: the slug has a meta row
          bytes,    \* bytes[s]: assets whose bytes are stored
          created,  \* created[s][x]: the asset row's upload time, None without a row
          clock,
          calls,    \* requests so far
          job,      \* job[s]: what runs under the slug's lock, and its asset
          at,       \* the pass: position,
          now,      \*   time it began,
          slugs,    \*   slugs with assets still to be collected,
          todo,     \*   slugs still to be read,
          cur,      \*   the slug in hand,
          left,     \*   its versions still to be read,
          refs,     \*   addresses found,
          doomed,   \*   assets to be deleted, and the one whose bytes are gone
          victim,
          steady,   \* history: places listed and unchanged since the pass began
          always    \* history: addresses referenced somewhere ever since then

htmlVars == <<blob, draft, doc>>
assetVars == <<bytes, created>>
passVars == <<at, now, slugs, todo, cur, left, refs, doomed, victim>>
vars == <<htmlVars, assetVars, clock, calls, job, passVars, steady, always>>

Free == [at |-> "free", sha |-> None]
JobAt == {"free", "list", "promote", "clear", "dropRows", "dropMeta", "putRow", "dropRow", "gc"}

Init ==
  /\ blob = [s \in Slug |-> [v \in Version |-> None]]
  /\ draft = [s \in Slug |-> None]
  /\ doc = [s \in Slug |-> FALSE]
  /\ bytes = [s \in Slug |-> {}]
  /\ created = [s \in Slug |-> [x \in Sha |-> None]]
  /\ clock = 0 /\ calls = 0
  /\ job = [s \in Slug |-> Free]
  /\ at = "idle" /\ now = 0 /\ slugs = {} /\ todo = {} /\ cur = None
  /\ left = {} /\ refs = {} /\ doomed = {} /\ victim = None
  /\ steady = {} /\ always = {}
-----------------------------------------------------------------------------
\* The window of Width digits that starts after the first i of run r.
Window(r, i) == [k \in 1..Width |-> r[i + k]]

\* Windows laid end to end: a run is tiled from its first digit.
TiledWindows(r) == {Window(r, i * Width) : i \in 0..(Len(r) \div Width) - 1}

(* scanInto on one run: every offset, or for a huge run the aligned ones and the last. *)
windowsOf(r) ==
  IF Len(r) <= maxSlideRun
  THEN {Window(r, i) : i \in 0..(Len(r) - Width)}
  ELSE {Window(r, i * Width) : i \in 0..(Len(r) \div Width) - 1} \cup {Window(r, Len(r) - Width)}

scanInto(h) == UNION {windowsOf(r) : r \in {q \in hexRuns[h] : Len(q) >= Width}}

\* What the text at a place contributes.
HtmlAt(s, v) == IF v = 0 THEN draft[s] ELSE blob[s][v]
Scanned(h) == IF h = None THEN {} ELSE scanInto(h)

(* What "referenced" means: the address occurs in a run that is no data blob. *)
References(h) ==
  IF h = None THEN {}
  ELSE {x \in Sha : \E r \in hexRuns[h] :
          /\ Len(r) <= maxSlideRun
          /\ \E i \in 0..(Len(r) - Width) : x = Window(r, i)}
-----------------------------------------------------------------------------
(* Every store reports a deletion that failed. *)
Reliable == "silentDelete" \notin Faults

\* The HTML the documentation speaks of: versions and draft of slugs with a row.
Live == {q \in Place : doc[q[1]] /\ HtmlAt(q[1], q[2]) # None}
Referenced == UNION {References(HtmlAt(q[1], q[2])) : q \in Live}

\* The histories of a pass, kept with every step of the others.
History ==
  /\ steady' = IF at' = "idle" THEN {}
               ELSE IF at = "idle" THEN Live
               ELSE {q \in steady : HtmlAt(q[1], q[2])' = HtmlAt(q[1], q[2]) /\ doc'[q[1]]}
  /\ always' = IF at' = "idle" THEN {}
               ELSE IF at = "idle" THEN Referenced
               ELSE always \cap Referenced'

\* What a step of an author, or of the pass, leaves alone besides e.
AuthorKeeps(e) == UNCHANGED <<e, clock, passVars>> /\ History
PassKeeps(e) == UNCHANGED <<e, htmlVars, clock, calls>> /\ History
\* The pass only reads.
Reads == UNCHANGED <<assetVars, job>>
-----------------------------------------------------------------------------
\* Handler of an author on s: it begins with the slug lock, goes on from l to m, or is
\* done.
Begins(s, l, x) == /\ job[s] = Free /\ calls < MaxCalls
                   /\ calls' = calls + 1
                   /\ job' = [job EXCEPT ![s] = [at |-> l, sha |-> x]]
Goes(s, l, m) == /\ job[s].at = l
                 /\ job' = [job EXCEPT ![s] = IF m = "free" THEN Free ELSE [@ EXCEPT !.at = m]]
                 /\ UNCHANGED calls

\* One past the newest stored version.
IsNextVersion(s, v) == \A w \in Version : /\ blob[s][w] # None => w < v
                                          /\ w = v - 1 => blob[s][w] # None
Store(s, v, h) == blob' = [blob EXCEPT ![s][v] = h]

(* Publish: PutDoc, then the row. *)
Publish(s) ==
  /\ Begins(s, "list", None)
  /\ \E h \in Html, v \in Version : (v \in Named \/ IsNextVersion(s, v)) /\ Store(s, v, h)
  /\ AuthorKeeps(<<draft, doc, assetVars>>)

(* SaveDraft: PutDraft, then the row. *)
SaveDraft(s) ==
  /\ Begins(s, "list", None)
  /\ \E h \in Html : draft' = [draft EXCEPT ![s] = h]
  /\ AuthorKeeps(<<blob, doc, assetVars>>)

(* Promote: GetDraft and PutDoc, the row, DeleteDraft. *)
Promote(s) ==
  /\ Begins(s, "promote", None)
  /\ draft[s] # None
  /\ \E v \in Version : IsNextVersion(s, v) /\ Store(s, v, draft[s])
  /\ AuthorKeeps(<<draft, doc, assetVars>>)

(* upsertMeta or setDraftMeta: the slug has a row. *)
List(s) ==
  /\ Goes(s, "list", "free") \/ Goes(s, "promote", "clear")
  /\ doc' = [doc EXCEPT ![s] = TRUE]
  /\ AuthorKeeps(<<blob, draft, assetVars>>)

(* Promote's DeleteDraft. *)
ClearDraft(s) ==
  /\ Goes(s, "clear", "free")
  /\ draft' = [draft EXCEPT ![s] = None]
  /\ AuthorKeeps(<<blob, doc, assetVars>>)

\* DeleteDoc leaves what is under assets/.
RemoveHtmlOnly(s) ==
  /\ Begins(s, "dropRows", None)
  /\ blob' = [blob EXCEPT ![s] = [v \in Version |-> None]]
  /\ draft' = [draft EXCEPT ![s] = None]
  /\ AuthorKeeps(<<doc, assetVars>>)

(* Remove's DeleteDoc: the versions vs, the draft and the assets as survive a sweep
   that fails, and then the removal goes no further, unless the object store refused a
   key of its own: s3.DeleteDoc does not look at those failures. *)
Remove(s) ==
  /\ \E vs \in SUBSET Version, d \in {draft[s], None}, as \in SUBSET bytes[s] :
       /\ blob' = [blob EXCEPT ![s] = [v \in Version |-> IF v \in vs THEN @[v] ELSE None]]
       /\ draft' = [draft EXCEPT ![s] = d]
       /\ bytes' = [bytes EXCEPT ![s] = as]
       /\ \/ /\ Begins(s, "dropRows", None)
             /\ Reliable => vs = {} /\ d = None /\ as = {}
          \/ Begins(s, "free", None)
  /\ AuthorKeeps(<<doc, created>>)

(* Remove's DeleteAssetMeta for every row. *)
DropRows(s) ==
  /\ Goes(s, "dropRows", "dropMeta")
  /\ created' = [created EXCEPT ![s] = [x \in Sha |-> None]]
  /\ AuthorKeeps(<<htmlVars, bytes>>)

(* Remove's DeleteMeta. *)
DropMeta(s) ==
  /\ Goes(s, "dropMeta", "free")
  /\ doc' = [doc EXCEPT ![s] = FALSE]
  /\ AuthorKeeps(<<blob, draft, assetVars>>)

(* AssetService.Put: bytes, then the row. *)
Upload(s) ==
  /\ s \in Uploader
  /\ \E x \in Sha : /\ Begins(s, "putRow", x)
                    /\ bytes' = [bytes EXCEPT ![s] = @ \cup {x}]
  /\ AuthorKeeps(<<htmlVars, created>>)

(* PutAssetMeta: a row that is there keeps its time. *)
PutRow(s) ==
  /\ Goes(s, "putRow", "free")
  /\ created' = [created EXCEPT ![s][job[s].sha] = IF @ = None THEN clock ELSE @]
  /\ AuthorKeeps(<<htmlVars, bytes>>)

(* AssetService.Delete: bytes, then the row. *)
Drop(s) ==
  /\ \E x \in Sha : /\ Begins(s, "dropRow", x)
                    /\ bytes' = [bytes EXCEPT ![s] = @ \ {x}]
  /\ AuthorKeeps(<<htmlVars, created>>)

DropRow(s) ==
  /\ Goes(s, "dropRow", "free")
  /\ created' = [created EXCEPT ![s][job[s].sha] = None]
  /\ AuthorKeeps(<<htmlVars, bytes>>)

(* A store call fails or the process dies between two writes; ClearDraft's error is
   only logged. *)
Fail(s) ==
  /\ job[s].at \notin {"free", "gc"}
  /\ job' = [job EXCEPT ![s] = Free]
  /\ AuthorKeeps(<<htmlVars, assetVars, calls>>)

Author(s) ==
  \/ Publish(s) \/ SaveDraft(s) \/ Promote(s) \/ Remove(s) \/ Upload(s) \/ Drop(s)
Continue(s) ==
  List(s) \/ ClearDraft(s) \/ DropRows(s) \/ DropMeta(s) \/ PutRow(s) \/ DropRow(s)
-----------------------------------------------------------------------------
Rows(s) == {x \in Sha : created[s][x] # None}

(* GCAssets: now is fixed and the slugs with assets are listed. *)
Start ==
  /\ at = "idle" /\ at' = "docs"
  /\ now' = clock
  /\ slugs' = {s \in Slug : Rows(s) # {}}
  /\ Reads /\ PassKeeps(<<todo, cur, left, refs, doomed, victim>>)

\* Only slugs with assets are read for references.
ListDocsOfAssets ==
  /\ at = "docs" /\ at' = "scan"
  /\ todo' = slugs
  /\ Reads /\ PassKeeps(<<now, slugs, cur, left, refs, doomed, victim>>)

(* allReferencedSHAs: every slug with a row, and every slug with assets. *)
ListDocs ==
  /\ at = "docs" /\ at' = "scan"
  /\ todo' = slugs \cup {s \in Slug : doc[s]}
  /\ Reads /\ PassKeeps(<<now, slugs, cur, left, refs, doomed, victim>>)

(* scanSlugInto: ListVersions, GetDoc of each version in turn, GetDraft last. *)
ListVersions ==
  /\ at = "scan" /\ at' = "read"
  /\ \E s \in todo : /\ todo' = todo \ {s}
                     /\ cur' = s
                     /\ left' = {v \in Version : blob[s][v] # None}
  /\ Reads /\ PassKeeps(<<now, slugs, refs, doomed, victim>>)

ReadVersion ==
  /\ at = "read"
  /\ \E v \in left : /\ \A w \in left : v <= w
                     /\ left' = left \ {v}
                     /\ refs' = refs \cup Scanned(blob[cur][v])
  /\ Reads /\ PassKeeps(<<at, now, slugs, todo, cur, doomed, victim>>)

ReadDraft ==
  /\ at = "read" /\ left = {} /\ at' = "scan"
  /\ refs' = refs \cup Scanned(draft[cur])
  /\ cur' = None
  /\ Reads /\ PassKeeps(<<now, slugs, todo, left, doomed, victim>>)

(* gcSlug takes the lock of the next slug. *)
LockSlug ==
  /\ at = "scan" /\ todo = {} /\ at' = "decide"
  /\ \E s \in slugs : /\ job[s] = Free
                      /\ job' = [job EXCEPT ![s].at = "gc"]
                      /\ slugs' = slugs \ {s}
                      /\ cur' = s
  /\ PassKeeps(<<assetVars, now, todo, left, refs, doomed, victim>>)

\* What the slug's own HTML refers to; an asset past its grace period.
OwnRefs(s) == UNION {Scanned(HtmlAt(s, v)) : v \in 0..MaxVersion}
Expired(s, x) == created[s][x] # None /\ now - created[s][x] >= Grace

\* The decision rests on the snapshot alone.
DecideBySnapshot ==
  /\ at = "decide" /\ at' = "delete"
  /\ doomed' = {x \in Rows(cur) : Expired(cur, x) /\ x \notin refs}
  /\ Reads /\ PassKeeps(<<now, slugs, todo, cur, left, refs, victim>>)

(* Under the lock the slug's own HTML is read again; its assets that neither it nor the
   global set references, and that are older than the grace period, are doomed. *)
Decide ==
  /\ at = "decide" /\ at' = "delete"
  /\ doomed' = {x \in Rows(cur) : Expired(cur, x) /\ x \notin refs \cup OwnRefs(cur)}
  /\ Reads /\ PassKeeps(<<now, slugs, todo, cur, left, refs, victim>>)

\* AssetService.Delete, which takes the lock, instead of deleteLocked.
DeleteBytesLocking ==
  /\ at = "delete" /\ at' = "deleteRow"
  /\ job[cur] = Free
  /\ \E x \in doomed : /\ victim' = x
                       /\ bytes' = [bytes EXCEPT ![cur] = @ \ {x}]
  /\ PassKeeps(<<created, job, now, slugs, todo, cur, left, refs, doomed>>)

(* deleteLocked: bytes first, then the row. *)
DeleteBytes ==
  /\ at = "delete" /\ at' = "deleteRow"
  /\ \E x \in doomed : /\ victim' = x
                       /\ bytes' = [bytes EXCEPT ![cur] = @ \ {x}]
  /\ PassKeeps(<<created, job, now, slugs, todo, cur, left, refs, doomed>>)

DeleteRow ==
  /\ at = "deleteRow" /\ at' = "delete"
  /\ created' = [created EXCEPT ![cur][victim] = None]
  /\ doomed' = doomed \ {victim}
  /\ victim' = None
  /\ PassKeeps(<<bytes, job, now, slugs, todo, cur, left, refs>>)

UnlockSlug ==
  /\ at = "delete" /\ doomed = {} /\ at' = "scan"
  /\ job' = [job EXCEPT ![cur] = Free]
  /\ cur' = None
  /\ PassKeeps(<<assetVars, now, slugs, todo, left, refs, doomed, victim>>)

\* The pass ends; its locals die with it.
Ends ==
  /\ at' = "idle" /\ now' = 0 /\ slugs' = {} /\ todo' = {} /\ cur' = None
  /\ left' = {} /\ refs' = {} /\ doomed' = {} /\ victim' = None

Finish == at = "scan" /\ todo = {} /\ slugs = {} /\ Ends /\ Reads /\ PassKeeps(<<>>)

(* Any store call of the pass fails, or its process dies: nothing is undone, the lock
   is free. *)
Abort ==
  /\ at # "idle" /\ Ends
  /\ job' = [s \in Slug |-> IF job[s].at = "gc" THEN Free ELSE job[s]]
  /\ PassKeeps(<<assetVars>>)

Pass ==
  \/ ListDocs \/ ListVersions \/ ReadVersion \/ ReadDraft \/ LockSlug \/ Decide
  \/ DeleteBytes \/ DeleteRow \/ UnlockSlug \/ Finish
-----------------------------------------------------------------------------
Tick ==
  /\ clock < MaxClock /\ clock' = clock + 1
  /\ UNCHANGED <<htmlVars, assetVars, calls, job, passVars>> /\ History

Next ==
  \/ \E s \in Slug : Author(s) \/ Continue(s) \/ Fail(s)
  \/ Start \/ Pass \/ Abort
  \/ Tick

Spec == Init /\ [][Next]_vars

(***************************************************************************)
(* A pass goes on, and gets the slug lock if it is free again and again; a *)
(* running handler goes on.  Nothing is owed by authors or by the clock,   *)
(* and no pass need start.                                                 *)
(***************************************************************************)
FairSpec ==
  /\ Spec
  /\ WF_vars(Pass) /\ SF_vars(LockSlug)
  /\ \A s \in Slug : WF_vars(Continue(s))
-----------------------------------------------------------------------------
Time == Clock \cup {None}
PassAt == {"idle", "docs", "scan", "read", "decide", "delete", "deleteRow"}

(* Every variable ranges over the values the code can hold. *)
TypeOK ==
  /\ blob \in [Slug -> [Version -> Html \cup {None}]]
  /\ draft \in [Slug -> Html \cup {None}]
  /\ doc \in [Slug -> BOOLEAN]
  /\ bytes \in [Slug -> SUBSET Sha] /\ created \in [Slug -> [Sha -> Time]]
  /\ clock \in Clock /\ calls \in 0..MaxCalls
  /\ job \in [Slug -> [at : JobAt, sha : Sha \cup {None}]]
  /\ at \in PassAt /\ now \in Clock
  /\ slugs \in SUBSET Slug /\ todo \in SUBSET Slug /\ cur \in Slug \cup {None}
  /\ left \in SUBSET Version /\ doomed \in SUBSET Sha /\ victim \in Sha \cup {None}
  /\ steady \in SUBSET Place /\ always \in SUBSET Sha

Collecting == at \in {"decide", "delete", "deleteRow"}

\* The lock: a slug in the hands of the pass is the one it collects.
LockHeld == /\ Collecting => cur \in Slug
            /\ \A s \in Slug : job[s].at = "gc" <=> Collecting /\ s = cur
\* A handler past its first write knows its asset; a removal past its sweep has left no
\* asset, if the stores report what failed.
JobDone(s) ==
  /\ job[s].at \in {"putRow", "dropRow"} => job[s].sha \in Sha
  /\ job[s].at = "dropRow" => job[s].sha \notin bytes[s]
  /\ Reliable /\ job[s].at \in {"dropRows", "dropMeta"} => bytes[s] = {}
\* What is doomed is referenced neither by the snapshot nor by the slug itself.
DoomedUnreferenced == at \in {"delete", "deleteRow"} =>
  /\ doomed \cap (refs \cup OwnRefs(cur)) = {}
  /\ at = "deleteRow" => victim \in doomed \ bytes[cur]
\* A steady place is listed, and still to be read, or what it refers to is in refs.
SteadySeen == \A q \in steady :
  /\ HtmlAt(q[1], q[2]) # None
  /\ doc[q[1]]
  /\ at # "idle"
  /\ at # "docs" =>
       \/ at \in {"scan", "read"} /\ q[1] \in todo
       \/ at = "read" /\ q[1] = cur /\ q[2] \in left \cup {0}
       \/ Scanned(HtmlAt(q[1], q[2])) \subseteq refs
Reading == /\ at = "read" => cur \in Slug
           /\ Collecting => todo = {}

(* The inductive invariant: the pass collects only the slug whose lock it holds, what
   it doomed stays unreferenced there, and the snapshot has all that kept still. *)
IInv ==
  /\ TypeOK /\ LockHeld /\ Reading /\ DoomedUnreferenced /\ SteadySeen
  /\ \A s \in Slug : JobDone(s)

\* The pass deletes the bytes of asset x of s in this step.
Deletes(s, x) == job[s].at = "gc" /\ x \in bytes[s] /\ x \notin bytes'[s]

(* The pass never deletes an asset that a version or the draft of its own document
   refers to at that moment, whoever published what since the snapshot. *)
OwnReferencedKept ==
  [][\A s \in Slug, x \in Sha, v \in 0..MaxVersion :
       Deletes(s, x) => x \notin References(HtmlAt(s, v))]_vars

(* Nor one that a version or draft of any document refers to, if the document was listed
   and that version or draft there when the pass began, and neither has changed since. *)
SteadyReferencesKept ==
  [][\A s \in Slug, x \in Sha : Deletes(s, x) =>
       \A q \in steady : x \notin References(HtmlAt(q[1], q[2]))]_vars

(* "GC never deletes a referenced asset", one some live HTML has referred to at every
   moment since the pass began. *)
EverReferencedKept == [][\A s \in Slug, x \in Sha : Deletes(s, x) => x \notin always]_vars

(* An asset's row is given up only when its bytes are gone, so that whatever a deletion,
   removal or pass that failed leaves behind is still listed for the next one: as long as
   the stores report what failed. *)
RowOutlivesBytes ==
  [][\A s \in Slug, x \in Sha :
       created[s][x] # None /\ created'[s][x] = None => x \notin bytes[s]]_vars

(* Every pass comes to an end: no slug lock is waited for in vain. *)
PassEnds == at = "docs" ~> at = "idle"
=============================================================================
