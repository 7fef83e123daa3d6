# octo-doc: a TLA+ model

octo-doc stores HTML documents under a slug, numbers their versions, keeps
comments on them as event logs, and serves them from several app instances that
share one PostgreSQL database and one S3 bucket. These modules model the
parts of it that are hard to test: the locks that serialize work on a slug, the
handlers that combine several stores without a transaction, the event logs that
comments are folded from and the stamps they are anchored to, the collection of
assets among authors, and the gate readers come through. TLC checks the models on small instances; TLAPS
checks proofs of the most important properties for every size.

## The system

| Component | State | Operations | Hard behaviour |
|---|---|---|---|
| `platform/sluglock` | map key → mutex with a waiter count | `With` | reclaiming a slot while others wait on it |
| `storage/postgres` locker and pools | advisory locks of the server; a lock pool and a query pool per instance | `With`, queries | cancellation racing the grant, failed unlock, pool exhaustion |
| `service/doc.go` | none of its own; blobs, meta row, comment row | Publish, SaveDraft, Promote, Remove; readers | several store calls without a transaction, swallowed errors |
| `service/capability.go` | share-code hash in the meta row's Extra | GenerateCode, RevokeCode, CapabilityFor | read-modify-write of a row others write too |
| `service/comment.go` | comment row of a slug | every comment operation, wipe, publish merge | read-modify-write of the whole list |
| `core` (events, fold, ops, reconcile) | event log per comment | append, dedup, fold at a version, re-bind, compact | event ids that repeat, versions in any order |
| `service/asset.go` | bytes in the bucket, rows in the database | Put, Delete, readers | two stores in step |
| `service/gc.go` | locals of a pass | GCAssets | a scan of all documents without locks, decisions slug by slug under them |
| `service/auth.go` | tokens, sessions | Bootstrap, sessions | one-shot check-and-set by two statements, at several instances |
| `storage/s3` | objects under a slug's prefix | put, head, list, delete | failures per key |
| `transport/httpx` | capability cookies, rate-limit windows | routing, gates, handlers | checks made before the lock is taken; three carriers of a credential |
| `core/stamp.go` | the stamps in the HTML | StampAids, AIDs | HTML that was stamped before, edited and copied; nesting, raw text |
| `render.go`, `assets/overlay.js`, `config`, `cmd` | – | text transformations, browser UI, start-up | – |

A request goes through the HTTP handler, which validates it, to a service, which
takes the slug lock (`Locker.With`) and then calls the stores one after another.
Publish, SaveDraft and Promote stamp the HTML first. Publish and Remove call into the comment service while they hold the lock, with
the variants that do not take it again. Readers take no lock, except for
comments.

What makes the parts correct:

- the locks: one function per key at a time, no leak, no stuck caller;
- versions: a number is stored once, listed only when stored, and an answer means
  it is both; drafts are never lost between the slot and the version;
- metadata: each change touches its own field of the current row;
- removal: an answer means nothing is left in any store;
- assets: collection takes nothing that is referred to and kept still, and, if the
  object store reports what it could not delete, no row goes before its bytes;
- access: who is served had a credential that opened the page; a good link opens;
- bootstrap: one token at most is reported, while lock sessions hold;
- stamps: an aid names what its element shows, and is settled once stamped;
- comments: an answered comment is there; history does not change, deletions stay,
  compaction cannot be seen, anchors point to something in the page or say they
  are lost.

## Modules

| Module | What it is | Code |
|---|---|---|
| `KeyedLock` | what a locker promises (abstract) | `sluglock.Locker` |
| `SlugLock` | the in-process locker | `sluglock.Memory` |
| `AdvisoryLock` | the PostgreSQL locker under its connection pools | `postgres/advisorylock.go`, `postgres.go` |
| `DocRecord` | what the stores of one slug promise (abstract) | the doc comments of the operations |
| `DocStore` | the handlers of one slug, one store call per step | `service/doc.go`, `comment.go`, `asset.go`, `capability.go`, `s3.go`, `postgres.go` |
| `DocAccess` | `DocStore` with viewers at the gate and the link of a share call | `httpx/capability.go`, `handlers_docs.go`, `service/capability.go` |
| `Bootstrap` | `AdvisoryLock` with bootstraps of the write token as its callers | `service/auth.go` |
| `AssetGC` | a collection pass among authors of several slugs | `service/gc.go`, the writes of `doc.go` and `asset.go` |
| `Stamp` | stamping as operators on HTML tokens | `core/stamp.go` |
| `Stamping` | one document and one comment, stamped, edited and published | `service/doc.go`, `core/reconcile.go` |
| `CommentLog` | the comment event logs of one slug | `core/events.go`, `fold.go`, `ops.go`, `reconcile.go` |
| `*_proofs` | theorems and proofs about the module of that name; those about `AdvisoryLock` are in `Bootstrap_proofs` | |
| `Induction` | induction and recursion over an interval, for those proofs | |
| `MC*` | instances for TLC | |

**SlugLock.** `Acquire` and `Release` are atomic because `m.mu` is held; between
them and the entry's own mutex another goroutine may act. A new entry may be any
heap identity nothing points to, so a reclaimed one can come back for another
key. The definitions named after a slip (`ReleaseAlwaysDeletes`, …) are not part
of `Next`; each is what the code would be with one plausible bug, and the property
it breaks is recorded with it in `PROJECT.json`. The same holds for
such definitions in the other modules.

**AdvisoryLock.** A connection of the lock pool is a session of the server. A
session whose connection is closed keeps what it holds until the server ends it
(`closing`, `EndSession`). `Grant` is the server's step, `Enter` the client's;
`Cancel` may fall between them. Under fn the process may die (`Die`), which closes the
session, or, with `"sessionLoss"` in `Faults`, the session alone (`LoseSession`): then fn
runs on without the lock and is not told. Requests of one instance share its two pools.
Requests without a lock (`Read`) take query connections only. Keys are mapped to
lock ids by an arbitrary function, collisions included.

**DocStore.** A handler is a position `pc[p]` and a frame `f[p]` with its arguments
and locals. `Enter` is the grant of the slug lock, as `KeyedLock` gives it;
every store call is a step; `Reply` is the return. `Fail` ends a handler before any
call and keeps the calls already made, which is an error return, a cancelled
request and a crash alike. Best-effort calls (`ClearDraft`, `ClearMarker`,
`ReadMarker`) may silently do nothing if errors are possible. `DeleteDoc` may stop
part of the way (`DeleteDocFails`), or leave keys without saying so
(`silentDelete`). The HTTP handler and the checks before the lock are the
arrival actions, one per operation.

**CommentLog.** Each operation runs under the slug lock from read to write, so it is
one step; `DocStore` is where that read and write are taken apart. A log is a
sequence of events, folded with the code's order: deduplicate by event id, sort
stably by version, replay up to the version asked for. The two maps of the code's
dedup are `lastByEID` and `emitted`; its stable sort is `replay` going version by
version and, in each (`replayVersion`), in the order of the log. Event ids appear as
the relation `SameEID`. An anchor keeps as `hint` the artifact it was made on, which
stands for its label, fingerprint and nearest heading. `full` is a history of the
same logs without compaction.

**DocAccess** extends `DocStore`: its next-state relation is a step of a handler
(with what it means to the viewers, `Watch`), a step of the link, or a step of a
viewer. Each lookup of a credential reads the row anew (`Resolve`), so the row may
change between two of them, and `Exchange` brings the viewer back to the gate with
the new cookie. A bearer, a cookie and a `?code=` may each be a share code or the write
token. After a share call has released the lock, its handler puts the link together from
two more reads (`ListRow`, `ListBlobs`); if one of them fails the call answers all the
same, with a link to version 1 (`LinkFails`), and only a process that dies answers nothing
(`LinkDies`). The histories `fresh`, `ever`, `intact` and those in `link` (`had`, `found`)
exist for the properties only; no action reads them in its guard.

**Bootstrap** extends `AdvisoryLock`: fn of the key `__bootstrap__` is a look at the
tokens table and an insert, each a query of that module with a connection of its
own. A statement may fail (`Break`), or its process die (`Crash`), and an insert that was
under way is then there, or in `late`: the server may still commit it, or not, after the
lock has gone to another (`Land`). `made` is the history of the inserts that were
reported done, whose tokens are answered.

**AssetGC.** Of an author's handler only the writes are steps; `DocStore` takes it
apart call by call for one slug, and here several slugs matter. The lock is taken
with the first write. HTML is the set of its maximal runs of hex digits, and
`scanInto` is the code's choice of windows over them; `References` says, without
windows of the code, what it ought to find. The pass reads each version, then the
draft, without the lock; then per slug it decides and deletes under the lock. A
failure may end a handler between two writes and the pass at any step. With
`"silentDelete"` in `Faults` a removal's sweep may leave objects without an error, as
`s3.go:310` does, and the removal goes on to its rows.

**Stamp, Stamping.** HTML is a sequence of tokens. `Stamp` has the scanner
(`findCloseEnd` with raw text, void and self-closed elements), what an artifact is,
what its hash depends on, and the rewriting of the tags. `Stamping` lets authors
start from stored HTML, which has stamps in it, and reword, remove and copy
elements; each publish re-binds one comment's anchor as `reconcileComment` does.
`Shown` defines from the nesting, not by scanning, what a reader sees of an element.

## Runs

| Run | Instance | What it shows |
|---|---|---|
| `SlugLock` | 3 goroutines, 2 keys, 3 entries | mutual exclusion, reclaimed slots, that callers return, and that it implements `KeyedLock` |
| `AdvisoryLock` | `MCBootstrap`: 3 requests on 2 instances, pools of 1, 3 sessions, 3 keys on 2 ids, 2 tokens | mutual exclusion and refinement under cancellation, failed unlocks and processes that die, while sessions hold; one token at most is reported |
| `AdvisoryReturns` | 2 requests on 1 instance, pools of 1, sessions that die | every call and read returns |
| `DocVersions` | 2 handlers, 2 HTMLs, versions to 3, one of them nameable by clients, errors | numbering, commitment, drafts, refinement of `DocRecord` |
| `DocRecords` | 2 handlers, 1 version body, 1 code, 1 comment, 1 asset, errors | row updates against removal, answered comments, refinement, and that every request is answered |
| `DocUnlocked` | 2 publishers and sharers, sessions that die | versions are listed after their HTML even without the lock |
| `DocAccess` | 1 handler that publishes, shares and removes, 1 viewer, 2 codes, versions to 2, errors | who is served, that a good code opens, that a share link made from a list opens and is current |
| `AssetGC` | 2 slugs, uploads to one, addresses of 2 digits, runs searched whole up to 4, 2 HTMLs, 2 versions, 1 tick, grace 1, 3 requests of authors, failed deletions reported | what a pass may delete, that nothing left behind is lost sight of, that a pass ends |
| `Stamping` | 3 pages (nested, under a heading, with a script), 2 edits | aids, and anchors that follow their content |
| `CommentLog` | 1 comment, 1 reply, 1 user, 3 artifacts, 2 versions, 5 events | compaction, history, deletion, anchors, reply reactions |
| `GCMisses`, `SilentDelete` | as `AssetGC`; a removal whose object store fails per key | a statement of the documentation that the code does not keep (below) |

### Bounds

- *SlugLock*: with three goroutines one can hold, one wait and one release or
  arrive; three entries are as many as three goroutines can point to.
- *AdvisoryLock*: pools of one connection are the tightest the code allows; the
  sessions beyond those two connections stand for closed ones the server has not
  ended. `k1`, the bootstrap's key, and `k2` hash to one id, `k3` to another. Three
  requests let one hold, one wait and one cancel, of the same instance or not; the
  second token is there to be minted by mistake, or after an insert that has yet to land.
- *DocStore*: two handlers are enough for any one to be overtaken between two of its
  calls, and runs contain any number of requests, so any leftover state an earlier
  failure can produce is met. `MaxVersion` only stops minting (`VersionsExhausted`).
  `DocVersions` and `DocRecords` split the operations by the state they share.
- *DocAccess*: viewers change nothing but their own cookie and request, so one viewer
  meets every interleaving a crowd could; two codes make one link old; the handler
  changes the row any number of times during a request, and between the two reads a link
  is made from. Revocations are left to `DocRecords`: to a viewer they are a new code that
  nobody has, or a removal. Two versions make a link old.
- *AssetGC*: one slug is collected and the other holds references, the least in which
  a scan and a reference can miss each other. Addresses of two digits in runs of
  three have an unaligned window; a run of five is beyond the limit of four and has
  its last window apart. Two versions and a draft are what a promote moves between.
  Three requests of authors suffice to set up a reference, the asset, and one change
  during the pass; one tick separates what is young from what is expired.
- *Stamping*: the pages hold each construct the scanner treats specially; two edits
  allow one that copies and one that changes or removes the original or the copy.
- *CommentLog*: comments do not read one another's logs, so one is enough. Five events
  allow added, removed, added and one more, or a creation, a re-anchor, a publish
  and a deletion; `Latest` is a version above all others, as 999999 is in a
  deletion without a version.

### Fairness

`FairSpec` in `SlugLock` has weak fairness for the steps a runnable goroutine takes
and strong fairness for `Lock`: a Go mutex switches to handing itself over when a
waiter starves. In `AdvisoryLock` pools and the lock table serve their waiters
in order, hence strong fairness for `AcquireConn`, `AcquireQuery`, `AcquireRead` and
`Grant`; `Return` is strongly fair because fn may make many queries but ends. In
`DocStore` a running handler goes on and a waiting one is let in if the lock is free
again and again. In `AssetGC` the pass goes on (weak fairness of its steps), gets the
slug lock if it is free again and again (strong fairness of `LockSlug`, as above),
and a running handler goes on; nothing is owed by authors or the clock, and no pass
need start. No fairness is assumed of arrivals, cancellations, failures or lost
sessions. Deadlock is checked in every run.

### Where the code and its documentation disagree

Two runs show a disagreement:

- **GCMisses.** The scan reads a slug's versions first and its draft last. A promote
  of another slug between the two moves a reference past it: the version was not
  there when the versions were listed, the draft is gone when it is read, and the
  asset it refers to, as it did all along, is deleted. `docs/ASSETS.md:342` says a
  referenced asset is never deleted, and `gc.go:69` names a document that *begins* to
  refer as the only race. `SteadyReferencesKept` is what does hold across documents,
  `OwnReferencedKept` what holds for the asset's own.
- **SilentDelete.** `DeleteObjects` reports failures per key; `DeleteDoc` does not read
  them, and a removal answers with objects still stored. Of an asset the bytes may be
  left without their row, which no later pass of the collection lists
  (`RowOutlivesBytes` is checked and proved for stores that report failures, `Faults = {}`;
  in `AssetGC` too TLC finds it violated with `"silentDelete"`).

The models have further steps that a document or comment describes otherwise. No run
is spent on showing them:

- `handleShare` treats a list of versions that could not be read as an empty one
  (`verr == nil`, `handlers_docs.go:216`) and answers a link to version 1 (`LinkFails`),
  whatever was listed when the code was stored, and whether or not there is a version 1;
  its comment (`:214`) says the latest if one exists. `LinkOpens` and `LinkHolds` are
  about links made from a list that was read, and say nothing of such a link.
- `auth.go:55` says that two concurrent bootstraps cannot both mint a first token, in a
  single instance, and warns of several. PostgreSQL frees the lock when the session
  that holds it breaks, and the bootstrap under it is not told, so another enters, and
  both insert and answer: with `"sessionLoss"` in its `Faults` and the requests `Pair` of
  the one instance `Deployed` (pools of 2), TLC finds `MCBootstrap` to violate `OneToken`.
  The warning stands. What holds is narrower: while sessions hold, one token at most is
  reported, by whichever instances (`OneTokenHolds`), and an insert that was cancelled or
  whose process died may leave a further row, whose token nobody was given.
- A client may name the version it publishes, and the stored HTML is then replaced
  (`doc.go:410`). `README.md:40` and `docs/ARCHITECTURE.md:94` call versions write-once.
- A draft that could not be cleared (`doc.go:249`) is minted again by the next promote;
  `CHANGELOG.md:49` calls promote idempotent past the commit.
- A draft blob without a row, left by a SaveDraft that failed in between, belongs to a
  slug the collection scans only if it has assets itself.
- Where the lock does not keep writers apart (a lost session), the whole comment list
  is replaced and an answered comment is lost (`comment.go:154`);
  `docs/ARCHITECTURE.md:187` and `docs/DESIGN.md:102` promise convergence per event.
- Reaction ids repeat and dedup keeps the first position, so a third reaction by one
  user does nothing (`events.go:26`), and so does a third verdict of an agent for one
  version (`events.go:28`); `docs/ARCHITECTURE.md:151` calls a reaction a toggle. For
  the same reason a later reaction changes the snapshot of an older version, and
  `PastStands` excludes reactions.
- `PatchAnchor` resets the status but keeps the verdict's emoji (`fold.go:75`), although
  `Reanchor` says it resets the verdict. A deletion of a reply that names an earlier
  version than the reply has no effect (`fold.go:165`).
- Stamping is not idempotent when an artifact holds a self-closed tag or a capital in
  a tag name: writing the stamp changes the text the outer artifact's hash is made of
  (`stamp.go:399`), so a promoted draft may have other aids than the draft had.
  `stamp_test.go:37` promises the opposite. `Slashed` in `MCStamping` is such a page:
  with it as `Html`, `PromoteKeepsStamps` fails in two steps. `PromoteStamps` is the
  theorem that it holds for HTML without the two.
- Tags in the text of a script are harvested as artifacts (`Artifacts`, as in
  `harvestStampableTags`), although `stamp_test.go:61` says that content must not be
  scanned for them; its example has no tag in the script.
- An asset uploaded again keeps its first upload time (`postgres.go:304`) and so has no
  grace period, which `gc.go:55` promises to an upload not yet in a draft.

## Proofs

Assumptions on constants are in the modules, named, and TLC evaluates them.

**SlugLock** (any number of goroutines, keys and entries; `Proc` finite). The
invariant `IInv` says that a counted caller points to the very entry the map
holds for its key, that distinct keys have distinct entries, and that
`waiters[e]` is the number of callers pointing to `e`. Mutual exclusion alone is
not inductive: it needs that two callers of one key share one entry, which in
turn needs that a slot is reclaimed only when its last user leaves. From it
follow `MutualExclusion`, `MapBoundedToInFlight`, `BlockedOnlyBySameKey` and
`ImplementsKeyedLock`.

**AdvisoryLock** (any placement of requests, any hash, any pool size). `IInv` says
that sessions are not shared, that whoever runs fn has its own session registered
as the holder, and that a lock held by nobody running is on its way to its caller
or to being freed. It is proved whatever `Faults` are; that a running request's session
is the holder is part of it only if sessions hold (`SessionsHold`), and so are
`MutualExclusion` and `ImplementsKeyedLock`, which follow from it: without that they are
false.

**DocStore** (any handlers, contents, bounds and operations, under `Reliable`:
stores may fail any call but lose no lock session and hide no failed delete). `IInv`
has four parts: types; the lock is held exactly by the handler inside; listed
versions have their HTML; and `Local`, what each handler knows at each call (its
copies are current, its number is fresh, its earlier writes stand). The second part
is what makes the last inductive: another handler's step cannot change what a
handler relies on because that handler is not inside. From it follow
`AnsweredIsCommitted`, `RemoveLeavesNothing`, `ListedHaveBlobs`, the action properties
`AutoNeverOverwrites`, `DraftClearedOnlyWhenPublished` and
`CodeChangedOnlyByItsHandlers`, and the refinement `ImplementsDocRecord`.

**AssetGC** (any slugs, HTML, addresses, width, slide limit, grace and bounds). `IInv`
says that the pass collects only the slug whose lock it holds (`LockHeld`), that what
it doomed is referred to neither by the snapshot nor by the slug (`DoomedUnreferenced`,
kept because a slug's HTML changes only under its lock), and that every place
listed and unchanged since the pass began is still to be read or has its references in
the snapshot (`SteadySeen`). With the lemma that the code's windows find every reference
of `References`, `OwnReferencesHold` and `SteadyReferencesHold` follow, for sweeps that leave
objects unreported as well. A document whose row such a removal drops is no longer
listed, so what is left of it does not count as steady. `RowsOutlive` assumes `Reliable`,
that every failed deletion is reported, and needs `JobDone`: then a handler past its
first write has the bytes gone that its row stands for. Without it the theorem is false,
as the trace of `SilentDelete` shows.

**DocAccess.** `GateInv` says that a credential which won has opened the page during
this request, and that a fresh code is still to be resolved or has won; `Served` and
`SteadyOpens` follow without any assumption on the stores. `LinkHolds` takes
`Reliable`: every behaviour embeds one of `DocStore`, whose invariant says what a
listed version is, and `LinkInv` carries it through the two unlocked reads. It is about
links made from a list; one answered without
it is `guessed`, and nothing is claimed of it.

**Bootstrap** (any requests, instances, pools and keys, under `SessionsHold`). `BootInv`
says that a bootstrap about to insert runs fn and that no insert has been reported done
since it looked (`made = {}`); abandoned inserts may have landed meanwhile, so the
table itself need not be empty. It is inductive because `MutualExclusion`, from the
invariant of `AdvisoryLock`, keeps every other bootstrap out; `OneTokenHolds` follows.

**Stamping** (any authors, words, tags and number of edits, if HTML as authors write it
is `PlainHtml`: no self-closed tags, no capitals in names). All stored HTML is
then a fixed point of `StampAids`: what stamping writes does not change where
elements end nor what any hash depends on. Edits keep HTML plain, which is what makes
this inductive. `StampsSettled` and `PromoteStamps` follow. `AnchorsResolve` needs neither
condition, only that HTML is made of tokens: its invariant `AnchorInv` ties the index
`StampAids` returns, which `Reconciled` looks at, to the aids it writes.

`AidsName` and `AnchorsFollow` are about what a reader sees (`Shown`), and need HTML that
is `WellNested` as well: elements nest and are all closed, closing tags are bare, and no
artifact or raw-text element with content begins in raw text. Without it they do not
follow from the code: where `findCloseEnd` finds no closing tag it returns the end of
the opening one, so the aid covers nothing of the content, and a tag in the body of a
script ends where the script says. All pages of the run are plain and well nested, and
TLC found the same of all HTML the run stores. The depth `findCloseEnd` counts is the number of
elements of that name which have yet to end (`Pend`), so it finds the end a
reader sees (`FindIs`), and the aid stands for what is shown (`AidsMatch`). Stamping and every edit
leave HTML well nested (`StampNests`, `RewordedNests`, `WithoutNests`, `CopiedNests`; the
last two cut at the ends of elements, `NestPieces`), which makes `NestInv` inductive.

**CommentLog** (any comments, replies, readers, versions, number of events, pages and
local comments). `IInv` says that each log is well-formed, one creation at its head and
no reply added twice (`Wellformed`), and that it has the same deduplicated form as the
log that was never compacted. The second part is inductive because deduplicating is
the same as storing events one by one, each in the place of the earlier event with its
id or else at the end (`DedupAppend`), so appending to the compacted log and to the full
one leads to the same form (`DedupConcat`), and deduplicating twice changes nothing
(`DedupTwice`). Every operation appends to a log, creates one or wipes them all
(`StepGrows`), and what grows so keeps `IInv` (`GrowsKeeps`). On it rest
`CompactionHolds`, since a snapshot depends on the log by its deduplicated form and its
first event alone; `PastHolds`, since an event that is not a reaction replaces only
events of its own version (`PutLater`); `DeletedHolds`, since a deletion's id can only be
taken by another deletion; `AnchorsSettled`; and `ReactionTurnsHolds`. Proving
this found one slip of the model: two arms of `applyCommentEvent` overlapped, as did two of
`scanned`, which TLC, going through them in order, did not show.

Dedup, replay and the scans of stamping are recursive functions. The prover knows no induction
rule that takes a predicate, so the induction is put into sets: the positions at which
a fact holds contain 0 and with every i - 1 also i, hence all of 0..n (`SetInduction`
in `Induction`, from the well-foundedness of the naturals; `RangeInduction` for i..n).
`Recursion` and `RangeRecursion` show by it that the function a recursive definition
asks for exists, which is what makes its equation usable.

Only model-checked: liveness (`CallsReturn`, `Answered`, `PassEnds`), which the prover
does not reach, and `DocUnlocked`, which runs without `Reliable`; it has no removals, and
shows the order of a publish's writes, not what a second handler overwrites.
Only proved, and in no run: `BlockedOnlyBySameKey`, and that `IInv`, `OwnReferencedKept` and
`SteadyReferencesKept` of `AssetGC` hold with `"silentDelete"` in `Faults` too.

## Not modelled

- *Readers* (`Render`, `GetDraft`, the catalogue) change nothing and answer what they
  read; only the combination `handleShare` makes is in `DocAccess`.
- *The rate limiter* is one critical section per request and a fixed window of the
  clock: there is no interleaving in it, and what may be disputed are its limits.
- *Sessions* have no writer: the login that would create them is switched off.
- *Rendering, export, response formats, MIME sniffing and CORS* are functions of their
  input; no other part relies on their result.
- *Of stamping*: the digits of the hash, which is taken to be free of collisions,
  quoting, classes of whitespace, and letters outside ASCII.
- *Of the comment log*: local comments that already carry an event log, legacy replies
  and text edits, which no operation writes. An agent's reply picks its version from
  an unlocked read; the model lets it name any version.
- *In `DocStore`* a call of a store has happened or not when its handler goes on. A
  statement that was cancelled and takes effect after the lock was given back
  (`PutMeta`, say) is not modelled there; for the bootstrap's insert it is.
- *Version numbers* do not overflow in the model (`doc.go:423`).
- *The in-memory stores* serve the tests; one mutex makes each call atomic, as every
  module assumes of a store call.
- *The overlay, configuration, logging and commands* have no protocol state.

What would come next: the composition of `DocStore` with `AdvisoryLock`, where the session
that dies is a step of the lock instead of a fault of the store.
