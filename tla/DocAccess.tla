----------------------------- MODULE DocAccess -----------------------------
(***************************************************************************)
(* Who sees what of one document while its handlers run (DocStore): the    *)
(* gate of capability.go with its exchange of ?code= for a cookie, the     *)
(* pages behind it, and the link handleShare answers with.  None of them   *)
(* takes the slug lock: every store read is one step, and a handler may    *)
(* write between any two.                                                  *)
(*                                                                         *)
(* A credential is a share code or the write token, which is static (a     *)
(* provisioned one is read from the store, where nothing removes it).  A   *)
(* cookie only ever holds what the exchange put there.  The JSON gates do  *)
(* what the HTML gate does with a request that has no ?code=, and that is  *)
(* how their clients come: the CLI with a bearer, the overlay with the     *)
(* cookie.                                                                 *)
(***************************************************************************)
EXTENDS DocStore

CONSTANTS Viewer, Token

Cred == Code \cup {Token}
ASSUME TokenFresh == Token \notin Code \cup {None}

VARIABLES jar,     \* jar[w]: the document's capability cookie
          at, req, \* each viewer's position and request
          link,    \* what the last share call answers with
          intact   \* history: no removal has deleted objects since that code was stored

viewVars == <<jar, at, req>>
allVars == <<vars, viewVars, link, intact>>

\* Where a request may carry a credential.
Carrier == {"bearer", "cookie", "code"}

\* author: the page asks for the author; code: the request's ?code=; given: the one the
\* viewer first came with, which the redirect drops; todo: where credentials are still to
\* be resolved; cred: the best so far.
\* History: fresh, given has opened this page ever since the viewer came with it; ever,
\* some credential of the request has opened it at some time during the request.
Requests == [author : BOOLEAN, bearer : Cred \cup {None}, code : Cred \cup {None},
             given : Cred \cup {None}, todo : SUBSET Carrier, cred : Cred \cup {None},
             fresh : BOOLEAN, ever : BOOLEAN]
NoRequest == [author |-> FALSE, bearer |-> None, code |-> None, given |-> None,
              todo |-> {}, cred |-> None, fresh |-> FALSE, ever |-> FALSE]

\* row, blobs: handleShare is about to read the row, the stored versions; had: what the
\* row listed when the code was stored; listed: what it listed when it was read; found:
\* the link names a version that was there.  sent, guessed: the link was answered, from a
\* list or without one.
Links == [stage : {"none", "row", "blobs", "sent", "guessed"}, had : SUBSET Version,
          listed : SUBSET Version, version : Version, found : BOOLEAN]
NoLink == [stage |-> "none", had |-> {}, listed |-> {}, version |-> 1, found |-> FALSE]

AccessInit ==
  /\ Init
  /\ jar = [w \in Viewer |-> None]
  /\ at = [w \in Viewer |-> "idle"]
  /\ req = [w \in Viewer |-> NoRequest]
  /\ link = NoLink
  /\ intact = TRUE
-----------------------------------------------------------------------------
(* CapabilityFor: 2 author, 1 reader, 0 none; m is the row. *)
CapabilityFor(c, m) ==
  IF c = Token THEN 2 ELSE IF c # None /\ m # None /\ m.share = c THEN 1 ELSE 0

\* What a credential that has won is worth.
Rank(c) == IF c = Token THEN 2 ELSE IF c = None THEN 0 ELSE 1

(* The capability a gate asks for: any for a page or a list, the author's for the draft. *)
Min(r) == IF r.author THEN 2 ELSE 1

\* What the request r with the cookie carries at k.
At(k, r, cookie) == CASE k = "bearer" -> r.bearer [] k = "cookie" -> cookie [] OTHER -> r.code

\* One of the credentials of r opens what it asks for under the row m.
Opens(r, cookie, m) == \E k \in Carrier : CapabilityFor(At(k, r, cookie), m) >= Min(r)

(* credCandidates: those of bearer, cookie and ?code= that are there. *)
credCandidates(r, cookie) == {k \in Carrier : At(k, r, cookie) # None}

\* They are resolved in that order.
IsFirst(k, todo) ==
  k \in todo /\ (k = "cookie" => "bearer" \notin todo) /\ (k = "code" => todo = {"code"})

\* A request as it arrives with the cookie.
Arrive(r, cookie) == [r EXCEPT !.todo = credCandidates(r, cookie), !.cred = None,
                               !.ever = Opens(r, cookie, meta)]

(* A viewer asks for a page, with ?code=, a bearer token or nothing but the cookie. *)
Open(w) ==
  /\ at[w] = "idle"
  /\ at' = [at EXCEPT ![w] = "gate"]
  /\ \E a \in BOOLEAN, b, c \in Cred \cup {None} :
       LET r == [NoRequest EXCEPT !.author = a, !.bearer = b, !.code = c, !.given = c]
       IN req' = [req EXCEPT ![w] = [Arrive(r, jar[w]) EXCEPT
                                       !.fresh = CapabilityFor(c, meta) >= Min(r)]]
  /\ UNCHANGED <<vars, jar, link, intact>>

\* The first credential present is the one that counts.
ResolveOnlyFirst(w) ==
  /\ at[w] = "gate"
  /\ \E k \in req[w].todo :
       /\ IsFirst(k, req[w].todo)
       /\ LET c == At(k, req[w], jar[w])
          IN req' = [req EXCEPT ![w].todo = {},
                                ![w].cred = IF CapabilityFor(c, meta) > Rank(@) THEN c ELSE @]
  /\ UNCHANGED <<vars, jar, at, link, intact>>

(* bestCred's loop: CapabilityFor reads the row anew for each credential. *)
Resolve(w) ==
  /\ at[w] = "gate"
  /\ \E k \in req[w].todo :
       /\ IsFirst(k, req[w].todo)
       /\ LET c == At(k, req[w], jar[w])
          IN req' = [req EXCEPT ![w].todo = @ \ {k},
                                ![w].cred = IF CapabilityFor(c, meta) > Rank(@) THEN c ELSE @]
  /\ UNCHANGED <<vars, jar, at, link, intact>>

Resolved(w) == at[w] = "gate" /\ req[w].todo = {}
Suffices(w) == Rank(req[w].cred) >= Min(req[w])

\* The request is over.
Answer(w) ==
  /\ at' = [at EXCEPT ![w] = "idle"]
  /\ req' = [req EXCEPT ![w] = NoRequest]
  /\ UNCHANGED <<vars, jar, link, intact>>

(* docHTMLGate: less than the page asks for is a 404. *)
Deny(w) == Resolved(w) /\ ~Suffices(w) /\ Answer(w)

\* The credential came in by ?code= and won.
Exchanges(r) == r.code # None /\ r.code = r.cred /\ r.bearer = None

(* The credential becomes the cookie, and the redirect brings the viewer back
   without ?code=. *)
Exchange(w) ==
  /\ Resolved(w) /\ Suffices(w) /\ Exchanges(req[w])
  /\ jar' = [jar EXCEPT ![w] = req[w].cred]
  /\ req' = [req EXCEPT ![w] = Arrive([@ EXCEPT !.code = None], jar'[w])]
  /\ UNCHANGED <<vars, at, link, intact>>

\* What the gate worked with is gone when the page's handler runs.
Inside(w) ==
  /\ at' = [at EXCEPT ![w] = "page"]
  /\ req' = [req EXCEPT ![w] = [NoRequest EXCEPT !.author = req[w].author,
                                                 !.ever = req[w].ever]]
  /\ UNCHANGED <<vars, jar, link, intact>>

\* A viewer who has been let in before is let in.
PassOnCookie(w) ==
  Resolved(w) /\ (Suffices(w) \/ Rank(jar[w]) >= Min(req[w])) /\ ~Exchanges(req[w]) /\ Inside(w)

(* The gate lets the request through to its handler. *)
Pass(w) == Resolved(w) /\ Suffices(w) /\ ~Exchanges(req[w]) /\ Inside(w)

(* The handler reads its HTML, its row, its list, and answers. *)
Serve(w) == at[w] = "page" /\ Answer(w)

(* A read of the gate fails: the viewer is answered an error. *)
Break(w) == "error" \in Faults /\ at[w] = "gate" /\ ~Resolved(w) /\ Answer(w)
-----------------------------------------------------------------------------
Newest(v, vs) == v \in vs /\ \A u \in vs : u <= v
Stored == {v \in Version : blob[v] # None}

\* handleShare is between its reads.
Making == link.stage \in {"row", "blobs"}

(* handleShare, after GenerateCode: ListVersions reads the row, *)
ListRow ==
  /\ link.stage = "row"
  /\ link' = [link EXCEPT !.stage = "blobs", !.listed = Listed]
  /\ UNCHANGED <<vars, viewVars, intact>>

\* The versions that ListVersions answers with.
Versions == IF link.listed # {} THEN link.listed ELSE Stored

\* The link names the first version whenever there is one.
ListBlobsFirst ==
  /\ link.stage = "blobs"
  /\ link' = [link EXCEPT !.stage = "sent", !.listed = {}, !.found = Versions # {}]
  /\ UNCHANGED <<vars, viewVars, intact>>

(* and then the stored versions, which count only if the row lists none.  The link
   names the last of them, or else version 1. *)
ListBlobs ==
  /\ link.stage = "blobs"
  /\ \E v \in Version :
       /\ IF Versions = {} THEN v = 1 ELSE Newest(v, Versions)
       /\ link' = [link EXCEPT !.stage = "sent", !.listed = {}, !.found = Versions # {},
                               !.version = v]
  /\ UNCHANGED <<vars, viewVars, intact>>

(* ListVersions fails: the call answers all the same, with a link to version 1. *)
LinkFails ==
  /\ "error" \in Faults
  /\ Making
  /\ link' = [NoLink EXCEPT !.stage = "guessed", !.had = link.had]
  /\ UNCHANGED <<vars, viewVars, intact>>

(* The process dies, and nothing is answered. *)
LinkDies ==
  /\ "error" \in Faults
  /\ Making
  /\ link' = NoLink
  /\ UNCHANGED <<vars, viewVars, intact>>

\* Handler p has stored a new code and releases the lock.
Shares(p) == f[p].op = "share" /\ pc[p] = "reply" /\ pc'[p] = "idle"

\* What a step of a handler means to the viewers, and to the link: one that is answered, and
\* what was listed before, do not matter any more once a removal has begun.
Watch ==
  /\ UNCHANGED <<jar, at>>
  /\ req' = [w \in Viewer |->
       [req[w] EXCEPT !.fresh = @ /\ CapabilityFor(req[w].given, meta') >= Min(req[w]),
                      !.ever = @ \/ (at[w] = "gate" /\ Opens(req[w], jar[w], meta'))]]
  /\ IF \E p \in Proc : Shares(p)
     THEN link' = [NoLink EXCEPT !.stage = "row", !.had = Listed] /\ intact' = TRUE
     ELSE /\ intact' = (intact /\ ~\E p \in Proc : pc[p] = "deleteDoc" /\ pc'[p] # pc[p])
          /\ link' = IF intact' THEN link
                     ELSE IF Making THEN [link EXCEPT !.had = {}] ELSE NoLink

Handlers == Next /\ Watch

Linking == ListRow \/ ListBlobs \/ LinkFails \/ LinkDies

Browsing(w) ==
  Open(w) \/ Resolve(w) \/ Deny(w) \/ Exchange(w) \/ Pass(w) \/ Serve(w) \/ Break(w)

AccessNext == Handlers \/ Linking \/ \E w \in Viewer : Browsing(w)

AccessSpec == AccessInit /\ [][AccessNext]_allVars
-----------------------------------------------------------------------------
\* Every viewer's request ranges over the values the code can hold, and so does the link.
ViewTypeOK ==
  /\ jar \in [Viewer -> Cred \cup {None}]
  /\ at \in [Viewer -> {"idle", "gate", "page"}]
  /\ req \in [Viewer -> Requests]
LinkTypeOK == link \in Links /\ intact \in BOOLEAN

(* A viewer whose link carries a code, or the token, that opens the page from the click
   to the answer is never told the document does not exist, whatever cookie the browser
   held before and whatever the redirect replaced. *)
SteadyCodeOpens ==
  [][\A w \in Viewer : Resolved(w) /\ at'[w] = "idle" => ~req[w].fresh]_allVars

(* A handler behind the gate runs only if one of the credentials of that very request
   opened the page at some time during the request: a code revoked before the request
   began opens nothing, cookie or not. *)
ServedToCapable == \A w \in Viewer : at[w] = "page" => req[w].ever

\* The version is stored, or is one of those that an unfinished removal left listed.
Kept(v) == blob[v] # None \/ v \in lost

(* As long as nobody removes the document, the link a share call answers with, having
   read the versions, is no older than any listed when its code was stored, and opens if
   any version was there when the link was made; save one that an earlier unfinished
   removal left in the list. *)
LinkOpens == link.stage = "sent" /\ intact =>
  /\ link.found => Kept(link.version)
  /\ \A v \in link.had : v <= link.version

\* What the gate knows of a request it has half resolved.
GateInv(w) ==
  /\ at[w] = "gate" =>
       LET r == req[w]
       IN /\ Opens(r, jar[w], meta) => r.ever
          /\ Suffices(w) => r.ever
          /\ r.todo \subseteq credCandidates(r, jar[w])
          /\ r.code \in {r.given, None}
          /\ r.fresh => /\ CapabilityFor(r.given, meta) >= Min(r)
                        /\ Suffices(w) \/ \E k \in r.todo : At(k, r, jar[w]) = r.given
  /\ at[w] = "page" => req[w].ever

\* What handleShare's two reads may be combined to.
LinkInv ==
  /\ intact =>
       /\ \A p \in Proc : pc[p] \notin {"listRows", "deleteRows"}
       /\ link.stage = "row" => link.had \subseteq Listed
       /\ link.stage = "blobs" => link.had \subseteq link.listed /\ \A v \in link.listed : Kept(v)
  /\ LinkOpens

(* The inductive invariant: a share code is looked up while its request runs, and the
   link is put together while nothing is removed. *)
AccessInv == ViewTypeOK /\ (\A w \in Viewer : GateInv(w)) /\ LinkTypeOK /\ LinkInv
=============================================================================
