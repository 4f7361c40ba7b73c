----------------------------- MODULE ServerStore -----------------------------
(***************************************************************************)
(* One repository of the server: the objects and the branch tips on its    *)
(* disk, and the HTTP handlers that read and write them under the          *)
(* repository's mutex (src/server/store.go, refs.go, refs_http.go,         *)
(* http.go).  Requests may be repeated, delayed or stale; a disk operation *)
(* may fail; the request context may be cancelled; the process may be      *)
(* killed between any two steps.  What is on disk survives a kill.         *)
(***************************************************************************)
EXTENDS Objects

CONSTANTS
  Handler,    \* the goroutines that may be serving a request at once
  NoHandler,  \* nobody holds the mutex
  Branch,     \* branch names that validBranch accepts
  Under,      \* <<a, b>>: a is a directory prefix of b ("x" and "x/y")
  Requests    \* the requests that clients send

ASSUME HandlerAssumption == NoHandler \notin Handler

ASSUME BranchAssumption ==
  /\ Under \subseteq Branch \X Branch
  /\ \A a \in Branch : <<a, a>> \notin Under

Tip == Hash \union {NoHash}

\* body = NoHash stands for a body that is no well-formed object.
PutRequest == [op : {"put"}, hash : Hash, body : Tip]
UpdateRequest == [op : {"update"}, branch : Branch, old : Tip, new : Hash]
ListRequest == [op : {"list"}]
AnyRequest == PutRequest \union UpdateRequest \union ListRequest
NoRequest == [op |-> "none"]

ASSUME RequestAssumption == Requests \subseteq AnyRequest

VARIABLES
  objects,  \* objects[h]: the object stored in the file objects/h, or NoHash
  refs,     \* refs[b]: the tip that refs.json holds for b, or NoHash
  mu,       \* the handler that holds repository.mu
  pc,       \* pc[h]: how far handler h is
  req,      \* req[h]: the request that h serves
  snap,     \* snap[h]: the map that h read out of refs.json
  acked     \* history: the updates that were answered with success

vars == <<objects, refs, mu, pc, req, snap, acked>>

NoRefs == [b \in Branch |-> NoHash]

PC == {"idle", "waiting", "locked", "checked", "valid", "written"}

-----------------------------------------------------------------------------
\* GetObject returns h: the file is there and holds the object of that name.
Readable == {h \in Hash : objects[h] = h}

\* Mutant: any well-formed body is taken, whatever its digest.
DigestUnchecked(r) == r.body # NoHash

\* The body InspectObject accepted has the digest that names the request.
DigestMatches(r) == r.body = r.hash

\* Mutant: only names above b are looked for.
CollisionAboveOnly(b, r) ==
  \E a \in Branch : r[a] # NoHash /\ <<a, b>> \in Under

\* The loop over `refs' in UpdateRef: another stored name is a directory
\* prefix of b, or b of it.
NamespaceCollision(b, r) ==
  \E a \in Branch : r[a] # NoHash /\ (<<a, b>> \in Under \/ <<b, a>> \in Under)

\* Mutant: the commits map is not consulted.
FastForwardAssumed(old, new) == TRUE

\* The commits map is asked for old unless the branch is being created.
FastForward(old, new) == old = NoHash \/ old \in Commits(new)

Init ==
  /\ objects = [h \in Hash |-> NoHash]
  /\ refs = NoRefs
  /\ mu = NoHandler
  /\ pc = [h \in Handler |-> "idle"]
  /\ req = [h \in Handler |-> NoRequest]
  /\ snap = [h \in Handler |-> NoRefs]
  /\ acked = {}

\* Handler h is done: the deferred Unlock has run if h held the mutex.
Return(h) ==
  /\ pc' = [pc EXCEPT ![h] = "idle"]
  /\ req' = [req EXCEPT ![h] = NoRequest]
  /\ snap' = [snap EXCEPT ![h] = NoRefs]
  /\ mu' = IF mu = h THEN NoHandler ELSE mu

\* A decoded, authorised request reaches the store.
Begin(h) ==
  /\ pc[h] = "idle"
  /\ \E r \in Requests : req' = [req EXCEPT ![h] = r]
  /\ pc' = [pc EXCEPT ![h] = "waiting"]
  /\ UNCHANGED <<objects, refs, mu, snap, acked>>

\* PutObject inspects the body before it takes the mutex, and refuses one
\* that is malformed or has another digest.
PutInvalid(h) ==
  /\ pc[h] = "waiting"
  /\ req[h].op = "put"
  /\ ~ DigestMatches(req[h])
  /\ Return(h)
  /\ UNCHANGED <<objects, refs, acked>>

\* r.mu.Lock() in PutObject, ListRefs and UpdateRef.
Lock(h) ==
  /\ pc[h] = "waiting"
  /\ req[h].op = "put" => DigestMatches(req[h])
  /\ mu = NoHandler
  /\ mu' = h
  /\ pc' = [pc EXCEPT ![h] = "locked"]
  /\ UNCHANGED <<objects, refs, req, snap, acked>>

\* PutObject under the mutex: an object that is there is left alone (the
\* same bytes, or a conflict), an absent one is written through a rename.
PutObject(h) ==
  /\ pc[h] = "locked"
  /\ req[h].op = "put"
  /\ LET old == objects[req[h].hash] IN
       objects' = IF old = NoHash
                    THEN [objects EXCEPT ![req[h].hash] = req[h].body]
                    ELSE objects
  /\ Return(h)
  /\ UNCHANGED <<refs, acked>>

\* ListRefs under the mutex.
ListRefs(h) ==
  /\ pc[h] = "locked"
  /\ req[h].op = "list"
  /\ Return(h)
  /\ UNCHANGED <<objects, refs, acked>>

\* Mutant: a fast-forward is taken to be enough, and old is not compared.
CompareRefsNoLease(h) ==
  /\ pc[h] = "locked"
  /\ req[h].op = "update"
  /\ ~ NamespaceCollision(req[h].branch, refs)
  /\ snap' = [snap EXCEPT ![h] = refs]
  /\ pc' = [pc EXCEPT ![h] = "checked"]
  /\ UNCHANGED <<objects, refs, mu, req, acked>>

\* UpdateRef reads refs.json and compares: the branch namespace first, then
\* the old tip.
CompareRefs(h) ==
  /\ pc[h] = "locked"
  /\ req[h].op = "update"
  /\ ~ NamespaceCollision(req[h].branch, refs)
  /\ refs[req[h].branch] = req[h].old
  /\ snap' = [snap EXCEPT ![h] = refs]
  /\ pc' = [pc EXCEPT ![h] = "checked"]
  /\ UNCHANGED <<objects, refs, mu, req, acked>>

\* Mutant: this early return does not release the mutex.
ConflictHoldsMutex(h) ==
  /\ pc[h] = "locked"
  /\ req[h].op = "update"
  /\ refs[req[h].branch] # req[h].old
  /\ pc' = [pc EXCEPT ![h] = "idle"]
  /\ req' = [req EXCEPT ![h] = NoRequest]
  /\ UNCHANGED <<objects, refs, mu, snap, acked>>

\* ErrConflict from either comparison.
Conflict(h) ==
  /\ pc[h] = "locked"
  /\ req[h].op = "update"
  /\ \/ NamespaceCollision(req[h].branch, refs)
     \/ refs[req[h].branch] # req[h].old
  /\ Return(h)
  /\ UNCHANGED <<objects, refs, acked>>

\* Mutant: only the commit itself is looked up.
ValidateTip(h) ==
  /\ pc[h] = "checked"
  /\ req[h].new \in Readable /\ Kind[req[h].new] = "commit"
  /\ FastForward(req[h].old, req[h].new)
  /\ pc' = [pc EXCEPT ![h] = "valid"]
  /\ UNCHANGED <<objects, refs, mu, req, snap, acked>>

\* validateGraph accepts the graph below the new tip, and the old tip is one
\* of the commits it found.
ValidateGraph(h) ==
  /\ pc[h] = "checked"
  /\ Complete(req[h].new, Readable)
  /\ FitsLimits(req[h].new)
  /\ FastForward(req[h].old, req[h].new)
  /\ pc' = [pc EXCEPT ![h] = "valid"]
  /\ UNCHANGED <<objects, refs, mu, req, snap, acked>>

\* ErrIncomplete, ErrGraphLimit, or an update that is no fast-forward.
RejectGraph(h) ==
  /\ pc[h] = "checked"
  /\ \/ ~ Complete(req[h].new, Readable)
     \/ ~ FitsLimits(req[h].new)
     \/ ~ FastForward(req[h].old, req[h].new)
  /\ Return(h)
  /\ UNCHANGED <<objects, refs, acked>>

\* Mutant: a map that holds only this branch replaces refs.json.
PublishRefsAlone(h) ==
  /\ pc[h] = "valid"
  /\ refs' = [NoRefs EXCEPT ![req[h].branch] = req[h].new]
  /\ pc' = [pc EXCEPT ![h] = "written"]
  /\ UNCHANGED <<objects, mu, req, snap, acked>>

\* refs[branch] = next, and the whole map replaces refs.json by a rename.
PublishRefs(h) ==
  /\ pc[h] = "valid"
  /\ refs' = [snap[h] EXCEPT ![req[h].branch] = req[h].new]
  /\ pc' = [pc EXCEPT ![h] = "written"]
  /\ UNCHANGED <<objects, mu, req, snap, acked>>

\* The mutex is released and the update answered with 200.
Acknowledge(h) ==
  /\ pc[h] = "written"
  /\ acked' = acked \union {req[h]}
  /\ Return(h)
  /\ UNCHANGED <<objects, refs>>

\* A disk operation fails, or the context is cancelled, at any point before
\* the rename; the error is returned and the deferred Unlock runs.
Fail(h) ==
  /\ pc[h] \in {"locked", "checked", "valid"}
  /\ Return(h)
  /\ UNCHANGED <<objects, refs, acked>>

\* The process is killed and started again; nothing but the disk is left.
Crash ==
  /\ \E h \in Handler : pc[h] # "idle"
  /\ mu' = NoHandler
  /\ pc' = [h \in Handler |-> "idle"]
  /\ req' = [h \in Handler |-> NoRequest]
  /\ snap' = [h \in Handler |-> NoRefs]
  /\ UNCHANGED <<objects, refs, acked>>

\* What a handler does on its own once it has a request.
Step(h) ==
  \/ PutInvalid(h)
  \/ PutObject(h)
  \/ ListRefs(h)
  \/ CompareRefs(h)
  \/ Conflict(h)
  \/ ValidateGraph(h)
  \/ RejectGraph(h)
  \/ PublishRefs(h)
  \/ Acknowledge(h)
  \/ Fail(h)

Next ==
  \/ \E h \in Handler : Begin(h) \/ Lock(h) \/ Step(h)
  \/ Crash

Spec == Init /\ [][Next]_vars

(***************************************************************************)
(* A running goroutine is scheduled, and a goroutine waiting for a         *)
(* sync.Mutex that is released again and again eventually gets it (its     *)
(* starvation mode).  Nothing obliges clients to send requests.            *)
(***************************************************************************)
FairSpec ==
  Spec /\ \A h \in Handler : WF_vars(Step(h)) /\ SF_vars(Lock(h))

-----------------------------------------------------------------------------
TypeOK ==
  /\ objects \in [Hash -> Tip]
  /\ refs \in [Branch -> Tip]
  /\ mu \in Handler \union {NoHandler}
  /\ pc \in [Handler -> PC]
  /\ req \in [Handler -> AnyRequest \union {NoRequest}]
  /\ snap \in [Handler -> [Branch -> Tip]]
  /\ acked \subseteq UpdateRequest

\* Every published tip heads a graph that can be read completely, whatever
\* uploads failed, overlapped or were cut off (docs/server.md:93-103).
RefsComplete ==
  \A b \in Branch : refs[b] # NoHash => Complete(refs[b], Readable)

\* No two published branches collide as file and directory, although each
\* was checked only against the names that were there at its own creation.
NamespaceFree ==
  \A a, b \in Branch :
    refs[a] # NoHash /\ refs[b] # NoHash => <<a, b>> \notin Under

\* An update that was acknowledged is never lost: whatever is published
\* later, by whichever handler, on whichever branch, the commit stays an
\* ancestor of its branch's tip (the CAS of docs/server.md:83-91).
AckedSurvive ==
  \A u \in acked :
    refs[u.branch] # NoHash /\ u.new \in Reach[refs[u.branch]]

\* The observed tip is a lease with one winner: two different updates of a
\* branch that start from the same tip are never both acknowledged.
LeaseUsedOnce ==
  \A u, v \in acked :
    /\ u.branch = v.branch /\ u.old = v.old
    /\ u.new # u.old /\ v.new # v.old
    => u = v

\* A step moves a branch to a descendant of its tip or not at all, and never
\* deletes a branch; so no tip is ever published twice (no ABA).
FastForwardOnly ==
  [][\A b \in Branch :
       refs'[b] # refs[b] =>
         \/ refs[b] = NoHash
         \/ /\ refs'[b] # NoHash
            /\ refs[b] \in Reach[refs'[b]]
            /\ refs'[b] \notin Reach[refs[b]]]_vars

\* No upload occupies a name with another content: an object that a client
\* really has can always still be stored under its digest.
NamesUnoccupied ==
  \A h \in Hash : objects[h] \in {NoHash, h}

\* The promise the handlers keep together: an update takes effect at its
\* rename, an upload when its object can be read.
Register == INSTANCE RefRegister WITH stored <- Readable, tips <- refs

\* Every behaviour of the handlers, kills included, is one of the register.
ImplementsRegister == Register!RegisterSpec

\* Every request that reaches the store is answered (or cut off by a kill):
\* no path leaves the mutex locked and nobody waits for it forever.
Answered ==
  \A h \in Handler : pc[h] = "waiting" ~> pc[h] = "idle"
=============================================================================
