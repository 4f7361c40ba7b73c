-------------------------- MODULE ServerStoreProofs --------------------------
(***************************************************************************)
(* ServerStore for every set of handlers, branches, objects and requests:  *)
(* its invariants, its action properties and its implementation of the     *)
(* abstract register.                                                      *)
(***************************************************************************)
EXTENDS ServerStore, ObjectsProofs

Holding == {"locked", "checked", "valid", "written"}

\* The mutex is held by the handler that is between Lock and Unlock.
MutexInv ==
  \A h \in Handler : pc[h] \in Holding <=> mu = h

\* A handler past the dispatch on the request is serving a request that fits.
RequestInv ==
  \A h \in Handler :
    /\ pc[h] # "idle" => req[h] \in AnyRequest
    /\ pc[h] \in {"checked", "valid", "written"} => req[h] \in UpdateRequest
    /\ pc[h] = "locked" /\ req[h].op = "put" => req[h].body = req[h].hash

\* What the holder of the mutex read is still what is on disk.
SnapInv ==
  \A h \in Handler : pc[h] \in {"checked", "valid"} =>
    /\ snap[h] = refs
    /\ refs[req[h].branch] = req[h].old
    /\ ~ NamespaceCollision(req[h].branch, refs)

\* What it validated still holds.
ValidInv ==
  \A h \in Handler : pc[h] = "valid" =>
    /\ Complete(req[h].new, Readable)
    /\ FastForward(req[h].old, req[h].new)

\* Updates that took effect, answered or not yet.
Published == acked \union {req[h] : h \in {g \in Handler : pc[g] = "written"}}

\* Each of them is below its branch's tip and was a fast-forward.
PublishedInv ==
  \A u \in Published :
    /\ u \in UpdateRequest
    /\ refs[u.branch] # NoHash
    /\ u.new \in Reach[refs[u.branch]]
    /\ FastForward(u.old, u.new)

\* And no two of them used the same tip of the same branch.
LeaseInv ==
  \A u, v \in Published :
    /\ u.branch = v.branch /\ u.old = v.old
    /\ u.new # u.old /\ v.new # v.old
    => u = v

\* The server's locking and checking discipline as one inductive invariant.
Inv ==
  /\ TypeOK
  /\ MutexInv
  /\ RequestInv
  /\ SnapInv
  /\ ValidInv
  /\ RefsComplete
  /\ NamespaceFree
  /\ NamesUnoccupied
  /\ PublishedInv
  /\ LeaseInv

-----------------------------------------------------------------------------
\* The requests tell their operations apart.
LEMMA RequestFields ==
  ASSUME NEW r \in AnyRequest
  PROVE  /\ r.op = "update" => r \in UpdateRequest
         /\ r.op = "put" => r.hash \in Hash /\ r.body \in Tip
         /\ r \in UpdateRequest =>
              /\ r.op = "update" /\ r.branch \in Branch
              /\ r.old \in Tip /\ r.new \in Hash
BY DEF AnyRequest, PutRequest, UpdateRequest, ListRequest

\* The empty repository satisfies the invariant.
LEMMA InitInv == Init => Inv
<1> SUFFICES ASSUME Init PROVE Inv
  OBVIOUS
<1> USE DEF Init
<1>1. TypeOK
  BY DEF TypeOK, Tip, PC, NoRefs
<1>2. MutexInv
  BY HandlerAssumption DEF MutexInv, Holding
<1>3. RequestInv /\ SnapInv /\ ValidInv
  BY DEF RequestInv, SnapInv, ValidInv
<1>4. RefsComplete /\ NamespaceFree /\ NamesUnoccupied
  BY DEF RefsComplete, NamespaceFree, NamesUnoccupied, NoRefs
<1>5. PublishedInv /\ LeaseInv
  BY DEF PublishedInv, LeaseInv, Published
<1> QED
  BY <1>1, <1>2, <1>3, <1>4, <1>5 DEF Inv

\* Giving the mutex back, and nothing else, keeps everything.
LEMMA ReturnInv ==
  ASSUME Inv, NEW h \in Handler, Return(h),
         UNCHANGED <<objects, refs>>,
         acked' = acked \/ (acked' = acked \union {req[h]} /\ pc[h] = "written")
  PROVE  Inv'
<1> USE DEF Return
<1>1. TypeOK'
  BY RequestFields DEF Inv, TypeOK, Tip, PC, NoRefs, RequestInv
<1>2. MutexInv'
  BY HandlerAssumption DEF Inv, TypeOK, MutexInv, Holding
<1>3. RequestInv'
  BY DEF Inv, TypeOK, RequestInv
<1>4. SnapInv'
  BY DEF Inv, TypeOK, SnapInv, NamespaceCollision
<1>5. Readable' = Readable
  BY DEF Readable
<1>6. ValidInv'
  BY <1>5 DEF Inv, TypeOK, ValidInv
<1>7. RefsComplete' /\ NamespaceFree' /\ NamesUnoccupied'
  BY <1>5 DEF Inv, RefsComplete, NamespaceFree, NamesUnoccupied
<1>8. Published' \subseteq Published
  BY DEF Inv, TypeOK, Published
<1>9. PublishedInv' /\ LeaseInv'
  BY <1>8 DEF Inv, PublishedInv, LeaseInv
<1> QED
  BY <1>1, <1>2, <1>3, <1>4, <1>6, <1>7, <1>9 DEF Inv

\* A request arrives; nothing shared changes.
LEMMA BeginInv ==
  ASSUME Inv, NEW h \in Handler, Begin(h)
  PROVE  Inv'
<1> USE DEF Begin
<1>1. PICK r \in Requests : req' = [req EXCEPT ![h] = r]
  OBVIOUS
<1>2. r \in AnyRequest
  BY RequestAssumption
<1>3. TypeOK' /\ MutexInv' /\ RequestInv'
  BY <1>1, <1>2 DEF Inv, TypeOK, PC, MutexInv, RequestInv, Holding
<1>4. Readable' = Readable /\ Published' = Published
  BY <1>1 DEF Inv, TypeOK, Readable, Published
<1>5. SnapInv' /\ ValidInv'
  BY <1>1, <1>4 DEF Inv, TypeOK, SnapInv, ValidInv, NamespaceCollision
<1>6. RefsComplete' /\ NamespaceFree' /\ NamesUnoccupied'
  BY <1>4 DEF Inv, RefsComplete, NamespaceFree, NamesUnoccupied
<1>7. PublishedInv' /\ LeaseInv'
  BY <1>4 DEF Inv, PublishedInv, LeaseInv
<1> QED
  BY <1>3, <1>5, <1>6, <1>7 DEF Inv

\* Taking the mutex.
LEMMA LockInv ==
  ASSUME Inv, NEW h \in Handler, Lock(h)
  PROVE  Inv'
<1> USE DEF Lock
<1>1. TypeOK' /\ MutexInv' /\ RequestInv'
  BY HandlerAssumption
  DEF Inv, TypeOK, PC, MutexInv, RequestInv, Holding, DigestMatches
<1>2. Readable' = Readable /\ Published' = Published
  BY DEF Inv, TypeOK, Readable, Published
<1>3. SnapInv' /\ ValidInv'
  BY <1>2 DEF Inv, TypeOK, SnapInv, ValidInv, NamespaceCollision
<1>4. RefsComplete' /\ NamespaceFree' /\ NamesUnoccupied'
  BY <1>2 DEF Inv, RefsComplete, NamespaceFree, NamesUnoccupied
<1>5. PublishedInv' /\ LeaseInv'
  BY <1>2 DEF Inv, PublishedInv, LeaseInv
<1> QED
  BY <1>1, <1>3, <1>4, <1>5 DEF Inv

\* An upload: what was readable stays readable, and the only name that can
\* change gets its own content.
LEMMA PutObjectInv ==
  ASSUME Inv, NEW h \in Handler, PutObject(h)
  PROVE  Inv' /\ Readable \subseteq Readable'
<1> USE DEF PutObject
<1> DEFINE name == req[h].hash
<1>1. name \in Hash /\ req[h].body = name
  BY RequestFields DEF Inv, RequestInv
<1>2. objects \in [Hash -> Tip] /\ objects' \in [Hash -> Tip]
  BY <1>1 DEF Inv, TypeOK, Tip
<1>3. /\ \A x \in Hash : objects'[x] = objects[x] \/ objects'[x] = x
      /\ Readable \subseteq Readable'
  BY <1>1, <1>2, HashAssumption DEF Readable
<1>4. pc[h] = "locked" /\ Return(h) /\ UNCHANGED <<refs, acked>>
  OBVIOUS
<1> HIDE DEF PutObject
<1>5. TypeOK'
  BY <1>2, <1>4 DEF Inv, TypeOK, Return, PC, NoRefs, Tip
<1>6. MutexInv' /\ RequestInv'
  BY <1>4, HandlerAssumption
  DEF Inv, TypeOK, Return, MutexInv, RequestInv, Holding
<1>7. SnapInv'
  BY <1>4 DEF Inv, TypeOK, Return, SnapInv, NamespaceCollision
<1>8. ValidInv' /\ RefsComplete'
  BY <1>3, <1>4 DEF Inv, TypeOK, Return, ValidInv, RefsComplete, Complete
<1>9. NamespaceFree' /\ NamesUnoccupied'
  BY <1>3, <1>4 DEF Inv, NamespaceFree, NamesUnoccupied
<1>10. Published' = Published
  BY <1>4 DEF Inv, TypeOK, Return, Published
<1>11. PublishedInv' /\ LeaseInv'
  BY <1>4, <1>10 DEF Inv, PublishedInv, LeaseInv
<1> QED
  BY <1>3, <1>5, <1>6, <1>7, <1>8, <1>9, <1>11 DEF Inv

\* The comparison remembers a map that stays the one on disk.
LEMMA CompareRefsInv ==
  ASSUME Inv, NEW h \in Handler, CompareRefs(h)
  PROVE  Inv'
<1> USE DEF CompareRefs
<1>1. req[h] \in UpdateRequest
  BY RequestFields DEF Inv, RequestInv
<1>2. TypeOK'
  BY DEF Inv, TypeOK, PC
<1>3. MutexInv' /\ RequestInv'
  BY <1>1 DEF Inv, TypeOK, MutexInv, RequestInv, Holding
<1>4. Readable' = Readable /\ Published' = Published
  BY DEF Inv, TypeOK, Readable, Published
<1>5. SnapInv' /\ ValidInv'
  BY <1>4 DEF Inv, TypeOK, SnapInv, ValidInv, NamespaceCollision
<1>6. RefsComplete' /\ NamespaceFree' /\ NamesUnoccupied'
  BY <1>4 DEF Inv, RefsComplete, NamespaceFree, NamesUnoccupied
<1>7. PublishedInv' /\ LeaseInv'
  BY <1>4 DEF Inv, PublishedInv, LeaseInv
<1> QED
  BY <1>2, <1>3, <1>5, <1>6, <1>7 DEF Inv

\* Validation establishes what publication needs.
LEMMA ValidateGraphInv ==
  ASSUME Inv, NEW h \in Handler, ValidateGraph(h)
  PROVE  Inv'
<1> USE DEF ValidateGraph
<1>1. TypeOK' /\ MutexInv' /\ RequestInv'
  BY DEF Inv, TypeOK, PC, MutexInv, RequestInv, Holding
<1>2. Readable' = Readable /\ Published' = Published
  BY DEF Inv, TypeOK, Readable, Published
<1>3. SnapInv' /\ ValidInv'
  BY <1>2 DEF Inv, TypeOK, SnapInv, ValidInv, NamespaceCollision
<1>4. RefsComplete' /\ NamespaceFree' /\ NamesUnoccupied'
  BY <1>2 DEF Inv, RefsComplete, NamespaceFree, NamesUnoccupied
<1>5. PublishedInv' /\ LeaseInv'
  BY <1>2 DEF Inv, PublishedInv, LeaseInv
<1> QED
  BY <1>1, <1>3, <1>4, <1>5 DEF Inv

\* What the holder of the mutex knows when it publishes.
LEMMA PublishFacts ==
  ASSUME Inv, NEW h \in Handler, PublishRefs(h)
  PROVE  /\ req[h] \in UpdateRequest
         /\ req[h].branch \in Branch /\ req[h].old \in Tip /\ req[h].new \in Hash
         /\ refs[req[h].branch] = req[h].old
         /\ refs' = [refs EXCEPT ![req[h].branch] = req[h].new]
         /\ Complete(req[h].new, Readable)
         /\ ~ NamespaceCollision(req[h].branch, refs)
         /\ req[h].old # NoHash =>
              req[h].old \in Hash /\ req[h].old \in Reach[req[h].new]
<1>1. req[h] \in UpdateRequest
  BY DEF PublishRefs, Inv, RequestInv
<1>2. /\ req[h].branch \in Branch /\ req[h].old \in Tip
      /\ req[h].new \in Hash
  BY <1>1, RequestFields DEF AnyRequest
<1> QED
  BY <1>1, <1>2
  DEF PublishRefs, Inv, SnapInv, ValidInv, FastForward, Commits, Tip

\* A tip that was published only moves up.
LEMMA PublishMovesUp ==
  ASSUME Inv, NEW h \in Handler, PublishRefs(h), NEW b \in Branch,
         refs[b] # NoHash
  PROVE  refs[b] \in Hash /\ refs'[b] \in Hash /\ refs[b] \in Reach[refs'[b]]
<1>1. refs \in [Branch -> Tip]
  BY DEF Inv, TypeOK
<1>2. refs[b] \in Hash
  BY <1>1 DEF Tip
<1>3. CASE b = req[h].branch
  BY <1>1, <1>2, <1>3, PublishFacts
<1>4. CASE b # req[h].branch
  BY <1>1, <1>2, <1>4, PublishFacts, ReachSelf
<1> QED
  BY <1>3, <1>4

\* Publication: the new tip is complete and above everything published on
\* its branch, and its lease was not used before.
LEMMA PublishRefsInv ==
  ASSUME Inv, NEW h \in Handler, PublishRefs(h)
  PROVE  Inv'
<1> DEFINE u == req[h]
<1>1. /\ u \in UpdateRequest /\ u.branch \in Branch /\ u.old \in Tip
      /\ u.new \in Hash
      /\ refs[u.branch] = u.old
      /\ refs' = [refs EXCEPT ![u.branch] = u.new]
      /\ Complete(u.new, Readable)
      /\ ~ NamespaceCollision(u.branch, refs)
      /\ u.old # NoHash => u.old \in Hash /\ u.old \in Reach[u.new]
  BY PublishFacts
<1>2. /\ pc[h] = "valid" /\ pc' = [pc EXCEPT ![h] = "written"]
      /\ UNCHANGED <<objects, mu, req, snap, acked>>
  BY DEF PublishRefs
<1>3. TypeOK'
  BY <1>1, <1>2 DEF Inv, TypeOK, PC, Tip
<1>4. MutexInv' /\ RequestInv'
  BY <1>1, <1>2 DEF Inv, TypeOK, MutexInv, RequestInv, Holding
<1>5. Readable' = Readable
  BY <1>2 DEF Readable
<1>6. SnapInv' /\ ValidInv'
  <2>1. \A g \in Handler : pc'[g] \notin {"checked", "valid"}
    BY <1>2 DEF Inv, TypeOK, MutexInv, Holding
  <2> QED
    BY <2>1 DEF SnapInv, ValidInv
<1>7. RefsComplete'
  BY <1>1, <1>5 DEF Inv, TypeOK, RefsComplete
<1>8. NamespaceFree'
  <2> SUFFICES ASSUME NEW a \in Branch, NEW b \in Branch,
                      refs'[a] # NoHash, refs'[b] # NoHash,
                      <<a, b>> \in Under
               PROVE  FALSE
    BY DEF NamespaceFree
  <2>1. a # b
    BY BranchAssumption
  <2>2. CASE a # u.branch /\ b # u.branch
    BY <1>1, <2>2 DEF Inv, TypeOK, NamespaceFree
  <2>3. CASE a = u.branch
    BY <1>1, <2>1, <2>3 DEF Inv, TypeOK, NamespaceCollision
  <2>4. CASE b = u.branch
    BY <1>1, <2>1, <2>4 DEF Inv, TypeOK, NamespaceCollision
  <2> QED
    BY <2>2, <2>3, <2>4
<1>9. NamesUnoccupied'
  BY <1>2 DEF Inv, NamesUnoccupied
<1>10. Published' = Published \union {u}
  BY <1>2 DEF Inv, TypeOK, Published
<1>11. PublishedInv'
  <2> SUFFICES ASSUME NEW v \in Published'
               PROVE  /\ v \in UpdateRequest
                      /\ refs'[v.branch] # NoHash
                      /\ v.new \in Reach[refs'[v.branch]]
                      /\ FastForward(v.old, v.new)
    BY DEF PublishedInv
  <2>1. CASE v = u
    <3>1. refs'[u.branch] = u.new /\ u.new # NoHash /\ u.new \in Reach[u.new]
      BY <1>1, HashAssumption, ReachSelf DEF Inv, TypeOK
    <3>2. FastForward(u.old, u.new)
      BY <1>2 DEF Inv, ValidInv
    <3> QED
      BY <1>1, <2>1, <3>1, <3>2
  <2>2. CASE v \in Published
    <3>1. /\ v \in UpdateRequest /\ refs[v.branch] # NoHash
          /\ v.new \in Reach[refs[v.branch]] /\ FastForward(v.old, v.new)
      BY <2>2 DEF Inv, PublishedInv
    <3>2. v.branch \in Branch
      BY <3>1, RequestFields DEF AnyRequest
    <3>3. /\ refs[v.branch] \in Hash /\ refs'[v.branch] \in Hash
          /\ refs[v.branch] \in Reach[refs'[v.branch]]
      BY <3>1, <3>2, PublishMovesUp
    <3>4. v.new \in Reach[refs'[v.branch]]
      BY <3>1, <3>3, ReachTransitive
    <3> QED
      BY <3>1, <3>3, <3>4, HashAssumption
  <2> QED
    BY <1>10, <2>1, <2>2
<1>12. LeaseInv'
  <2>1. ASSUME NEW v \in Published, v.branch = u.branch, v.old = u.old,
               v.new # v.old
        PROVE  FALSE
    <3>1. /\ refs[u.branch] # NoHash /\ v.new \in Reach[refs[u.branch]]
          /\ FastForward(v.old, v.new)
      BY <2>1 DEF Inv, PublishedInv
    <3>2. v.old = refs[u.branch] /\ v.old \in Hash
      BY <1>1, <2>1, <3>1 DEF Tip
    <3>3. v.new \in Reach[v.old] /\ v.old \in Reach[v.new]
      BY <3>1, <3>2, HashAssumption DEF FastForward, Commits
    <3> QED
      BY <2>1, <3>2, <3>3, ReachAntisymmetric
  <2> QED
    BY <1>10, <2>1 DEF Inv, LeaseInv
<1> QED
  BY <1>3, <1>4, <1>6, <1>7, <1>8, <1>9, <1>11, <1>12 DEF Inv

\* A kill leaves the disk as it is and forgets everything else.
LEMMA CrashInv ==
  ASSUME Inv, Crash
  PROVE  Inv'
<1> USE DEF Crash
<1>1. TypeOK' /\ MutexInv' /\ RequestInv'
  BY HandlerAssumption
  DEF Inv, TypeOK, PC, NoRefs, Tip, MutexInv, RequestInv, Holding
<1>2. SnapInv' /\ ValidInv'
  BY DEF SnapInv, ValidInv
<1>3. Readable' = Readable
  BY DEF Readable
<1>4. RefsComplete' /\ NamespaceFree' /\ NamesUnoccupied'
  BY <1>3 DEF Inv, RefsComplete, NamespaceFree, NamesUnoccupied
<1>5. Published' \subseteq Published
  BY DEF Published
<1>6. PublishedInv' /\ LeaseInv'
  BY <1>5 DEF Inv, PublishedInv, LeaseInv
<1> QED
  BY <1>1, <1>2, <1>4, <1>6 DEF Inv

\* Every step keeps the invariant.
LEMMA NextInv == Inv /\ [Next]_vars => Inv'
<1> SUFFICES ASSUME Inv, [Next]_vars
             PROVE  Inv'
  OBVIOUS
<1>1. CASE UNCHANGED vars
  <2>1. /\ Readable' = Readable /\ Published' = Published
        /\ UNCHANGED <<objects, refs, mu, pc, req, snap, acked>>
    BY <1>1 DEF vars, Readable, Published
  <2>2. TypeOK' /\ MutexInv' /\ RequestInv' /\ SnapInv' /\ ValidInv'
    BY <2>1 DEF Inv, TypeOK, MutexInv, RequestInv, SnapInv, ValidInv,
                NamespaceCollision
  <2>3. RefsComplete' /\ NamespaceFree' /\ NamesUnoccupied'
    BY <2>1 DEF Inv, RefsComplete, NamespaceFree, NamesUnoccupied
  <2>4. PublishedInv' /\ LeaseInv'
    BY <2>1 DEF Inv, PublishedInv, LeaseInv
  <2> QED
    BY <2>2, <2>3, <2>4 DEF Inv
<1>2. CASE Crash
  BY <1>2, CrashInv
<1>3. ASSUME NEW h \in Handler, Begin(h) \/ Lock(h) \/ Step(h)
      PROVE  Inv'
  <2>1. CASE Begin(h)
    BY <2>1, BeginInv
  <2>2. CASE Lock(h)
    BY <2>2, LockInv
  <2>3. CASE PutInvalid(h)
    BY <2>3, ReturnInv DEF PutInvalid
  <2>4. CASE PutObject(h)
    BY <2>4, PutObjectInv
  <2>5. CASE ListRefs(h)
    BY <2>5, ReturnInv DEF ListRefs
  <2>6. CASE CompareRefs(h)
    BY <2>6, CompareRefsInv
  <2>7. CASE Conflict(h)
    BY <2>7, ReturnInv DEF Conflict
  <2>8. CASE ValidateGraph(h)
    BY <2>8, ValidateGraphInv
  <2>9. CASE RejectGraph(h)
    BY <2>9, ReturnInv DEF RejectGraph
  <2>10. CASE PublishRefs(h)
    BY <2>10, PublishRefsInv
  <2>11. CASE Acknowledge(h)
    BY <2>11, ReturnInv DEF Acknowledge
  <2>12. CASE Fail(h)
    BY <2>12, ReturnInv DEF Fail
  <2> QED
    BY <1>3, <2>1, <2>2, <2>3, <2>4, <2>5, <2>6, <2>7, <2>8, <2>9, <2>10,
       <2>11, <2>12 DEF Step
<1> QED
  BY <1>1, <1>2, <1>3 DEF Next

-----------------------------------------------------------------------------
\* The inductive invariant: in every reachable state the holder of the mutex
\* sees the refs that are on disk, has checked what it is about to publish,
\* and every update that took effect is still below its branch's tip.
THEOREM InvHolds == Spec => []Inv
BY InitInv, NextInv, PTL DEF Spec

\* Type correctness of the store.
THEOREM TypeCorrect == Spec => []TypeOK
<1>1. Inv => TypeOK
  BY DEF Inv
<1> QED
  BY <1>1, InvHolds, PTL

\* What Answered rests on: the mutex is never left behind by a handler that has
\* returned, whichever way it returned, and two handlers never hold it.
THEOREM MutexInvHolds == Spec => []MutexInv
<1>1. Inv => MutexInv
  BY DEF Inv
<1> QED
  BY <1>1, InvHolds, PTL

\* Every tip in refs.json heads a complete, correctly typed graph: no
\* interleaving of uploads, failures and kills publishes half a history.
THEOREM RefsCompleteHolds == Spec => []RefsComplete
<1>1. Inv => RefsComplete
  BY DEF Inv
<1> QED
  BY <1>1, InvHolds, PTL

\* No two published branches are each other's file and directory.
THEOREM NamespaceFreeHolds == Spec => []NamespaceFree
<1>1. Inv => NamespaceFree
  BY DEF Inv
<1> QED
  BY <1>1, InvHolds, PTL

\* No name is ever taken by another content, so that a PUT of the right object
\* cannot be answered with "object is immutable".
THEOREM NamesUnoccupiedHolds == Spec => []NamesUnoccupied
<1>1. Inv => NamesUnoccupied
  BY DEF Inv
<1> QED
  BY <1>1, InvHolds, PTL

\* An acknowledged update is never lost, whatever the other handlers do.
THEOREM AckedSurviveHolds == Spec => []AckedSurvive
<1>1. Inv => AckedSurvive
  BY DEF Inv, PublishedInv, Published, AckedSurvive
<1> QED
  BY <1>1, InvHolds, PTL

\* Of the updates that start from the same tip, at most one succeeds.
THEOREM LeaseUsedOnceHolds == Spec => []LeaseUsedOnce
<1>1. Inv => LeaseUsedOnce
  BY DEF Inv, LeaseInv, Published, LeaseUsedOnce
<1> QED
  BY <1>1, InvHolds, PTL

\* Only a publication writes refs.json.
LEMMA RefsChange ==
  ASSUME [Next]_vars
  PROVE  refs' = refs \/ \E h \in Handler : PublishRefs(h)
BY DEF Next, Step, Begin, Lock, PutInvalid, PutObject, ListRefs, CompareRefs,
       Conflict, ValidateGraph, RejectGraph, Acknowledge, Fail, Crash, vars

\* A branch only ever moves to a strict descendant of its tip: UpdateRef has
\* no force, no delete and no way back.
THEOREM FastForwardOnlyHolds == Spec => FastForwardOnly
<1>1. ASSUME Inv, [Next]_vars, NEW b \in Branch, refs'[b] # refs[b],
             refs[b] # NoHash
      PROVE  /\ refs'[b] # NoHash
             /\ refs[b] \in Reach[refs'[b]]
             /\ refs'[b] \notin Reach[refs[b]]
  <2>1. PICK h \in Handler : PublishRefs(h)
    BY <1>1, RefsChange
  <2>2. refs[b] \in Hash /\ refs'[b] \in Hash /\ refs[b] \in Reach[refs'[b]]
    BY <1>1, <2>1, PublishMovesUp
  <2> QED
    BY <1>1, <2>2, ReachAntisymmetric, HashAssumption
<1>2. Inv /\ [Next]_vars =>
        [\A b \in Branch :
           refs'[b] # refs[b] =>
             \/ refs[b] = NoHash
             \/ /\ refs'[b] # NoHash
                /\ refs[b] \in Reach[refs'[b]]
                /\ refs'[b] \notin Reach[refs[b]]]_vars
  BY <1>1
<1> QED
  BY <1>2, InvHolds, PTL DEF Spec, FastForwardOnly

-----------------------------------------------------------------------------
\* The empty repository is the empty register.
LEMMA InitImplements == Init => Register!RegisterInit
BY HashAssumption DEF Init, NoRefs, Register!RegisterInit, Readable

\* An upload adds at most its own object to what can be fetched.
LEMMA UploadImplements ==
  ASSUME Inv, NEW h \in Handler, PutObject(h)
  PROVE  [Register!RegisterNext]_<<Readable, refs>>
<1> DEFINE name == req[h].hash
<1>1. name \in Hash /\ req[h].body = name
  BY RequestFields DEF PutObject, Inv, RequestInv
<1>2. Readable' = Readable \/ Readable' = Readable \union {name}
  BY <1>1 DEF PutObject, Inv, TypeOK, Readable
<1>3. refs' = refs
  BY DEF PutObject
<1> QED
  BY <1>1, <1>2, <1>3 DEF Register!RegisterNext, Register!StoreObject

\* A publication is one move of the register.
LEMMA PublicationImplements ==
  ASSUME Inv, NEW h \in Handler, PublishRefs(h)
  PROVE  Register!RegisterNext
<1>1. /\ req[h].branch \in Branch /\ req[h].new \in Hash
      /\ refs[req[h].branch] = req[h].old
      /\ refs' = [refs EXCEPT ![req[h].branch] = req[h].new]
      /\ Complete(req[h].new, Readable)
      /\ ~ NamespaceCollision(req[h].branch, refs)
      /\ FastForward(req[h].old, req[h].new)
  BY PublishFacts DEF PublishRefs, Inv, ValidInv
<1>2. Readable' = Readable
  BY DEF PublishRefs, Readable
<1>3. Register!Advance(req[h].branch, req[h].new)
  BY <1>1, <1>2
  DEF Register!Advance, Register!Complete, Register!Reach, Register!Commits,
      Register!Closed, Register!Children, Register!TypedRefs,
      Complete, Reach, Commits, Closed, Children, TypedRefs,
      FastForward, NamespaceCollision
<1> QED
  BY <1>1, <1>3 DEF Register!RegisterNext

\* The handlers, with their mutex, failures and kills, implement the atomic
\* register of module RefRegister.
THEOREM Implementation == Spec => ImplementsRegister
<1>1. ASSUME Inv, [Next]_vars
      PROVE  [Register!RegisterNext]_<<Readable, refs>>
  <2>1. CASE \E h \in Handler : PublishRefs(h)
    BY <1>1, <2>1, PublicationImplements
  <2>2. CASE \E h \in Handler : PutObject(h)
    BY <1>1, <2>2, UploadImplements
  <2>3. CASE UNCHANGED <<objects, refs>>
    BY <2>3 DEF Readable
  <2> QED
    BY <1>1, <2>1, <2>2, <2>3
    DEF Next, Step, Begin, Lock, PutInvalid, ListRefs, CompareRefs,
        Conflict, ValidateGraph, RejectGraph, Acknowledge, Fail, Crash, vars
<1> QED
  BY <1>1, InitImplements, InvHolds, PTL
  DEF Spec, ImplementsRegister, Register!RegisterSpec, Register!registerVars
=============================================================================
