--------------------------- MODULE GraphWalkProofs ---------------------------
(***************************************************************************)
(* What the loop of GraphWalk decides, for every object graph, every list  *)
(* of roots, every set of readable objects and every pair of limits.       *)
(***************************************************************************)
EXTENDS GraphWalk, ObjectsProofs

\* A reference has been followed to an object of its type, or is on the stack.
Handled(r) ==
  \/ r.hash \in seen /\ Kind[r.hash] = r.type
  \/ \E j \in DOMAIN pending : pending[j] = r

\* A reference is one of the roots, or is held by an object the roots reach.
Justified(r) ==
  \/ \E i \in DOMAIN roots : r = CommitRef(roots[i])
  \/ \E x \in Wanted : \E i \in DOMAIN Refs[x] : r = Refs[x][i]

\* Nothing is forgotten: the roots and the references of every object met.
NothingForgotten ==
  verdict \in {"walking", "ok"} =>
    /\ \A i \in DOMAIN roots : Handled(CommitRef(roots[i]))
    /\ \A x \in seen : \A i \in DOMAIN Refs[x] : Handled(Refs[x][i])
    /\ verdict = "ok" => pending = <<>>

\* Nothing is invented: what was met or is to be visited is reachable.
NothingInvented ==
  /\ seen \subseteq readable \cap Wanted
  /\ \A j \in DOMAIN pending : Justified(pending[j])

SeenFinite == IsFiniteSet(seen)

\* The running counts are the totals of the objects met, they are within the
\* limits, and a limit is only reported for a graph that is over it.
Counted ==
  /\ references = RefTotal(Len(roots), seen)
  /\ total = ByteTotal(seen)
  /\ verdict \in {"walking", "ok"} =>
       /\ references <= MaxGraphObjects
       /\ total <= MaxGraphBytes
  /\ verdict = "limit" => ~ AllFit

Inv ==
  /\ TypeOK
  /\ SeenFinite
  /\ NothingForgotten
  /\ NothingInvented
  /\ SeenWithinReferences
  /\ Counted
  /\ IncompleteSound

-----------------------------------------------------------------------------
\* Taking the top off a nonempty stack.
LEMMA PopFacts ==
  ASSUME TypeOK, pending # <<>>
  PROVE  /\ Len(pending) \in Nat \ {0}
         /\ ref \in ObjectReference
         /\ ref = pending[Len(pending)] /\ Len(pending) \in DOMAIN pending
         /\ Front(pending) \in Seq(ObjectReference)
         /\ Len(Front(pending)) = Len(pending) - 1
         /\ \A j \in DOMAIN Front(pending) :
              j \in DOMAIN pending /\ Front(pending)[j] = pending[j]
         /\ \A j \in DOMAIN pending :
              pending[j] = ref \/ \E k \in DOMAIN Front(pending) :
                                    Front(pending)[k] = pending[j]
<1>1. /\ pending \in Seq(ObjectReference)
      /\ Len(pending) \in Nat \ {0} /\ DOMAIN pending = 1..Len(pending)
  BY DEF TypeOK
<1>2. ref = pending[Len(pending)] /\ ref \in ObjectReference
  BY <1>1 DEF ref, Last
<1>3. /\ Front(pending) \in Seq(ObjectReference)
      /\ Len(Front(pending)) = Len(pending) - 1
      /\ DOMAIN Front(pending) = 1..(Len(pending) - 1)
      /\ \A j \in 1..(Len(pending) - 1) : Front(pending)[j] = pending[j]
  BY <1>1 DEF Front
<1>4. \A j \in DOMAIN pending : pending[j] = ref \/ j \in DOMAIN Front(pending)
  BY <1>1, <1>2, <1>3
<1> QED
  BY <1>1, <1>2, <1>3, <1>4

\* Pushing a list of references onto a stack.
LEMMA PushFacts ==
  ASSUME NEW F \in Seq(ObjectReference), NEW R \in Seq(ObjectReference)
  PROVE  /\ F \o R \in Seq(ObjectReference)
         /\ Len(F \o R) = Len(F) + Len(R)
         /\ \A k \in DOMAIN F : k \in DOMAIN (F \o R) /\ (F \o R)[k] = F[k]
         /\ \A i \in DOMAIN R : \E j \in DOMAIN (F \o R) : (F \o R)[j] = R[i]
         /\ \A j \in DOMAIN (F \o R) :
              \/ \E k \in DOMAIN F : (F \o R)[j] = F[k]
              \/ \E i \in DOMAIN R : (F \o R)[j] = R[i]
<1>1. /\ Len(F) \in Nat /\ DOMAIN F = 1..Len(F)
      /\ Len(R) \in Nat /\ DOMAIN R = 1..Len(R)
      /\ Len(F \o R) = Len(F) + Len(R)
      /\ DOMAIN (F \o R) = 1..(Len(F) + Len(R))
  OBVIOUS
<1>2. \A k \in DOMAIN F : k \in DOMAIN (F \o R) /\ (F \o R)[k] = F[k]
  BY <1>1
<1>3. ASSUME NEW i \in DOMAIN R
      PROVE  Len(F) + i \in DOMAIN (F \o R) /\ (F \o R)[Len(F) + i] = R[i]
  BY <1>1
<1>4. ASSUME NEW j \in DOMAIN (F \o R), j \notin DOMAIN F
      PROVE  j - Len(F) \in DOMAIN R /\ (F \o R)[j] = R[j - Len(F)]
  <2>1. j \in Nat /\ j > Len(F) /\ j <= Len(F) + Len(R)
    BY <1>1, <1>4
  <2>2. j - Len(F) \in 1..Len(R)
    BY <1>1, <2>1
  <2>3. j \in 1..(Len(F) + Len(R))
    BY <1>1
  <2>4. (F \o R)[j] = R[j - Len(F)]
    BY <1>1, <2>1, <2>3
  <2> QED
    BY <1>1, <2>2, <2>4
<1>5. F \o R \in Seq(ObjectReference)
  OBVIOUS
<1> QED
  BY <1>1, <1>2, <1>3, <1>4, <1>5

\* The roots are hashes, and what they reach is closed.
LEMMA WantedFacts ==
  ASSUME TypeOK
  PROVE  /\ roots \in Seq(Hash)
         /\ \A i \in DOMAIN roots : roots[i] \in Hash /\ roots[i] \in Wanted
         /\ Wanted \subseteq Hash
         /\ Closed(Wanted)
<1>1. roots \in Seq(Hash)
  BY RootsAssumption DEF TypeOK
<1>2. \A i \in DOMAIN roots : roots[i] \in Hash
  BY <1>1
<1> QED
  BY <1>1, <1>2, ReachSelf, ReachClosed DEF Wanted, Closed

\* A justified reference leads to an object the roots reach, and when it is
\* broken the graph is not complete.
LEMMA JustifiedFacts ==
  ASSUME TypeOK, NEW r, Justified(r)
  PROVE  /\ r.hash \in Wanted
         /\ r.hash \notin readable \/ Kind[r.hash] # r.type => ~ AllComplete
<1>1. CASE \E i \in DOMAIN roots : r = CommitRef(roots[i])
  BY <1>1, WantedFacts, ReachSelf DEF CommitRef, AllComplete, Complete
<1>2. CASE \E x \in Wanted : \E i \in DOMAIN Refs[x] : r = Refs[x][i]
  <2>1. PICK x \in Wanted : \E i \in DOMAIN Refs[x] : r = Refs[x][i]
    BY <1>2
  <2>2. r.hash \in Children(x)
    BY <2>1 DEF Children
  <2>3. PICK k \in DOMAIN roots : x \in Reach[roots[k]]
    BY <2>1 DEF Wanted
  <2>4. r.hash \in Reach[roots[k]]
    BY <2>2, <2>3, WantedFacts, ReachClosed DEF Closed
  <2>5. r.hash \in Wanted
    BY <2>4 DEF Wanted
  <2> QED
    BY <2>1, <2>3, <2>4, <2>5 DEF AllComplete, Complete, TypedRefs
<1> QED
  BY <1>1, <1>2 DEF Justified

\* Nothing has been met, and the roots are all on the stack.
LEMMA InitInv == Init => Inv
<1> SUFFICES ASSUME Init PROVE Inv
  OBVIOUS
<1> USE DEF Init
<1>1. roots \in Seq(Hash) /\ Len(roots) \in Nat
  BY RootsAssumption
<1>2. /\ pending \in Seq(ObjectReference) /\ Len(pending) = Len(roots)
      /\ DOMAIN pending = DOMAIN roots
      /\ \A i \in DOMAIN roots : pending[i] = CommitRef(roots[i])
  <2>1. DOMAIN roots = 1..Len(roots)
    BY <1>1
  <2>2. \A i \in 1..Len(roots) : CommitRef(roots[i]) \in ObjectReference
    BY <1>1 DEF CommitRef, ObjectReference, Kinds
  <2>3. pending \in [1..Len(roots) -> ObjectReference]
    BY <2>1, <2>2
  <2>4. pending \in Seq(ObjectReference) /\ Len(pending) = Len(roots)
    BY <1>1, <2>3
  <2> QED
    BY <2>1, <2>4
<1>3. TypeOK
  BY <1>1, <1>2 DEF TypeOK, Verdicts
<1>4. SeenFinite
  BY FS_EmptySet DEF SeenFinite
<1>5. NothingForgotten
  BY <1>2 DEF NothingForgotten, Handled
<1>6. NothingInvented
  BY <1>2 DEF NothingInvented, Justified
<1>7. SeenWithinReferences
  BY <1>1, <1>2, FS_EmptySet, LimitAssumption DEF SeenWithinReferences
<1>8. IncompleteSound
  BY DEF IncompleteSound
<1>9. Counted
  <2>1. References({}) = {} /\ Bytes({}) = {}
    BY DEF References, Bytes
  <2>2. references = RefTotal(Len(roots), seen) /\ total = ByteTotal(seen)
    <3>1. Cardinality(References(seen)) = 0 /\ Cardinality(Bytes(seen)) = 0
      BY <2>1, FS_EmptySet
    <3> QED
      BY <1>1, <3>1 DEF RefTotal, ByteTotal
  <2>3. Len(roots) > MaxGraphObjects => ~ AllFit
    <3>1. Wanted \in SUBSET Hash
      BY <1>3, WantedFacts
    <3>2. Len(roots) <= RefTotal(Len(roots), Wanted) /\ RefTotal(Len(roots), Wanted) \in Nat
      BY <1>1, <3>1, TotalsMonotone
    <3> QED
      BY <1>1, <3>2, LimitAssumption DEF AllFit
  <2> QED
    BY <1>1, <2>2, <2>3, LimitAssumption DEF Counted
<1> QED
  BY <1>3, <1>4, <1>5, <1>6, <1>7, <1>8, <1>9 DEF Inv

\* A reference that was handled stays handled while the top of the stack is
\* popped, when the top itself is accounted for.
LEMMA HandledStays ==
  ASSUME TypeOK, pending # <<>>, NEW r, Handled(r),
         seen \subseteq seen',
         \A k \in DOMAIN Front(pending) :
           \E j \in DOMAIN pending' : pending'[j] = Front(pending)[k],
         ref.hash \in seen', Kind[ref.hash] = ref.type
  PROVE  Handled(r)'
<1>1. CASE r.hash \in seen /\ Kind[r.hash] = r.type
  BY <1>1 DEF Handled
<1>2. CASE \E j \in DOMAIN pending : pending[j] = r
  <2>1. r = ref \/ \E k \in DOMAIN Front(pending) : Front(pending)[k] = r
    BY <1>2, PopFacts
  <2> QED
    BY <2>1 DEF Handled
<1> QED
  BY <1>1, <1>2 DEF Handled

\* Skipping an object that was met.
LEMMA SkipSeenInv == Inv /\ SkipSeen => Inv'
<1> SUFFICES ASSUME Inv, SkipSeen PROVE Inv'
  OBVIOUS
<1> USE DEF SkipSeen, Turn
<1>1. TypeOK /\ TypeOK' /\ SeenFinite'
  BY PopFacts DEF Inv, TypeOK, SeenFinite
<1>2. \A r : Handled(r) => Handled(r)'
  BY <1>1, HandledStays
<1>3. NothingForgotten'
  BY <1>2 DEF Inv, NothingForgotten
<1>4. Wanted' = Wanted /\ \A r : Justified(r) => Justified(r)'
  BY DEF Wanted, Justified
<1>5. NothingInvented'
  BY <1>1, <1>4, PopFacts DEF Inv, NothingInvented
<1>6. SeenWithinReferences'
  <2>1. Cardinality(seen) \in Nat /\ references \in Nat
    BY FS_CardinalityType DEF Inv, SeenFinite, TypeOK
  <2> QED
    BY <1>1, <2>1, PopFacts DEF Inv, SeenWithinReferences
<1>7. IncompleteSound' /\ Counted'
  BY DEF IncompleteSound, Inv, Counted, AllFit, Wanted
<1> QED
  BY <1>1, <1>3, <1>5, <1>6, <1>7 DEF Inv

\* Accepting an object and pushing its references.
LEMMA VisitInv == Inv /\ Visit => Inv'
<1> SUFFICES ASSUME Inv, Visit PROVE Inv'
  OBVIOUS
<1> DEFINE h == ref.hash
<1> DEFINE F == Front(pending)
<1>1. /\ Turn /\ h \notin seen /\ h \in readable /\ Kind[h] = ref.type
      /\ ~ OverLimit(h)
      /\ seen' = seen \union {h} /\ total' = total + Size[h]
      /\ references' = references + Len(Refs[h])
      /\ pending' = F \o Refs[h]
      /\ UNCHANGED <<roots, readable, fault, verdict>>
  BY DEF Visit, Loaded
<1>2. TypeOK /\ pending # <<>> /\ verdict = "walking"
  BY <1>1 DEF Inv, Turn
<1>3. h \in Hash /\ Refs[h] \in Seq(ObjectReference) /\ Size[h] \in Nat
  BY <1>2, PopFacts, GraphAssumption DEF ObjectReference
<1>4. F \in Seq(ObjectReference) /\ Len(F) = Len(pending) - 1 /\ Len(pending) \in Nat
  BY <1>2, PopFacts
<1>5. /\ pending' \in Seq(ObjectReference)
      /\ Len(pending') = Len(F) + Len(Refs[h])
      /\ \A k \in DOMAIN F : k \in DOMAIN pending' /\ pending'[k] = F[k]
      /\ \A i \in DOMAIN Refs[h] : \E j \in DOMAIN pending' : pending'[j] = Refs[h][i]
      /\ \A j \in DOMAIN pending' :
           \/ \E k \in DOMAIN F : pending'[j] = F[k]
           \/ \E i \in DOMAIN Refs[h] : pending'[j] = Refs[h][i]
  <2> DEFINE R == Refs[h]
  <2>1. F \in Seq(ObjectReference) /\ R \in Seq(ObjectReference) /\ pending' = F \o R
    BY <1>1, <1>3, <1>4
  <2> HIDE DEF F, R
  <2>2. /\ F \o R \in Seq(ObjectReference)
        /\ Len(F \o R) = Len(F) + Len(R)
        /\ \A k \in DOMAIN F : k \in DOMAIN (F \o R) /\ (F \o R)[k] = F[k]
        /\ \A i \in DOMAIN R : \E j \in DOMAIN (F \o R) : (F \o R)[j] = R[i]
        /\ \A j \in DOMAIN (F \o R) :
             \/ \E k \in DOMAIN F : (F \o R)[j] = F[k]
             \/ \E i \in DOMAIN R : (F \o R)[j] = R[i]
    BY <2>1, PushFacts
  <2> QED
    BY <2>1, <2>2 DEF R
<1> HIDE DEF F
<1>6. TypeOK' /\ SeenFinite'
  <2> HIDE DEF h
  <2>1. total' \in Nat /\ references' \in Nat
    BY <1>1, <1>2, <1>3 DEF TypeOK
  <2>2. seen' \subseteq Hash
    BY <1>1, <1>2, <1>3 DEF TypeOK
  <2>3. IsFiniteSet(seen')
    BY <1>1, FS_AddElement DEF Inv, SeenFinite
  <2> QED
    BY <1>1, <1>2, <1>5, <2>1, <2>2, <2>3 DEF TypeOK, SeenFinite
<1>7. \A r : Handled(r) => Handled(r)'
  BY <1>1, <1>2, <1>5, HandledStays DEF F
<1>8. NothingForgotten'
  <2> HIDE DEF h
  <2>1. ASSUME NEW i \in DOMAIN roots'
        PROVE  Handled(CommitRef(roots[i]))'
    <3>1. Handled(CommitRef(roots[i]))
      BY <1>1, <1>2, <2>1 DEF Inv, NothingForgotten
    <3> QED
      BY <1>1, <1>7, <3>1 DEF Handled, CommitRef
  <2>2. ASSUME NEW x \in seen', NEW i \in DOMAIN Refs[x]
        PROVE  Handled(Refs[x][i])'
    <3>1. CASE x = h
      BY <1>5, <3>1 DEF Handled
    <3>2. CASE x \in seen
      <4>1. Handled(Refs[x][i])
        BY <1>2, <3>2 DEF Inv, NothingForgotten
      <4> QED
        BY <1>7, <4>1
    <3> QED
      BY <1>1, <2>2, <3>1, <3>2
  <2> QED
    BY <1>1, <1>2, <2>1, <2>2 DEF NothingForgotten
<1>9. Wanted' = Wanted /\ \A r : Justified(r) => Justified(r)'
  BY <1>1 DEF Wanted, Justified
<1>10. NothingInvented'
  <2>1. Justified(ref) /\ h \in Wanted
    BY <1>2, PopFacts, JustifiedFacts DEF Inv, NothingInvented
  <2>2. \A k \in DOMAIN F : Justified(F[k])
    BY <1>2, PopFacts DEF Inv, NothingInvented, F
  <2>3. \A i \in DOMAIN Refs[h] : Justified(Refs[h][i])
    BY <2>1 DEF Justified
  <2> QED
    BY <1>1, <1>5, <1>9, <2>1, <2>2, <2>3 DEF Inv, NothingInvented
<1>11. SeenWithinReferences'
  <2>1. Cardinality(seen') = Cardinality(seen) + 1 /\ Cardinality(seen) \in Nat
    BY <1>1, FS_AddElement, FS_CardinalityType DEF Inv, SeenFinite
  <2>2. Cardinality(seen) + Len(pending) <= references
    BY <1>2 DEF Inv, SeenWithinReferences
  <2>3. Len(Refs[h]) \in Nat /\ references \in Nat
    BY <1>2, <1>3 DEF TypeOK
  <2>4. Cardinality(seen') + Len(pending') <= references'
    <3> DEFINE p == Len(pending)
               r == Len(Refs[h])
               c == Cardinality(seen)
    <3>1. p \in Nat /\ r \in Nat /\ c \in Nat /\ references \in Nat /\ c + p <= references
      BY <1>4, <2>1, <2>2, <2>3
    <3>2. Cardinality(seen') = c + 1 /\ Len(pending') = (p - 1) + r
      BY <1>4, <1>5, <2>1
    <3>3. references' = references + r
      BY <1>1
    <3> HIDE DEF p, r, c
    <3>4. (c + 1) + ((p - 1) + r) <= references + r
      BY <3>1
    <3> QED
      BY <3>2, <3>3, <3>4
  <2>5. references' <= MaxGraphObjects
    <3>1. ~ (references + Len(Refs[h]) > MaxGraphObjects)
      BY <1>1 DEF OverLimit
    <3> QED
      BY <1>1, <2>3, <3>1, LimitAssumption
  <2> QED
    BY <2>4, <2>5 DEF SeenWithinReferences
<1>12. IncompleteSound'
  BY <1>1, <1>2 DEF IncompleteSound
<1>13. Counted'
  <2> HIDE DEF h
  <2>1. seen \in SUBSET Hash /\ Len(roots) \in Nat
    BY <1>2, WantedFacts DEF TypeOK
  <2>2. /\ RefTotal(Len(roots), seen') = RefTotal(Len(roots), seen) + Len(Refs[h])
        /\ ByteTotal(seen') = ByteTotal(seen) + Size[h]
    BY <1>1, <1>3, <2>1, TotalsAdd
  <2>3. references = RefTotal(Len(roots), seen) /\ total = ByteTotal(seen)
    BY DEF Inv, Counted
  <2>4. references' = RefTotal(Len(roots'), seen') /\ total' = ByteTotal(seen')
    BY <1>1, <2>2, <2>3
  <2>5. references' <= MaxGraphObjects /\ total' <= MaxGraphBytes
    <3>1. references' \in Nat /\ total' \in Nat
      BY <1>6 DEF TypeOK
    <3>2. ~ (total' > MaxGraphBytes) /\ ~ (references' > MaxGraphObjects)
      BY <1>1 DEF OverLimit
    <3> QED
      BY <3>1, <3>2, LimitAssumption
  <2> QED
    BY <1>1, <1>2, <2>4, <2>5 DEF Counted
<1> QED
  BY <1>6, <1>8, <1>10, <1>11, <1>12, <1>13 DEF Inv

\* An object that would break a limit proves that the whole graph does: it
\* and all that was met are reachable, and count once each.
LEMMA OverLimitFacts ==
  ASSUME Inv, Loaded, OverLimit(ref.hash)
  PROVE  ~ AllFit
<1> DEFINE h == ref.hash
           n == Len(roots)
<1>1. TypeOK /\ pending # <<>> /\ verdict = "walking" /\ h \notin seen
  BY DEF Inv, Loaded, Turn
<1>2. h \in Hash /\ h \in Wanted /\ seen \subseteq Wanted
  BY <1>1, PopFacts, JustifiedFacts DEF Inv, NothingInvented, ObjectReference
<1>3. Wanted \in SUBSET Hash /\ n \in Nat /\ seen \in SUBSET Hash
  BY <1>1, WantedFacts DEF TypeOK
<1> HIDE DEF h, n
<1>4. /\ RefTotal(n, seen \union {h}) = RefTotal(n, seen) + Len(Refs[h])
      /\ ByteTotal(seen \union {h}) = ByteTotal(seen) + Size[h]
  BY <1>1, <1>2, <1>3, TotalsAdd
<1>5. /\ RefTotal(n, seen \union {h}) <= RefTotal(n, Wanted)
      /\ ByteTotal(seen \union {h}) <= ByteTotal(Wanted)
      /\ RefTotal(n, seen \union {h}) \in Nat /\ ByteTotal(seen \union {h}) \in Nat
      /\ RefTotal(n, Wanted) \in Nat /\ ByteTotal(Wanted) \in Nat
  <2>1. seen \union {h} \in SUBSET Wanted
    BY <1>2
  <2> QED
    BY <1>3, <2>1, TotalsMonotone
<1>6. references = RefTotal(n, seen) /\ total = ByteTotal(seen)
  BY DEF Inv, Counted, n
<1>7. ~ (Cardinality(seen) >= MaxGraphObjects)
  <2>1. Len(pending) \in Nat \ {0} /\ Cardinality(seen) \in Nat /\ references \in Nat
    BY <1>1, PopFacts, FS_CardinalityType DEF Inv, SeenFinite, TypeOK
  <2> QED
    BY <1>1, <2>1, LimitAssumption DEF Inv, SeenWithinReferences
<1>8. total + Size[h] > MaxGraphBytes \/ references + Len(Refs[h]) > MaxGraphObjects
  BY <1>7 DEF OverLimit, h
<1>9. ByteTotal(seen \union {h}) > MaxGraphBytes
      \/ RefTotal(n, seen \union {h}) > MaxGraphObjects
  BY <1>4, <1>6, <1>8
<1>10. ByteTotal(Wanted) > MaxGraphBytes \/ RefTotal(n, Wanted) > MaxGraphObjects
  BY <1>5, <1>9, LimitAssumption
<1> QED
  BY <1>5, <1>10, LimitAssumption DEF AllFit, n

\* The ways in which the loop returns.
LEMMA EndInv ==
  ASSUME Inv, NEW v \in Verdicts \ {"walking"}, End(v),
         v = "ok" => verdict = "walking" /\ pending = <<>>,
         fault' \in BOOLEAN,
         v = "incomplete" /\ ~ fault' => ~ AllComplete,
         v = "limit" => ~ AllFit
  PROVE  Inv'
<1> USE DEF End
<1>1. TypeOK' /\ SeenFinite'
  BY DEF Inv, TypeOK, SeenFinite
<1>2. NothingForgotten'
  BY DEF Inv, NothingForgotten, Handled
<1>3. NothingInvented'
  BY DEF Inv, NothingInvented, Justified, Wanted
<1>4. SeenWithinReferences'
  BY DEF SeenWithinReferences
<1>5. IncompleteSound'
  BY DEF IncompleteSound, AllComplete
<1>6. Counted'
  BY DEF Inv, Counted, AllFit, Wanted
<1> QED
  BY <1>1, <1>2, <1>3, <1>4, <1>5, <1>6 DEF Inv

\* Every step keeps it.
LEMMA NextInv == Inv /\ [Next]_walkVars => Inv'
<1> SUFFICES ASSUME Inv, [Next]_walkVars
             PROVE  Inv'
  OBVIOUS
<1> USE DEF Verdicts
<1>1. CASE SkipSeen
  BY <1>1, SkipSeenInv
<1>2. CASE Visit
  BY <1>2, VisitInv
<1>3. ASSUME Turn
      PROVE  /\ Justified(ref)
             /\ seen \subseteq readable
             /\ ref.hash \notin readable \/ Kind[ref.hash] # ref.type => ~ AllComplete
  BY <1>3, PopFacts, JustifiedFacts DEF Inv, Turn, NothingInvented
<1>4. CASE TypeClash
  BY <1>3, <1>4, EndInv DEF TypeClash, Inv, TypeOK
<1>5. CASE LoadRefused
  BY <1>3, <1>5, EndInv DEF LoadRefused, Inv, TypeOK
<1>6. CASE LoadFails
  BY <1>6, EndInv DEF LoadFails
<1>7. CASE TooLarge
  BY <1>7, OverLimitFacts, EndInv DEF TooLarge, Inv, TypeOK
<1>8. CASE Cancel
  BY <1>8, EndInv DEF Cancel, Inv, TypeOK
<1>9. CASE Accept
  BY <1>9, EndInv DEF Accept, Inv, TypeOK
<1>10. CASE UNCHANGED walkVars
  BY <1>10 DEF walkVars, Inv, TypeOK, SeenFinite, NothingForgotten, Handled,
               NothingInvented, Justified, Wanted, SeenWithinReferences,
               IncompleteSound, AllComplete, Counted, AllFit
<1> QED
  BY <1>1, <1>2, <1>4, <1>5, <1>6, <1>7, <1>8, <1>9, <1>10 DEF Next, Progress

\* The bookkeeping of the loop: nothing forgotten and nothing invented.
THEOREM InvHolds == Spec => []Inv
BY InitInv, NextInv, PTL DEF Spec

\* Every walk stays type correct, for any graph, roots and readable objects.
THEOREM TypeCorrect == Spec => []TypeOK
<1>1. Inv => TypeOK
  BY DEF Inv
<1> QED
  BY <1>1, InvHolds, PTL

\* When the stack is empty, the objects met are closed under references, so
\* they are all that the roots reach, and every one was readable and typed.
LEMMA InvAccepts == Inv => AcceptSound
<1> SUFFICES ASSUME Inv, verdict = "ok"
             PROVE  AllComplete /\ seen = Wanted
  BY DEF AcceptSound
<1>1. pending = <<>> /\ \A r : Handled(r) => r.hash \in seen /\ Kind[r.hash] = r.type
  BY DEF Inv, NothingForgotten, Handled
<1>2. /\ \A i \in DOMAIN roots : roots[i] \in seen /\ Kind[roots[i]] = "commit"
      /\ \A x \in seen : \A i \in DOMAIN Refs[x] :
           Refs[x][i].hash \in seen /\ Kind[Refs[x][i].hash] = Refs[x][i].type
  <2>1. \A i \in DOMAIN roots : Handled(CommitRef(roots[i]))
    BY DEF Inv, NothingForgotten
  <2>2. \A x \in seen : \A i \in DOMAIN Refs[x] : Handled(Refs[x][i])
    BY DEF Inv, NothingForgotten
  <2>3. ASSUME NEW i \in DOMAIN roots
        PROVE  roots[i] \in seen /\ Kind[roots[i]] = "commit"
    <3>1. /\ CommitRef(roots[i]).hash = roots[i]
          /\ CommitRef(roots[i]).type = "commit"
      BY DEF CommitRef
    <3> QED
      BY <1>1, <2>1, <3>1
  <2> QED
    BY <1>1, <2>2, <2>3
<1>3. seen \in SUBSET Hash /\ Closed(seen)
  BY <1>2 DEF Inv, TypeOK, Closed, Children
<1>4. \A i \in DOMAIN roots : Reach[roots[i]] \subseteq seen
  BY <1>2, <1>3, ReachLeast
<1>5. seen = Wanted /\ seen \subseteq readable
  BY <1>4 DEF Wanted, Inv, NothingInvented
<1>6. AllComplete
  BY <1>2, <1>4, <1>5 DEF AllComplete, Complete, TypedRefs
<1> QED
  BY <1>5, <1>6

\* What the loop accepts is a complete, correctly typed graph, and the map it
\* returns is exactly that graph.
THEOREM AcceptSoundHolds == Spec => []AcceptSound
BY InvAccepts, InvHolds, PTL

\* What it calls incomplete is incomplete, unless a read failed.
THEOREM IncompleteSoundHolds == Spec => []IncompleteSound
<1>1. Inv => IncompleteSound
  BY DEF Inv
<1> QED
  BY <1>1, InvHolds, PTL

\* The two running counts decide the budgets of the whole graph, shared
\* objects counted once, in whatever order the walk meets them.
THEOREM LimitsExactHolds == Spec => []LimitsExact
<1>1. Inv => LimitsExact
  BY InvAccepts DEF Inv, Counted, AcceptSound, LimitsExact, AllFit
<1> QED
  BY <1>1, InvHolds, PTL

\* The server's own bound on len(seen) can never be the one that is reached.
THEOREM SeenWithinReferencesHolds == Spec => []SeenWithinReferences
<1>1. Inv => SeenWithinReferences
  BY DEF Inv
<1> QED
  BY <1>1, InvHolds, PTL
-----------------------------------------------------------------------------
(* What the other modules take from a walk *)

\* validateGraph's answer about one tip, in the terms in which ServerStore
\* makes it one step: accepted is complete and within the limits, and refused
\* is incomplete or over one of them, unless a read failed.
JudgesTip ==
  \A h \in Hash : roots = <<h>> =>
    /\ verdict = "ok" => Complete(h, readable) /\ FitsLimits(h)
    /\ verdict = "incomplete" /\ ~ fault => ~ Complete(h, readable)
    /\ verdict = "limit" => ~ FitsLimits(h)

\* The walk of UpdateRef decides ValidateGraph and RejectGraph of ServerStore.
THEOREM JudgesTipHolds == Spec => []JudgesTip
<1>1. ASSUME AcceptSound, IncompleteSound, LimitsExact
      PROVE  JudgesTip
  <2> SUFFICES ASSUME NEW h \in Hash, roots = <<h>>
               PROVE  /\ verdict = "ok" => Complete(h, readable) /\ FitsLimits(h)
                      /\ verdict = "incomplete" /\ ~ fault => ~ Complete(h, readable)
                      /\ verdict = "limit" => ~ FitsLimits(h)
    BY DEF JudgesTip
  <2>1. DOMAIN roots = {1} /\ roots[1] = h /\ Len(roots) = 1
    OBVIOUS
  <2>2. AllComplete <=> Complete(h, readable)
    BY <2>1 DEF AllComplete
  <2>3. Wanted = Reach[h]
    BY <2>1 DEF Wanted
  <2>4. AllFit <=> FitsLimits(h)
    BY <2>1, <2>3 DEF AllFit, FitsLimits
  <2> QED
    BY <1>1, <2>2, <2>4 DEF AcceptSound, IncompleteSound, LimitsExact
<1> QED
  BY <1>1, AcceptSoundHolds, IncompleteSoundHolds, LimitsExactHolds, PTL

\* The references taken off the stack so far: one in each turn of the loop.
Turns == references - Len(pending)

\* Every step that does not end the walk is one more turn, and there are at
\* most as many as the limit on references allows.
TurnsBounded ==
  [][verdict' = "walking" =>
       Turns' = Turns + 1 /\ Turns' \in 0..MaxGraphObjects]_walkVars

\* What WalkEnds rests on: no graph, however its paths share objects, keeps the
\* loop running for more than MaxGraphObjects turns.
THEOREM TurnsBoundedHolds == Spec => TurnsBounded
<1>1. ASSUME Inv, Next, verdict' = "walking"
      PROVE  Turns' = Turns + 1 /\ Turns' \in 0..MaxGraphObjects
  <2>1. SkipSeen \/ Visit
    BY <1>1 DEF Next, Progress, TypeClash, LoadRefused, LoadFails, TooLarge, Cancel,
                Accept, End
  <2>2. Turn /\ TypeOK /\ pending # <<>> /\ references \in Nat
    BY <1>1, <2>1 DEF SkipSeen, Visit, Loaded, Turn, Inv, TypeOK
  <2>3. /\ Len(pending) \in Nat /\ Len(Front(pending)) = Len(pending) - 1
        /\ ref \in ObjectReference /\ Front(pending) \in Seq(ObjectReference)
    BY <2>2, PopFacts
  <2>4. Turns' = Turns + 1
    <3>1. CASE SkipSeen
      BY <2>2, <2>3, <3>1 DEF SkipSeen, Turns
    <3>2. CASE Visit
      <4> DEFINE F == Front(pending)
                 R == Refs[ref.hash]
      <4>1. R \in Seq(ObjectReference)
        BY <2>3, GraphAssumption DEF ObjectReference
      <4>2. pending' = F \o R /\ references' = references + Len(R)
        BY <3>2 DEF Visit
      <4> HIDE DEF F, R
      <4>3. F \in Seq(ObjectReference) /\ Len(F) = Len(pending) - 1
        BY <2>3 DEF F
      <4>4. Len(F \o R) = Len(F) + Len(R) /\ Len(R) \in Nat
        BY <4>1, <4>3
      <4> QED
        BY <2>2, <2>3, <4>2, <4>3, <4>4 DEF Turns
    <3> QED
      BY <2>1, <3>1, <3>2
  <2>5. Inv'
    BY <1>1, NextInv
  <2>6. /\ Len(pending') \in Nat /\ references' \in Nat /\ references' <= MaxGraphObjects
        /\ Cardinality(seen') + Len(pending') <= references'
    BY <1>1, <2>5 DEF Inv, TypeOK, SeenWithinReferences
  <2>7. Cardinality(seen') \in Nat
    BY <2>5, FS_CardinalityType DEF Inv, SeenFinite
  <2>8. Turns' \in 0..MaxGraphObjects
    BY <2>6, <2>7, LimitAssumption DEF Turns
  <2> QED
    BY <2>4, <2>8
<1>2. Inv /\ [Next]_walkVars =>
        [verdict' = "walking" =>
           Turns' = Turns + 1 /\ Turns' \in 0..MaxGraphObjects]_walkVars
  BY <1>1
<1> QED
  BY <1>2, InvHolds, PTL DEF Spec, TurnsBounded
=============================================================================
