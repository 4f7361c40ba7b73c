---------------------------- MODULE ObjectsProofs ----------------------------
(***************************************************************************)
(* Facts about reachability in the object graph, for every set of objects. *)
(* They are what the fast-forward test of UpdateRef, the history merge of  *)
(* a pull and the ancestry test of a push rest on.                         *)
(***************************************************************************)
EXTENDS Objects, FiniteSetTheorems, TLAPS

\* References name objects, so children are objects.
LEMMA ChildrenType ==
  ASSUME NEW h \in Hash
  PROVE  Children(h) \subseteq Hash
<1> SUFFICES ASSUME NEW i \in DOMAIN Refs[h]
             PROVE  Refs[h][i].hash \in Hash
  BY DEF Children
<1>1. Refs[h] \in Seq(ObjectReference)
  BY GraphAssumption
<1>2. Refs[h][i] \in ObjectReference
  BY <1>1
<1> QED
  BY <1>2 DEF ObjectReference

\* Everything reachable is an object, and an object reaches itself.
LEMMA ReachSelf ==
  ASSUME NEW h \in Hash
  PROVE  h \in Reach[h] /\ Reach[h] \subseteq Hash
BY DEF Reach

\* What is reachable is closed under children.
LEMMA ReachClosed ==
  ASSUME NEW h \in Hash
  PROVE  Closed(Reach[h])
<1> SUFFICES ASSUME NEW x \in Reach[h], NEW y \in Children(x)
             PROVE  y \in Reach[h]
  BY DEF Closed
<1>1. x \in Hash /\ y \in Hash
  BY ReachSelf, ChildrenType
<1>2. ASSUME NEW S \in SUBSET Hash, h \in S, Closed(S)
      PROVE  y \in S
  <2>1. x \in S
    BY <1>2 DEF Reach
  <2> QED
    BY <2>1, <1>2 DEF Closed
<1> QED
  BY <1>1, <1>2 DEF Reach

\* A closed set of objects holds everything its members reach.
LEMMA ReachLeast ==
  ASSUME NEW S \in SUBSET Hash, Closed(S), NEW h \in S
  PROVE  Reach[h] \subseteq S
BY DEF Reach

\* Reachability is transitive.
LEMMA ReachTransitive ==
  ASSUME NEW h \in Hash, NEW x \in Reach[h]
  PROVE  x \in Hash /\ Reach[x] \subseteq Reach[h]
<1>1. Reach[h] \in SUBSET Hash /\ x \in Hash
  BY ReachSelf
<1> QED
  BY <1>1, ReachClosed, ReachLeast

\* What an object reaches, other than itself, it reaches through a child.
LEMMA ReachThroughChild ==
  ASSUME NEW h \in Hash, NEW x \in Reach[h], x # h
  PROVE  \E c \in Children(h) : x \in Reach[c]
<1> DEFINE S == {h} \union UNION {Reach[c] : c \in Children(h)}
<1>1. Children(h) \subseteq Hash
  BY ChildrenType
<1>2. S \in SUBSET Hash
  BY <1>1, ReachSelf
<1>3. Closed(S)
  <2> SUFFICES ASSUME NEW y \in S, NEW z \in Children(y)
               PROVE  z \in S
    BY DEF Closed
  <2>1. CASE y = h
    BY <2>1, <1>1, ReachSelf
  <2>2. CASE \E c \in Children(h) : y \in Reach[c]
    <3>1. PICK c \in Children(h) : y \in Reach[c]
      BY <2>2
    <3>2. z \in Reach[c]
      BY <3>1, <1>1, ReachClosed DEF Closed
    <3> QED
      BY <3>2
  <2> QED
    BY <2>1, <2>2
<1>4. Reach[h] \subseteq S
  BY <1>2, <1>3, ReachLeast
<1> QED
  BY <1>4

\* The graph has no cycles: two objects that reach each other are the same.
\* This is what makes a moved branch tip never come back to an earlier one.
LEMMA ReachAntisymmetric ==
  ASSUME NEW x \in Hash, NEW y \in Reach[x], x \in Reach[y]
  PROVE  x = y
<1> SUFFICES ASSUME x # y
             PROVE  FALSE
  OBVIOUS
<1> DEFINE S == {z \in Reach[x] : x \in Reach[z]}
<1>1. y \in Hash /\ S \in SUBSET Hash /\ x \in S /\ y \in S
  BY ReachSelf
<1>2. PICK h \in S : Children(h) \cap S = {}
  BY <1>1, AcyclicAssumption
<1>3. h \in Hash /\ Reach[h] \subseteq Reach[x] /\ Reach[x] \subseteq Reach[h]
  <2>1. h \in Hash /\ Reach[h] \subseteq Reach[x]
    BY ReachTransitive
  <2> QED
    BY <2>1, ReachTransitive
<1>4. PICK w \in {x, y} : w # h
  OBVIOUS
<1>5. w \in Reach[h] /\ x \in Reach[w]
  BY <1>3, <1>4, ReachSelf
<1>6. PICK c \in Children(h) : w \in Reach[c]
  BY <1>3, <1>4, <1>5, ReachThroughChild
<1>7. c \in Hash /\ c \in Reach[x]
  BY <1>3, ChildrenType, ReachSelf, ReachClosed DEF Closed
<1>8. x \in Reach[c]
  BY <1>5, <1>6, <1>7, ReachTransitive
<1> QED
  BY <1>2, <1>7, <1>8

\* A complete graph stays complete when more objects become readable.
LEMMA CompleteMonotone ==
  ASSUME NEW c \in Hash, NEW R, NEW S, R \subseteq S, Complete(c, R)
  PROVE  Complete(c, S)
BY DEF Complete

-----------------------------------------------------------------------------
\* The pairs of x with the members of an interval.
LEMMA RowCardinality ==
  ASSUME NEW x, NEW n \in Nat
  PROVE  IsFiniteSet({x} \X (1..n)) /\ Cardinality({x} \X (1..n)) = n
<1>1. IsFiniteSet({x}) /\ Cardinality({x}) = 1
  BY FS_Singleton
<1>2. IsFiniteSet(1..n) /\ Cardinality(1..n) = n
  BY FS_Interval
<1>3. /\ IsFiniteSet({x} \X (1..n))
      /\ Cardinality({x} \X (1..n)) = Cardinality({x}) * Cardinality(1..n)
  BY <1>1, <1>2, FS_Product
<1> QED
  BY <1>1, <1>2, <1>3

\* A set of objects holds finitely many references and bytes.
LEMMA HeldFinite ==
  ASSUME NEW S \in SUBSET Hash
  PROVE  IsFiniteSet(References(S)) /\ IsFiniteSet(Bytes(S))
<1>1. IsFiniteSet(S)
  BY HashAssumption, FS_Subset
<1>2. ASSUME NEW x \in S
      PROVE  IsFiniteSet({x} \X DOMAIN Refs[x]) /\ IsFiniteSet({x} \X (1..Size[x]))
  <2>1. Refs[x] \in Seq(ObjectReference) /\ Size[x] \in Nat
    BY GraphAssumption
  <2>2. DOMAIN Refs[x] = 1..Len(Refs[x]) /\ Len(Refs[x]) \in Nat
    BY <2>1
  <2> QED
    BY <2>1, <2>2, RowCardinality
<1>3. IsFiniteSet({{x} \X DOMAIN Refs[x] : x \in S})
  <2> DEFINE T == {{x} \X DOMAIN Refs[x] : x \in S}
             f == [x \in S |-> {x} \X DOMAIN Refs[x]]
  <2>1. f \in Surjection(S, T)
    BY DEF Surjection
  <2> HIDE DEF f, T
  <2>2. IsFiniteSet(T)
    BY <1>1, <2>1, FS_Surjection
  <2> QED
    BY <2>2 DEF T
<1>4. IsFiniteSet({{x} \X (1..Size[x]) : x \in S})
  <2> DEFINE T == {{x} \X (1..Size[x]) : x \in S}
             f == [x \in S |-> {x} \X (1..Size[x])]
  <2>1. f \in Surjection(S, T)
    BY DEF Surjection
  <2> HIDE DEF f, T
  <2>2. IsFiniteSet(T)
    BY <1>1, <2>1, FS_Surjection
  <2> QED
    BY <2>2 DEF T
<1>5. IsFiniteSet(References(S))
  BY <1>2, <1>3, FS_UNION DEF References
<1>6. IsFiniteSet(Bytes(S))
  BY <1>2, <1>4, FS_UNION DEF Bytes
<1> QED
  BY <1>5, <1>6

\* The totals of a larger set are not smaller.
LEMMA TotalsMonotone ==
  ASSUME NEW S \in SUBSET Hash, NEW T \in SUBSET S, NEW n \in Nat
  PROVE  /\ RefTotal(n, T) \in Nat /\ ByteTotal(T) \in Nat
         /\ n <= RefTotal(n, T)
         /\ RefTotal(n, T) <= RefTotal(n, S) /\ ByteTotal(T) <= ByteTotal(S)
<1>1. References(T) \subseteq References(S) /\ Bytes(T) \subseteq Bytes(S)
  BY DEF References, Bytes
<1>2. /\ IsFiniteSet(References(S)) /\ IsFiniteSet(Bytes(S))
      /\ IsFiniteSet(References(T)) /\ IsFiniteSet(Bytes(T))
  BY HeldFinite
<1>3. /\ Cardinality(References(S)) \in Nat /\ Cardinality(Bytes(S)) \in Nat
      /\ Cardinality(References(T)) \in Nat /\ Cardinality(Bytes(T)) \in Nat
  BY <1>2, FS_CardinalityType
<1>4. /\ Cardinality(References(T)) <= Cardinality(References(S))
      /\ Cardinality(Bytes(T)) <= Cardinality(Bytes(S))
  BY <1>1, <1>2, FS_Subset
<1> QED
  BY <1>3, <1>4 DEF RefTotal, ByteTotal

\* Two finite sets without a common member.
LEMMA DisjointUnion ==
  ASSUME NEW S, NEW T, IsFiniteSet(S), IsFiniteSet(T), S \cap T = {}
  PROVE  Cardinality(S \union T) = Cardinality(S) + Cardinality(T)
<1>1. Cardinality(S \union T) = Cardinality(S) + Cardinality(T) - Cardinality(S \cap T)
  BY FS_Union
<1>2. Cardinality(S \cap T) = 0
  BY FS_EmptySet
<1>3. Cardinality(S) \in Nat /\ Cardinality(T) \in Nat
  BY FS_CardinalityType
<1> QED
  BY <1>1, <1>2, <1>3

\* One more object adds its own references and its own bytes.
LEMMA TotalsAdd ==
  ASSUME NEW S \in SUBSET Hash, NEW x \in Hash, x \notin S, NEW n \in Nat
  PROVE  /\ RefTotal(n, S \union {x}) = RefTotal(n, S) + Len(Refs[x])
         /\ ByteTotal(S \union {x}) = ByteTotal(S) + Size[x]
<1>1. /\ Len(Refs[x]) \in Nat /\ DOMAIN Refs[x] = 1..Len(Refs[x])
      /\ Size[x] \in Nat
  BY GraphAssumption
<1> DEFINE R == {x} \X DOMAIN Refs[x]
           B == {x} \X (1..Size[x])
<1>2. References(S \union {x}) = References(S) \union R /\ References(S) \cap R = {}
  BY DEF References
<1>3. Bytes(S \union {x}) = Bytes(S) \union B /\ Bytes(S) \cap B = {}
  BY DEF Bytes
<1>4. /\ IsFiniteSet(R) /\ Cardinality(R) = Len(Refs[x])
      /\ IsFiniteSet(B) /\ Cardinality(B) = Size[x]
  BY <1>1, RowCardinality
<1>5. IsFiniteSet(References(S)) /\ IsFiniteSet(Bytes(S))
  BY HeldFinite
<1>6. Cardinality(References(S)) \in Nat
  BY <1>5, FS_CardinalityType
<1> HIDE DEF R, B
<1>7. Cardinality(References(S) \union R) = Cardinality(References(S)) + Cardinality(R)
  BY <1>2, <1>4, <1>5, DisjointUnion
<1>8. Cardinality(Bytes(S) \union B) = Cardinality(Bytes(S)) + Cardinality(B)
  BY <1>3, <1>4, <1>5, DisjointUnion
<1>9. RefTotal(n, S \union {x}) = RefTotal(n, S) + Len(Refs[x])
  <2> DEFINE c == Cardinality(References(S))
             k == Len(Refs[x])
  <2>1. c \in Nat /\ k \in Nat /\ Cardinality(References(S \union {x})) = c + k
    BY <1>1, <1>2, <1>4, <1>6, <1>7
  <2>2. RefTotal(n, S) = n + c /\ RefTotal(n, S \union {x}) = n + (c + k)
    BY <2>1 DEF RefTotal
  <2> HIDE DEF c, k
  <2>3. n + (c + k) = (n + c) + k
    BY <2>1
  <2> QED
    BY <2>2, <2>3 DEF k
<1>10. ByteTotal(S \union {x}) = ByteTotal(S) + Size[x]
  BY <1>3, <1>4, <1>8 DEF ByteTotal
<1> QED
  BY <1>9, <1>10
=============================================================================
