------------------------------- MODULE Objects -------------------------------
(***************************************************************************)
(* The object graph that the client and the server share                   *)
(* (src/core/object_wire.go, src/server/refs.go, src/remote/graph.go).     *)
(*                                                                         *)
(* An object is content-addressed: its name is a digest of its kind and    *)
(* its bytes, so the name determines both the kind and the references that *)
(* InspectObject reads out of it.  Kind, Refs and Size are therefore       *)
(* constants.  What varies, in the modules that use this one, is which     *)
(* objects a store can read.                                               *)
(***************************************************************************)
EXTENDS Naturals, Sequences, FiniteSets, Functions

CONSTANTS
  Hash,             \* the object names in play
  NoHash,           \* the empty string, where the code allows one for a hash
  Kind,             \* Kind[h]: "blob", "tree" or "commit"
  Refs,             \* Refs[h]: the typed references of h, in file order
  Size,             \* Size[h]: the length of the object's data
  MaxGraphObjects,  \* server.MaxGraphObjects, and the client's literal 10000
  MaxGraphBytes     \* server.MaxGraphBytes, and the client's literal 256<<20

Kinds == {"blob", "tree", "commit"}

ObjectReference == [hash : Hash, type : Kinds]

(***************************************************************************)
(* What InspectObject guarantees of every object it accepts: a blob has no *)
(* references, a tree refers to blobs, and a commit refers first to a tree *)
(* and then to its parents.  The type is the one the REFERRING object      *)
(* claims; the object named may be of another kind.                        *)
(***************************************************************************)
WellFormed(h) ==
  /\ Kind[h] = "blob" => Refs[h] = <<>>
  /\ Kind[h] = "tree" => \A i \in DOMAIN Refs[h] : Refs[h][i].type = "blob"
  /\ Kind[h] = "commit" =>
       /\ Refs[h] # <<>>
       /\ \A i \in DOMAIN Refs[h] :
            Refs[h][i].type = (IF i = 1 THEN "tree" ELSE "commit")

\* Names are digests of twenty bytes.
ASSUME HashAssumption == NoHash \notin Hash /\ IsFiniteSet(Hash)

ASSUME GraphAssumption ==
  /\ Kind \in [Hash -> Kinds]
  /\ Refs \in [Hash -> Seq(ObjectReference)]
  /\ Size \in [Hash -> Nat]
  /\ \A h \in Hash : WellFormed(h)

ASSUME LimitAssumption ==
  /\ MaxGraphObjects \in Nat
  /\ MaxGraphBytes \in Nat

\* The objects that h refers to, whatever it claims of their kinds.
Children(h) == {Refs[h][i].hash : i \in DOMAIN Refs[h]}

(***************************************************************************)
(* A digest cannot occur in the bytes it is the digest of, so no object    *)
(* reaches itself: every set of objects has one without a child in it.     *)
(***************************************************************************)
ASSUME AcyclicAssumption ==
  \A S \in SUBSET Hash : S # {} => \E h \in S : Children(h) \cap S = {}

-----------------------------------------------------------------------------
\* S contains every child of its members.
Closed(S) == \A h \in S : Children(h) \subseteq S

\* Everything that can be reached from h, h included.
Reach == [h \in Hash |->
            {x \in Hash : \A S \in SUBSET Hash : h \in S /\ Closed(S) => x \in S}]

\* The `commits' map that validateGraph returns for a tip.
Commits(h) == {x \in Reach[h] : Kind[x] = "commit"}

\* l lists the objects of S, each of them once and after all that it reaches.
Lists(l, S) ==
  /\ Range(l) = S
  /\ \A i, j \in DOMAIN l : l[i] \in Reach[l[j]] => i <= j

\* The references of x name objects of the kinds that x claims.
TypedRefs(x) == \A i \in DOMAIN Refs[x] : Kind[Refs[x][i].hash] = Refs[x][i].type

(***************************************************************************)
(* The graph below tip can be loaded: every object is in `readable' and    *)
(* every reference has the right type.  This is the reference definition;  *)
(* the loops that decide it are in module GraphWalk.                       *)
(***************************************************************************)
Complete(tip, readable) ==
  /\ Kind[tip] = "commit"
  /\ Reach[tip] \subseteq readable
  /\ \A x \in Reach[tip] : TypedRefs(x)

\* The references and the bytes of the objects S, each with its holder.
References(S) == UNION {{x} \X DOMAIN Refs[x] : x \in S}
Bytes(S) == UNION {{x} \X (1..Size[x]) : x \in S}

\* The two budgets of a walk from n roots that meets the objects S: every
\* reference counts, also one to an object met before.
RefTotal(n, S) == n + Cardinality(References(S))
ByteTotal(S) == Cardinality(Bytes(S))

FitsLimits(tip) ==
  /\ RefTotal(1, Reach[tip]) <= MaxGraphObjects
  /\ ByteTotal(Reach[tip]) <= MaxGraphBytes
=============================================================================
