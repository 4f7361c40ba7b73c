------------------------------ MODULE SyncProofs ------------------------------
(***************************************************************************)
(* Any number of clients over any object graph: what a push, a pull or a   *)
(* clone leaves behind, whatever was lost, late, repeated or cut off.      *)
(***************************************************************************)
EXTENDS Sync, ObjectsProofs, SequenceTheorems

\* The server's branch heads a graph that can be fetched.
TipComplete == tip # NoHash => Complete(tip, stored)

\* The tip that p's command works towards is a commit, and one that it
\* downloads was complete on the server when its name was read.
Target(p) ==
  /\ pc[p] \in {"pushRefs", "upload", "update"} => next[p] \in Hash
  /\ pc[p] \in {"pullWalk", "cloneWalk"} =>
       next[p] \in Hash /\ Complete(next[p], stored)

\* A pull starts with nothing walked over and saves what it walks over, still
\* starts from the tip of its log, and is on its way to a commit that is not in
\* the log.
Pull(p) ==
  /\ pc[p] \in {"idle", "pullRefs"} => objs[p] = {}
  /\ pc[p] \in {"pullRefs", "pullWalk"} => old[p] = TipOf(log[p])
  /\ pc[p] = "pullWalk" =>
       /\ objs[p] \subseteq local[p]
       /\ old[p] # NoHash => next[p] \notin Commits(old[p])

\* There is no log before a clone is published.
Unborn(p) == pc[p] \in {"absent", "cloneRefs", "cloneWalk"} => log[p] = <<>>

\* p's log is the history of its last entry, whose graph p has.
Log(p) ==
  log[p] # <<>> =>
    /\ Complete(Last(log[p]), local[p])
    /\ Lists(log[p], Commits(Last(log[p])))

ClientInv(p) == Target(p) /\ Pull(p) /\ Unborn(p) /\ Log(p)

Inv ==
  /\ TypeOK
  /\ TipComplete /\ AckedSurvive
  /\ \A p \in Client : ClientInv(p)

-----------------------------------------------------------------------------
(* Commits and their graphs *)

\* A complete commit is one of its own commits.
LEMMA CommitOfItself ==
  ASSUME NEW c \in Hash, Kind[c] = "commit"
  PROVE  c \in Commits(c)
BY ReachSelf DEF Commits

\* A commit knows the commits that its ancestors know.
LEMMA CommitsTransitive ==
  ASSUME NEW c \in Hash, NEW x \in Commits(c)
  PROVE  x \in Hash /\ Commits(x) \subseteq Commits(c)
BY ReachTransitive DEF Commits

\* An object whose children are blobs reaches itself and them.
LEMMA TreeGraph ==
  ASSUME NEW t \in Hash, Kind[t] = "tree", TypedRefs(t)
  PROVE  \A x \in Reach[t] : TypedRefs(x) /\ Kind[x] # "commit"
<1>1. ASSUME NEW y \in Children(t)
      PROVE  y \in Hash /\ Kind[y] = "blob" /\ Refs[y] = <<>>
  <2>1. PICK i \in DOMAIN Refs[t] : y = Refs[t][i].hash
    BY DEF Children
  <2>2. Refs[t][i].type = "blob" /\ Kind[y] = "blob"
    BY <2>1, GraphAssumption DEF WellFormed, TypedRefs
  <2> QED
    BY <2>2, ChildrenType, GraphAssumption DEF WellFormed
<1>2. Reach[t] \subseteq {t} \union Children(t)
  <2> DEFINE S == {t} \union Children(t)
  <2>1. S \in SUBSET Hash
    BY ChildrenType
  <2>2. \A y \in Children(t) : Children(y) = {}
    BY <1>1 DEF Children
  <2>3. Closed(S)
    BY <2>2 DEF Closed
  <2> QED
    BY <2>1, <2>3, ReachLeast
<1>3. \A y \in Children(t) : TypedRefs(y) /\ Kind[y] # "commit"
  BY <1>1 DEF TypedRefs
<1> QED
  BY <1>2, <1>3

\* The references of a commit that createCommit makes.
LEMMA CommitRefs ==
  ASSUME NEW c \in Hash, Kind[c] = "commit", TypedRefs(c)
  PROVE  /\ TreeOf(c) \in Hash /\ Kind[TreeOf(c)] = "tree"
         /\ TreeOf(c) \in Children(c)
         /\ Parents(c) = <<>> => Children(c) = {TreeOf(c)}
         /\ \A h : Parents(c) = <<[hash |-> h, type |-> "commit"]>> =>
                     Children(c) = {TreeOf(c), h}
<1>1. Refs[c] \in Seq(ObjectReference) /\ Refs[c] # <<>>
  BY GraphAssumption DEF WellFormed
<1>2. /\ Len(Refs[c]) \in Nat \ {0} /\ DOMAIN Refs[c] = 1..Len(Refs[c])
      /\ Len(Parents(c)) = Len(Refs[c]) - 1
      /\ \A i \in 1..Len(Parents(c)) : Parents(c)[i] = Refs[c][i + 1]
  BY <1>1, HeadTailProperties, EmptySeq, LenProperties DEF Parents
<1>3. TreeOf(c) \in Children(c) /\ Kind[TreeOf(c)] = "tree"
  BY <1>2, GraphAssumption DEF TreeOf, Children, TypedRefs, WellFormed
<1>4. TreeOf(c) \in Hash
  BY <1>3, ChildrenType
<1>5. ASSUME Parents(c) = <<>> PROVE Children(c) = {TreeOf(c)}
  <2>1. Len(Refs[c]) = 1
    BY <1>2, <1>5
  <2> QED
    BY <1>2, <2>1 DEF Children, TreeOf
<1>6. ASSUME NEW h, Parents(c) = <<[hash |-> h, type |-> "commit"]>>
      PROVE  Children(c) = {TreeOf(c), h}
  <2>1. Len(Refs[c]) = 2 /\ Refs[c][2].hash = h
    BY <1>2, <1>6
  <2>2. DOMAIN Refs[c] = {1, 2}
    BY <1>2, <2>1
  <2> QED
    BY <2>1, <2>2 DEF Children, TreeOf
<1> QED
  BY <1>3, <1>4, <1>5, <1>6

\* No object reaches one that refers to it.
LEMMA NotBelowChild ==
  ASSUME NEW c \in Hash, NEW d \in Children(c)
  PROVE  c \notin Reach[d]
<1> SUFFICES ASSUME c \in Reach[d] PROVE FALSE
  OBVIOUS
<1>1. d \in Hash /\ d \in Reach[c]
  BY ChildrenType, ReachSelf, ReachClosed DEF Closed
<1>2. c = d
  BY <1>1, ReachAntisymmetric
<1>3. \E h \in {c} : Children(h) \cap {c} = {}
  BY AcyclicAssumption
<1> QED
  BY <1>2, <1>3

\* What a commit of a fresh tree brings: its graph is readable when the tree
\* and the parent's graph are, and it knows itself and what its parent knows.
LEMMA RootCommit ==
  ASSUME NEW c \in Hash, Kind[c] = "commit", TypedRefs(c), TypedRefs(TreeOf(c)),
         Parents(c) = <<>>, NEW R, {c} \union Reach[TreeOf(c)] \subseteq R
  PROVE  Complete(c, R) /\ Commits(c) = {c}
<1> DEFINE t == TreeOf(c)
<1>1. t \in Hash /\ Kind[t] = "tree" /\ Children(c) = {t}
  BY CommitRefs
<1>2. \A x \in Reach[t] : TypedRefs(x) /\ Kind[x] # "commit"
  BY <1>1, TreeGraph
<1>3. Reach[c] \subseteq {c} \union Reach[t]
  BY <1>1, ReachThroughChild
<1>4. c \in Reach[c]
  BY ReachSelf
<1> QED
  BY <1>2, <1>3, <1>4 DEF Complete, Commits

LEMMA ChildCommit ==
  ASSUME NEW c \in Hash, Kind[c] = "commit", TypedRefs(c), TypedRefs(TreeOf(c)),
         NEW d \in Hash, Parents(c) = <<[hash |-> d, type |-> "commit"]>>,
         NEW R, {c} \union Reach[TreeOf(c)] \subseteq R, Complete(d, R)
  PROVE  /\ Complete(c, R)
         /\ Commits(c) = Commits(d) \union {c}
         /\ c \notin Reach[d]
<1> DEFINE t == TreeOf(c)
<1>1. t \in Hash /\ Kind[t] = "tree" /\ Children(c) = {t, d}
  BY CommitRefs
<1>2. \A x \in Reach[t] : TypedRefs(x) /\ Kind[x] # "commit"
  BY <1>1, TreeGraph
<1>3. Reach[c] \subseteq {c} \union Reach[t] \union Reach[d]
  BY <1>1, ReachThroughChild
<1>4. c \in Reach[c] /\ d \in Reach[c]
  BY <1>1, ReachSelf, ReachClosed DEF Closed
<1>5. Reach[d] \subseteq Reach[c]
  BY <1>4, ReachTransitive
<1>6. Complete(c, R)
  BY <1>2, <1>3 DEF Complete
<1>7. Commits(c) = Commits(d) \union {c}
  BY <1>2, <1>3, <1>4, <1>5 DEF Commits
<1> QED
  BY <1>1, <1>6, <1>7, NotBelowChild

-----------------------------------------------------------------------------
(* Logs *)

\* A listing is a log of the commits that it lists.
LEMMA ListingFacts ==
  ASSUME NEW S \in SUBSET Hash, NEW l \in Listings(S)
  PROVE  l \in Seq(Hash) /\ Lists(l, S)
<1>1. l \in BoundedSeq(S, Cardinality(S)) /\ Lists(l, S)
  BY DEF Listings
<1>2. PICK m \in 0..Cardinality(S) : l \in [1..m -> S]
  BY <1>1 DEF BoundedSeq, SeqOf
<1>3. m \in Nat
  OBVIOUS
<1>4. l \in [1..m -> Hash]
  BY <1>2
<1>5. l \in Seq(Hash)
  BY <1>3, <1>4, SeqDef
<1> QED
  BY <1>1, <1>5

\* The last entry of a log, and the entries of a longer one.
LEMMA LastEntry ==
  ASSUME NEW l \in Seq(Hash), l # <<>>
  PROVE  /\ Len(l) \in Nat \ {0} /\ Len(l) \in DOMAIN l
         /\ Last(l) = l[Len(l)] /\ Last(l) \in Hash /\ Last(l) \in Range(l)
BY EmptySeq, LenProperties, ElementOfSeq DEF Last, Range

\* What lists the commits of c ends with c, because all the rest is below it.
LEMMA TipIsLast ==
  ASSUME NEW c \in Hash, NEW S \in SUBSET Commits(c), c \in S,
         NEW l \in Seq(Hash), Lists(l, S)
  PROVE  l # <<>> /\ Last(l) = c
<1>1. DOMAIN l = 1..Len(l) /\ Len(l) \in Nat
  BY LenProperties
<1>2. PICK k \in DOMAIN l : l[k] = c
  BY DEF Lists, Range
<1>3. \A j \in DOMAIN l : l[j] \in Reach[c] /\ j <= k
  BY <1>2 DEF Lists, Range, Commits
<1>4. k = Len(l)
  BY <1>1, <1>2, <1>3
<1> QED
  BY <1>1, <1>2, <1>4 DEF Last

\* A commit goes to the end of the log of its parent.
LEMMA AppendLists ==
  ASSUME NEW l \in Seq(Hash), NEW c \in Hash, NEW S, Lists(l, S),
         \A x \in S : c \notin Reach[x]
  PROVE  /\ Append(l, c) \in Seq(Hash) /\ Append(l, c) # <<>>
         /\ Last(Append(l, c)) = c
         /\ Lists(Append(l, c), S \union {c})
<1> DEFINE m == Append(l, c)
<1>1. /\ m \in Seq(Hash) /\ m # <<>> /\ Len(l) \in Nat /\ Len(m) = Len(l) + 1
      /\ \A i \in 1..Len(l) : m[i] = l[i]
      /\ m[Len(l) + 1] = c
      /\ DOMAIN l = 1..Len(l) /\ DOMAIN m = 1..Len(m)
  BY AppendProperties, LenProperties
<1>2. Last(m) = c
  BY <1>1 DEF Last
<1>3. Range(m) = Range(l) \union {c}
  <2>1. \A i \in DOMAIN m : i \in DOMAIN l \/ i = Len(l) + 1
    BY <1>1
  <2>2. Len(l) + 1 \in DOMAIN m /\ \A i \in DOMAIN l : i \in DOMAIN m
    BY <1>1
  <2> QED
    BY <1>1, <2>1, <2>2 DEF Range
<1>4. ASSUME NEW i \in DOMAIN m, NEW j \in DOMAIN m, m[i] \in Reach[m[j]]
      PROVE  i <= j
  <2>1. CASE j = Len(l) + 1
    BY <1>1, <2>1
  <2>2. CASE j # Len(l) + 1
    <3>1. j \in DOMAIN l /\ m[j] = l[j] /\ l[j] \in S
      BY <1>1, <2>2 DEF Lists, Range
    <3>2. i # Len(l) + 1
      BY <1>1, <1>4, <3>1
    <3>3. i \in DOMAIN l /\ m[i] = l[i]
      BY <1>1, <3>2
    <3> QED
      BY <1>4, <3>1, <3>3 DEF Lists
  <2> QED
    BY <2>1, <2>2
<1>5. Range(m) = S \union {c}
  BY <1>3 DEF Lists
<1> QED
  BY <1>1, <1>2, <1>4, <1>5 DEF Lists

\* A pull extends the log of the old tip to the log of the new one.
LEMMA ExtensionLists ==
  ASSUME NEW c \in Hash, NEW d \in Commits(c), c \notin Commits(d),
         Kind[c] = "commit",
         NEW l \in Seq(Hash), Lists(l, Commits(d)),
         NEW m \in Seq(Hash), Lists(m, Commits(c) \ Commits(d))
  PROVE  /\ l \o m \in Seq(Hash) /\ l \o m # <<>> /\ Last(l \o m) = c
         /\ Lists(l \o m, Commits(c))
<1>1. /\ l \o m \in Seq(Hash) /\ Len(l \o m) = Len(l) + Len(m)
      /\ \A i \in 1 .. Len(l) + Len(m) :
           (l \o m)[i] = IF i <= Len(l) THEN l[i] ELSE m[i - Len(l)]
      /\ DOMAIN (l \o m) = 1 .. Len(l) + Len(m)
      /\ Len(l) \in Nat /\ DOMAIN l = 1..Len(l)
      /\ Len(m) \in Nat /\ DOMAIN m = 1..Len(m)
  BY ConcatProperties, LenProperties
<1>2. d \in Hash /\ Commits(d) \subseteq Commits(c)
  BY CommitsTransitive
<1>3. Range(l \o m) = Commits(c)
  <2>1. Range(l) = Commits(d) /\ Range(m) = Commits(c) \ Commits(d)
    BY DEF Lists
  <2>2. Range(l \o m) = Range(l) \union Range(m)
    BY RangeConcatenation
  <2> QED
    BY <1>2, <2>1, <2>2
<1>4. ASSUME NEW i \in DOMAIN (l \o m), NEW j \in DOMAIN (l \o m),
             (l \o m)[i] \in Reach[(l \o m)[j]]
      PROVE  i <= j
  <2>1. CASE i <= Len(l) /\ j > Len(l)
    BY <1>1, <2>1
  <2>2. CASE i <= Len(l) /\ j <= Len(l)
    BY <1>1, <1>4, <2>2 DEF Lists
  <2>3. CASE i > Len(l) /\ j > Len(l)
    <3>1. /\ i - Len(l) \in DOMAIN m /\ (l \o m)[i] = m[i - Len(l)]
          /\ j - Len(l) \in DOMAIN m /\ (l \o m)[j] = m[j - Len(l)]
      BY <1>1, <2>3
    <3>2. i - Len(l) <= j - Len(l)
      BY <1>4, <3>1 DEF Lists
    <3> QED
      BY <1>1, <3>2
  <2>4. CASE i > Len(l) /\ j <= Len(l)
    <3>1. /\ i - Len(l) \in DOMAIN m /\ (l \o m)[i] = m[i - Len(l)]
          /\ j \in DOMAIN l /\ (l \o m)[j] = l[j]
      BY <1>1, <2>4
    <3>2. /\ m[i - Len(l)] \in Commits(c) \ Commits(d)
          /\ l[j] \in Commits(d)
      BY <3>1 DEF Lists, Range
    <3>3. m[i - Len(l)] \in Reach[d]
      BY <1>2, <1>4, <3>1, <3>2, ReachTransitive DEF Commits
    <3> QED
      BY <3>2, <3>3 DEF Commits
  <2> QED
    BY <1>1, <2>1, <2>2, <2>3, <2>4
<1>5. Lists(l \o m, Commits(c))
  BY <1>3, <1>4 DEF Lists
<1>6. c \in Commits(c)
  BY CommitOfItself
<1> QED
  BY <1>1, <1>5, <1>6, TipIsLast

-----------------------------------------------------------------------------
(* What a step does to the server and to the clients that do not take it *)

\* The server only gains objects, and whatever was promised still holds.
ServerMoves ==
  /\ stored \subseteq stored' /\ stored' \subseteq Hash
  /\ tip' \in Hash \union {NoHash}
  /\ late' \subseteq PutRequest \union UpdateRequest
  /\ acked' \subseteq Hash
  /\ TipComplete' /\ AckedSurvive'

ServerStays == UNCHANGED <<stored, tip, late, acked>>

Alone(p) ==
  \A q \in Client \ {p} :
    UNCHANGED <<pc[q], old[q], next[q], objs[q], local[q], log[q]>>

ClientTypes ==
  /\ local \in [Client -> SUBSET Hash]
  /\ log \in [Client -> Seq(Hash)]
  /\ pc \in [Client -> PC]
  /\ old \in [Client -> Hash \union {NoHash}]
  /\ next \in [Client -> Hash \union {NoHash}]
  /\ objs \in [Client -> SUBSET Hash]

LEMMA StaysMoves ==
  ASSUME Inv, ServerStays
  PROVE  ServerMoves
BY DEF Inv, TypeOK, TipComplete, AckedSurvive, ServerMoves, ServerStays

\* More objects do no harm.
LEMMA StoreMoves ==
  ASSUME Inv, NEW h \in Hash, stored' \in {stored, stored \union {h}},
         UNCHANGED <<tip, acked>>, late' \subseteq PutRequest \union UpdateRequest
  PROVE  ServerMoves
<1>1. TipComplete'
  BY CompleteMonotone DEF Inv, TypeOK, TipComplete
<1> QED
  BY <1>1 DEF Inv, TypeOK, AckedSurvive, ServerMoves

\* An update moves the tip to a commit that knows the old one, and with it
\* every commit that was acknowledged.
LEMMA HandleMoves ==
  ASSUME Inv, NEW o \in Hash \union {NoHash}, NEW n \in Hash,
         tip' = IF Accepts(o, n) THEN n ELSE tip, stored' = stored, late' \subseteq PutRequest \union UpdateRequest,
         acked' = acked \/ (Accepts(o, n) /\ acked' = acked \union {n})
  PROVE  ServerMoves
<1>1. CASE ~ Accepts(o, n)
  BY <1>1 DEF Inv, TypeOK, TipComplete, AckedSurvive, ServerMoves
<1>2. CASE Accepts(o, n)
  <2>1. tip' = n /\ tip = o /\ Complete(n, stored)
    BY <1>2 DEF Accepts
  <2>2. n \in Commits(n)
    BY <2>1, CommitOfItself DEF Complete
  <2>3. \A c \in acked : c \in Commits(n)
    <3> SUFFICES ASSUME NEW c \in acked PROVE c \in Commits(n)
      OBVIOUS
    <3>1. o # NoHash /\ c \in Commits(o)
      BY <2>1 DEF Inv, AckedSurvive
    <3> QED
      BY <1>2, <3>1, CommitsTransitive DEF Accepts
  <2>4. n # NoHash
    BY HashAssumption
  <2>5. AckedSurvive'
    BY <2>1, <2>2, <2>3, <2>4 DEF AckedSurvive
  <2>6. TipComplete'
    BY <2>1 DEF TipComplete
  <2> QED
    BY <2>1, <2>5, <2>6 DEF Inv, TypeOK, ServerMoves
<1> QED
  BY <1>1, <1>2

\* What the server gains takes nothing from a client.
LEMMA OtherClients ==
  ASSUME Inv, ServerMoves, NEW q \in Client,
         UNCHANGED <<pc[q], old[q], next[q], objs[q], local[q], log[q]>>
  PROVE  ClientInv(q)'
<1>1. ClientInv(q)
  BY DEF Inv
<1>2. Complete(next[q], stored) /\ next[q] \in Hash => Complete(next[q], stored')
  BY CompleteMonotone DEF ServerMoves
<1>3. Target(q)'
  BY <1>1, <1>2 DEF ClientInv, Target
<1> QED
  BY <1>1, <1>3 DEF ClientInv, Pull, Unborn, Log

LEMMA OneClient ==
  ASSUME Inv, ServerMoves, NEW p \in Client, Alone(p), ClientTypes', ClientInv(p)'
  PROVE  Inv'
<1>1. TypeOK'
  BY DEF TypeOK, ServerMoves, ClientTypes
<1>2. \A q \in Client : ClientInv(q)'
  BY OtherClients DEF Alone
<1> QED
  BY <1>1, <1>2 DEF Inv, ServerMoves

\* A command that ends leaves a repository as it was, or as its new log says.
LEMMA LeaveInv ==
  ASSUME Inv, ServerMoves, NEW p \in Client, NEW w \in {"idle", "absent"},
         Leave(p, w),
         local' \in [Client -> SUBSET Hash], log' \in [Client -> Seq(Hash)],
         \A q \in Client \ {p} : UNCHANGED <<local[q], log[q]>>,
         w = "absent" => log'[p] = <<>>,
         Log(p)'
  PROVE  Inv'
<1>1. ClientTypes'
  BY DEF Inv, TypeOK, ClientTypes, Leave, PC
<1>2. Alone(p)
  BY DEF Inv, TypeOK, Leave, Alone
<1>3. pc'[p] = w /\ objs'[p] = {}
  BY DEF Inv, TypeOK, Leave
<1>4. ClientInv(p)'
  BY <1>3 DEF ClientInv, Target, Pull, Unborn
<1> QED
  BY <1>1, <1>2, <1>4, OneClient

\* ... in particular when it changes nothing.
LEMMA QuitInv ==
  ASSUME Inv, ServerMoves, NEW p \in Client, NEW w \in {"idle", "absent"},
         Leave(p, w), UNCHANGED <<local, log>>,
         w = "absent" => log[p] = <<>>
  PROVE  Inv'
<1>1. Log(p)'
  BY DEF Inv, ClientInv, Log
<1> QED
  BY <1>1, LeaveInv DEF Inv, TypeOK

-----------------------------------------------------------------------------
(* The steps *)

LEMMA InitInv == Init => Inv
<1> SUFFICES ASSUME Init PROVE Inv
  OBVIOUS
<1>1. TypeOK
  BY DEF Init, TypeOK, PC
<1>2. TipComplete /\ AckedSurvive
  BY DEF Init, TipComplete, AckedSurvive
<1>3. \A p \in Client : ClientInv(p)
  BY DEF Init, ClientInv, Target, Pull, Unborn, Log
<1> QED
  BY <1>1, <1>2, <1>3 DEF Inv

\* A commit joins the log of its parent; its tree comes with it.
LEMMA CommitInv ==
  ASSUME Inv, NEW p \in Client, Commit(p)
  PROVE  Inv'
<1>1. PICK c \in Hash :
        /\ Kind[c] = "commit"
        /\ TypedRefs(c) /\ TypedRefs(TreeOf(c))
        /\ Parents(c) = IF log[p] = <<>> THEN <<>>
                        ELSE <<[hash |-> Last(log[p]), type |-> "commit"]>>
        /\ local' = [local EXCEPT ![p] = @ \union {c} \union Reach[TreeOf(c)]]
        /\ log' = [log EXCEPT ![p] = Append(@, c)]
  BY DEF Commit
<1>2. /\ pc[p] = "idle"
      /\ UNCHANGED <<stored, tip, pc, old, next, objs, late, acked>>
  BY DEF Commit, server
<1>3. /\ local \in [Client -> SUBSET Hash] /\ log \in [Client -> Seq(Hash)]
      /\ Log(p)
  BY DEF Inv, TypeOK, ClientInv
<1>4. Reach[TreeOf(c)] \subseteq Hash
  BY <1>1, CommitRefs, ReachSelf
<1>5. /\ local'[p] = local[p] \union {c} \union Reach[TreeOf(c)]
      /\ log'[p] = Append(log[p], c)
      /\ local' \in [Client -> SUBSET Hash]
      /\ log[p] \in Seq(Hash)
  BY <1>1, <1>3, <1>4
<1>6. /\ log'[p] \in Seq(Hash) /\ Last(log'[p]) = c
      /\ Complete(c, local'[p]) /\ Lists(log'[p], Commits(c))
  <2>1. CASE log[p] = <<>>
    <3>1. Complete(c, local'[p]) /\ Commits(c) = {c}
      BY <1>1, <1>5, <2>1, RootCommit
    <3>2. Lists(log[p], {})
      BY <2>1 DEF Lists, Range
    <3> QED
      BY <1>5, <3>1, <3>2, AppendLists
  <2>2. CASE log[p] # <<>>
    <3> DEFINE d == Last(log[p])
    <3>1. d \in Hash /\ Complete(d, local[p]) /\ Lists(log[p], Commits(d))
      BY <1>3, <1>5, <2>2, LastEntry DEF Log
    <3>2. Complete(d, local'[p])
      BY <1>5, <3>1, CompleteMonotone
    <3>3. /\ Complete(c, local'[p]) /\ c \notin Reach[d]
          /\ Commits(c) = Commits(d) \union {c}
      BY <1>1, <1>5, <2>2, <3>1, <3>2, ChildCommit
    <3>4. \A x \in Commits(d) : c \notin Reach[x]
      BY <3>1, <3>3, ReachTransitive DEF Commits
    <3>5. /\ Append(log[p], c) \in Seq(Hash) /\ Last(Append(log[p], c)) = c
          /\ Lists(Append(log[p], c), Commits(d) \union {c})
      BY <1>5, <3>1, <3>4, AppendLists
    <3> QED
      BY <1>5, <3>3, <3>5
  <2> QED
    BY <2>1, <2>2
<1>7. ServerMoves
  BY <1>2, StaysMoves DEF ServerStays
<1>8. ClientTypes'
  BY <1>1, <1>2, <1>3, <1>5, <1>6 DEF Inv, TypeOK, ClientTypes
<1>9. Alone(p)
  BY <1>1, <1>2, <1>3 DEF Alone
<1>10. ClientInv(p)'
  BY <1>2, <1>6 DEF Inv, ClientInv, Target, Pull, Unborn, Log
<1> QED
  BY <1>7, <1>8, <1>9, <1>10, OneClient

LEMMA PushBeginInv ==
  ASSUME Inv, NEW p \in Client, PushBegin(p)
  PROVE  Inv'
<1>1. /\ UNCHANGED <<stored, tip, local, log, old, objs, late, acked>>
      /\ next' = [next EXCEPT ![p] = Last(log[p])]
      /\ pc' = [pc EXCEPT ![p] = "pushRefs"] /\ log[p] # <<>>
  BY DEF PushBegin, Goto, server
<1>2. Last(log[p]) \in Hash
  BY <1>1, LastEntry DEF Inv, TypeOK
<1>3. ServerMoves
  BY <1>1, StaysMoves DEF ServerStays
<1>4. ClientTypes'
  BY <1>1, <1>2 DEF Inv, TypeOK, ClientTypes, PC
<1>5. Alone(p)
  BY <1>1 DEF Inv, TypeOK, Alone
<1>6. pc'[p] = "pushRefs" /\ next'[p] \in Hash
  BY <1>1, <1>2 DEF Inv, TypeOK
<1>7. ClientInv(p)'
  BY <1>1, <1>6 DEF Inv, ClientInv, Target, Pull, Unborn, Log
<1> QED
  BY <1>3, <1>4, <1>5, <1>7, OneClient

\* The remote tip is the local one, so it knows itself and what was
\* acknowledged before.
LEMMA PushNothingInv ==
  ASSUME Inv, NEW p \in Client, PushNothing(p)
  PROVE  Inv'
<1>1. /\ next[p] \in Hash /\ Complete(next[p], local[p]) /\ tip = next[p]
      /\ acked' = acked \union {next[p]} /\ Leave(p, "idle")
      /\ UNCHANGED <<stored, tip, local, log, late>>
  BY DEF PushNothing, server, Inv, ClientInv, Target
<1>2. next[p] \in Commits(next[p])
  BY <1>1, CommitOfItself DEF Complete
<1>3. AckedSurvive'
  BY <1>1, <1>2, HashAssumption DEF Inv, AckedSurvive
<1>4. ServerMoves
  BY <1>1, <1>3 DEF Inv, TypeOK, TipComplete, ServerMoves
<1> QED
  BY <1>1, <1>4, QuitInv

LEMMA PushPlanInv ==
  ASSUME Inv, NEW p \in Client, PushPlan(p)
  PROVE  Inv'
<1>1. /\ UNCHANGED <<stored, tip, local, log, next, late, acked>>
      /\ old' = [old EXCEPT ![p] = tip]
      /\ objs' = [objs EXCEPT ![p] = Reach[next[p]]]
      /\ pc' = [pc EXCEPT ![p] = "upload"]
      /\ next[p] \in Hash
  BY DEF PushPlan, Goto, server, Inv, ClientInv, Target
<1>2. Reach[next[p]] \subseteq Hash
  BY <1>1, ReachSelf
<1>3. ServerMoves
  BY <1>1, StaysMoves DEF ServerStays
<1>4. ClientTypes'
  BY <1>1, <1>2 DEF Inv, TypeOK, ClientTypes, PC
<1>5. Alone(p)
  BY <1>1 DEF Inv, TypeOK, Alone
<1>6. pc'[p] = "upload"
  BY <1>1 DEF Inv, TypeOK
<1>7. ClientInv(p)'
  BY <1>1, <1>6 DEF Inv, ClientInv, Target, Pull, Unborn, Log
<1> QED
  BY <1>3, <1>4, <1>5, <1>7, OneClient

\* One object is there, or gets there.
LEMMA UploadInv ==
  ASSUME Inv, NEW p \in Client, NEW h \in Hash, Skip(p, h) \/ Upload(p, h)
  PROVE  Inv'
<1>1. /\ UNCHANGED <<tip, local, log, pc, old, next, late, acked>>
      /\ stored' \in {stored, stored \union {h}}
      /\ objs' = [objs EXCEPT ![p] = @ \ {h}]
      /\ pc[p] = "upload"
  BY DEF Skip, Upload, server
<1>2. ServerMoves
  BY <1>1, StoreMoves DEF Inv, TypeOK
<1>3. ClientTypes'
  BY <1>1 DEF Inv, TypeOK, ClientTypes
<1>4. Alone(p)
  BY <1>1 DEF Inv, TypeOK, Alone
<1>5. ClientInv(p)'
  BY <1>1 DEF Inv, ClientInv, Target, Pull, Unborn, Log
<1> QED
  BY <1>2, <1>3, <1>4, <1>5, OneClient

LEMMA UploadUnheardInv ==
  ASSUME Inv, NEW p \in Client, NEW h \in Hash, UploadUnheard(p, h)
  PROVE  Inv'
<1>1. /\ UNCHANGED <<tip, local, log, acked>> /\ Leave(p, "idle")
      /\ stored' \in {stored, stored \union {h}}
      /\ late' = late \/ late' = late \union {[op |-> "put", hash |-> h]}
  BY DEF UploadUnheard
<1>2. late' \subseteq PutRequest \union UpdateRequest
  BY <1>1 DEF Inv, TypeOK, PutRequest
<1>3. ServerMoves
  BY <1>1, <1>2, StoreMoves
<1> QED
  BY <1>1, <1>3, QuitInv

LEMMA UploadedInv ==
  ASSUME Inv, NEW p \in Client, Uploaded(p)
  PROVE  Inv'
<1>1. /\ UNCHANGED <<stored, tip, local, log, old, next, objs, late, acked>>
      /\ pc[p] = "upload" /\ pc' = [pc EXCEPT ![p] = "update"]
  BY DEF Uploaded, Goto, server
<1>2. ServerMoves
  BY <1>1, StaysMoves DEF ServerStays
<1>3. ClientTypes'
  BY <1>1 DEF Inv, TypeOK, ClientTypes, PC
<1>4. Alone(p)
  BY <1>1 DEF Inv, TypeOK, Alone
<1>5. pc'[p] = "update"
  BY <1>1 DEF Inv, TypeOK
<1>6. ClientInv(p)'
  BY <1>1, <1>5 DEF Inv, ClientInv, Target, Pull, Unborn, Log
<1> QED
  BY <1>2, <1>3, <1>4, <1>6, OneClient

\* The update is answered, or it is not.
LEMMA UpdateInv ==
  ASSUME Inv, NEW p \in Client, Updated(p) \/ UpdateUnheard(p)
  PROVE  Inv'
<1> DEFINE m == [op |-> "update", old |-> old[p], new |-> next[p]]
<1>1. /\ next[p] \in Hash /\ old[p] \in Hash \union {NoHash}
      /\ UNCHANGED <<stored, local, log>> /\ Leave(p, "idle")
  BY DEF Updated, UpdateUnheard, Inv, TypeOK, ClientInv, Target
<1>0. PICK o \in Hash \union {NoHash}, n \in Hash : o = old[p] /\ n = next[p]
  BY <1>1
<1>2. late \subseteq PutRequest \union UpdateRequest
  BY DEF Inv, TypeOK
<1>3. CASE Updated(p)
  <2>1. /\ tip' = IF Accepts(o, n) THEN n ELSE tip
        /\ late' = late /\ stored' = stored
        /\ \/ acked' = acked
           \/ Accepts(o, n) /\ acked' = acked \union {n}
    BY <1>0, <1>3 DEF Updated, Handle, Accepts
  <2>2. late' \subseteq PutRequest \union UpdateRequest
    BY <1>2, <2>1
  <2>3. ServerMoves
    BY <1>1, <2>1, <2>2, HandleMoves
  <2> QED
    BY <1>1, <2>3, QuitInv
<1>4. CASE UpdateUnheard(p) /\ Handle(old[p], next[p]) /\ UNCHANGED late
  <2>1. /\ tip' = IF Accepts(o, n) THEN n ELSE tip
        /\ late' = late /\ stored' = stored
        /\ acked' = acked
    BY <1>0, <1>4 DEF UpdateUnheard, Handle, Accepts
  <2>2. late' \subseteq PutRequest \union UpdateRequest
    BY <1>2, <2>1
  <2>3. ServerMoves
    BY <1>1, <2>1, <2>2, HandleMoves
  <2> QED
    BY <1>1, <2>3, QuitInv
<1>5. CASE /\ UNCHANGED <<tip, acked>>
           /\ late' = late \union {m}
  <2>1. late' \subseteq PutRequest \union UpdateRequest
    BY <1>1, <1>2, <1>5 DEF UpdateRequest
  <2>2. ServerMoves
    BY <1>1, <1>5, <2>1, StoreMoves
  <2> QED
    BY <1>1, <2>2, QuitInv
<1> QED
  BY <1>3, <1>4, <1>5 DEF UpdateUnheard

\* A late request does what it would have done in time.
LEMMA ArriveLateInv ==
  ASSUME Inv, NEW m \in late, ArriveLate(m)
  PROVE  Inv'
<1>1. /\ UNCHANGED <<local, log, pc, old, next, objs, late, acked>>
      /\ late \subseteq PutRequest \union UpdateRequest
  BY DEF ArriveLate, Inv, TypeOK
<1>2. ServerMoves
  <2>1. CASE m.op = "put" /\ stored' = stored \union {m.hash} /\ UNCHANGED tip
    <3>1. m.hash \in Hash
      BY <1>1, <2>1 DEF PutRequest, UpdateRequest
    <3> QED
      BY <1>1, <2>1, <3>1, StoreMoves
  <2>2. CASE m.op = "update" /\ Handle(m.old, m.new) /\ UNCHANGED stored
    <3>1. m.old \in Hash \union {NoHash} /\ m.new \in Hash
      BY <1>1, <2>2 DEF PutRequest, UpdateRequest
    <3>2. tip' = IF Accepts(m.old, m.new) THEN m.new ELSE tip
      BY <2>2 DEF Handle
    <3>3. UNCHANGED <<stored, late, acked>>
      BY <1>1, <2>2
    <3> QED
      BY <1>1, <3>1, <3>2, <3>3, HandleMoves
  <2> QED
    BY <2>1, <2>2 DEF ArriveLate
<1>3. ClientTypes'
  BY <1>1 DEF Inv, TypeOK, ClientTypes
<1>4. \A q \in Client : ClientInv(q)'
  BY <1>1, <1>2, OtherClients
<1>5. TypeOK'
  BY <1>2, <1>3 DEF ServerMoves, ClientTypes, TypeOK
<1> QED
  BY <1>2, <1>4, <1>5 DEF Inv, ServerMoves

LEMMA PullBeginInv ==
  ASSUME Inv, NEW p \in Client, PullBegin(p)
  PROVE  Inv'
<1>1. /\ UNCHANGED <<stored, tip, local, log, next, objs, late, acked>>
      /\ old' = [old EXCEPT ![p] = TipOf(log[p])]
      /\ pc[p] = "idle" /\ pc' = [pc EXCEPT ![p] = "pullRefs"]
  BY DEF PullBegin, Goto, server
<1>2. TipOf(log[p]) \in Hash \union {NoHash}
  BY LastEntry DEF Inv, TypeOK, TipOf
<1>3. ServerMoves
  BY <1>1, StaysMoves DEF ServerStays
<1>4. ClientTypes'
  BY <1>1, <1>2 DEF Inv, TypeOK, ClientTypes, PC
<1>5. Alone(p)
  BY <1>1 DEF Inv, TypeOK, Alone
<1>6. pc'[p] = "pullRefs" /\ old'[p] = TipOf(log'[p])
  BY <1>1 DEF Inv, TypeOK
<1>7. ClientInv(p)'
  BY <1>1, <1>6 DEF Inv, ClientInv, Target, Pull, Unborn, Log
<1> QED
  BY <1>3, <1>4, <1>5, <1>7, OneClient

\* The new tip is complete on the server and not known here.
LEMMA PullRefsInv ==
  ASSUME Inv, NEW p \in Client, PullRefs(p)
  PROVE  Inv'
<1>1. /\ UNCHANGED <<stored, tip, local, log, old, objs, late, acked>>
      /\ tip \in Hash /\ Complete(tip, stored)
      /\ old[p] # NoHash => tip \notin Commits(old[p])
      /\ next' = [next EXCEPT ![p] = tip]
      /\ pc' = [pc EXCEPT ![p] = "pullWalk"]
      /\ pc[p] = "pullRefs"
  BY DEF PullRefs, Goto, server, Inv, TypeOK, TipComplete
<1>2. ServerMoves
  BY <1>1, StaysMoves DEF ServerStays
<1>3. ClientTypes'
  BY <1>1 DEF Inv, TypeOK, ClientTypes, PC
<1>4. Alone(p)
  BY <1>1 DEF Inv, TypeOK, Alone
<1>5. pc'[p] = "pullWalk" /\ next'[p] = tip
  BY <1>1 DEF Inv, TypeOK
<1>6. ClientInv(p)'
  BY <1>1, <1>5 DEF Inv, ClientInv, Target, Pull, Unborn, Log
<1> QED
  BY <1>2, <1>3, <1>4, <1>6, OneClient

\* The objects that a walk can come to are objects.
LEMMA FrontierType ==
  ASSUME TypeOK, NEW p \in Client, next[p] \in Hash
  PROVE  Frontier(p) \subseteq Hash
BY ChildrenType DEF TypeOK, Frontier

\* A walk that has nothing left to come to has the whole graph.
LEMMA WalkComplete ==
  ASSUME TypeOK, NEW p \in Client, next[p] \in Hash, Frontier(p) = {}
  PROVE  Reach[next[p]] \subseteq objs[p]
<1>1. objs[p] \in SUBSET Hash /\ next[p] \in objs[p] /\ Closed(objs[p])
  BY DEF TypeOK, Frontier, Closed
<1> QED
  BY <1>1, ReachLeast

LEMMA FetchInv ==
  ASSUME Inv, NEW p \in Client, NEW h \in Hash, Fetch(p, h)
  PROVE  Inv'
<1>1. /\ UNCHANGED <<stored, tip, log, pc, old, next, late, acked>>
      /\ local' = [local EXCEPT ![p] = @ \union {h}]
      /\ objs' = [objs EXCEPT ![p] = @ \union {h}]
      /\ pc[p] = "pullWalk"
  BY DEF Fetch, server
<1>2. ServerMoves
  BY <1>1, StaysMoves DEF ServerStays
<1>3. ClientTypes'
  BY <1>1 DEF Inv, TypeOK, ClientTypes
<1>4. Alone(p)
  BY <1>1 DEF Inv, TypeOK, Alone
<1>5. /\ local'[p] = local[p] \union {h} /\ objs'[p] = objs[p] \union {h}
      /\ log[p] \in Seq(Hash)
  BY <1>1 DEF Inv, TypeOK
<1>6. ClientInv(p)
  BY DEF Inv
<1>7. Target(p)' /\ Pull(p)' /\ Unborn(p)'
  BY <1>1, <1>5, <1>6 DEF ClientInv, Target, Pull, Unborn
<1>8. Log(p)'
  <2> SUFFICES ASSUME log[p] # <<>>
               PROVE  /\ Complete(Last(log[p]), local'[p])
                      /\ Lists(log[p], Commits(Last(log[p])))
    BY <1>1 DEF Log
  <2>1. Last(log[p]) \in Hash
    BY <1>5, LastEntry
  <2> QED
    BY <1>5, <1>6, <2>1, CompleteMonotone DEF ClientInv, Log
<1> QED
  BY <1>2, <1>3, <1>4, <1>7, <1>8, OneClient DEF ClientInv

\* The log grows from the history of the old tip to that of the new one.
LEMMA PullPublishLog ==
  ASSUME Inv, NEW p \in Client, PullPublish(p)
  PROVE  /\ log' \in [Client -> Seq(Hash)]
         /\ \A q \in Client \ {p} : log'[q] = log[q]
         /\ \E l \in Seq(Hash) : log'[p] = log[p] \o l
         /\ Log(p)'
<1> DEFINE n == next[p]
<1>1. /\ n \in Hash /\ Complete(n, stored) /\ objs[p] \subseteq local[p]
      /\ old[p] = TipOf(log[p])
      /\ old[p] # NoHash => n \notin Commits(old[p]) /\ old[p] \in Commits(n)
      /\ Frontier(p) = {} /\ local' = local
      /\ log \in [Client -> Seq(Hash)] /\ Log(p)
  BY DEF PullPublish, Inv, TypeOK, ClientInv, Target, Pull
<1>2. PICK l \in Listings(Commits(n) \ Range(log[p])) :
        log' = [log EXCEPT ![p] = @ \o l]
  BY DEF PullPublish
<1>3. Commits(n) \subseteq Hash
  BY <1>1, ReachSelf DEF Commits
<1>4. l \in Seq(Hash) /\ Lists(l, Commits(n) \ Range(log[p]))
  BY <1>2, <1>3, ListingFacts
<1>5. log[p] \in Seq(Hash) /\ log[p] \o l \in Seq(Hash)
  BY <1>1, <1>4, ConcatProperties
<1>6. /\ log'[p] = log[p] \o l /\ log' \in [Client -> Seq(Hash)]
      /\ \A q \in Client \ {p} : log'[q] = log[q]
  BY <1>1, <1>2, <1>5
<1>7. Complete(n, local'[p])
  <2>1. Reach[n] \subseteq objs[p]
    BY <1>1, WalkComplete DEF Inv
  <2> QED
    BY <1>1, <2>1 DEF Complete
<1>8. Last(log[p] \o l) = n /\ Lists(log[p] \o l, Commits(n))
  <2>1. CASE log[p] = <<>>
    <3>1. log[p] \o l = l
      BY <1>4, <2>1, ConcatEmptySeq
    <3>2. Range(log[p]) = {}
      BY <2>1 DEF Range
    <3>3. n \in Commits(n)
      BY <1>1, CommitOfItself DEF Complete
    <3>4. Lists(l, Commits(n))
      BY <1>4, <3>2
    <3> QED
      BY <1>1, <1>4, <3>1, <3>3, <3>4, TipIsLast
  <2>2. CASE log[p] # <<>>
    <3> DEFINE d == Last(log[p])
    <3>1. d \in Hash /\ old[p] = d /\ d # NoHash
      BY <1>1, <1>5, <2>2, LastEntry, HashAssumption DEF TipOf
    <3>2. n \notin Commits(d) /\ d \in Commits(n)
      BY <1>1, <3>1
    <3>3. Lists(log[p], Commits(d))
      BY <1>1, <2>2 DEF Log
    <3>4. Lists(l, Commits(n) \ Commits(d))
      BY <1>4, <3>3 DEF Lists
    <3>5. Kind[n] = "commit"
      BY <1>1 DEF Complete
    <3> QED
      BY <1>1, <1>4, <1>5, <3>2, <3>3, <3>4, <3>5, ExtensionLists
  <2> QED
    BY <2>1, <2>2
<1>9. Log(p)'
  BY <1>6, <1>7, <1>8 DEF Log
<1> QED
  BY <1>4, <1>6, <1>9

LEMMA PullPublishInv ==
  ASSUME Inv, NEW p \in Client, PullPublish(p)
  PROVE  Inv'
<1>1. /\ UNCHANGED <<stored, tip, local, late, acked>> /\ Leave(p, "idle")
  BY DEF PullPublish, server
<1>2. ServerMoves
  BY <1>1, StaysMoves DEF ServerStays
<1>3. local' \in [Client -> SUBSET Hash]
  BY <1>1 DEF Inv, TypeOK
<1> QED
  BY <1>1, <1>2, <1>3, PullPublishLog, LeaveInv

LEMMA CloneBeginInv ==
  ASSUME Inv, NEW p \in Client, CloneBegin(p)
  PROVE  Inv'
<1>1. /\ UNCHANGED <<stored, tip, local, log, old, next, objs, late, acked>>
      /\ pc[p] = "absent" /\ pc' = [pc EXCEPT ![p] = "cloneRefs"]
  BY DEF CloneBegin, Goto, server
<1>2. ServerMoves
  BY <1>1, StaysMoves DEF ServerStays
<1>3. ClientTypes'
  BY <1>1 DEF Inv, TypeOK, ClientTypes, PC
<1>4. Alone(p)
  BY <1>1 DEF Inv, TypeOK, Alone
<1>5. pc'[p] = "cloneRefs"
  BY <1>1 DEF Inv, TypeOK
<1>6. ClientInv(p)'
  BY <1>1, <1>5 DEF Inv, ClientInv, Target, Pull, Unborn, Log
<1> QED
  BY <1>2, <1>3, <1>4, <1>6, OneClient

LEMMA CloneRefsInv ==
  ASSUME Inv, NEW p \in Client, CloneRefs(p)
  PROVE  Inv'
<1>1. /\ UNCHANGED <<stored, tip, local, log, late, acked>>
      /\ pc[p] = "cloneRefs"
  BY DEF CloneRefs, server
<1>2. ServerMoves
  BY <1>1, StaysMoves DEF ServerStays
<1>3. CASE tip = NoHash
  BY <1>1, <1>2, <1>3, QuitInv DEF CloneRefs
<1>4. CASE tip # NoHash
  <2>1. /\ UNCHANGED <<old, objs>>
        /\ tip \in Hash /\ Complete(tip, stored)
        /\ next' = [next EXCEPT ![p] = tip]
        /\ pc' = [pc EXCEPT ![p] = "cloneWalk"]
    BY <1>4 DEF CloneRefs, Goto, Inv, TypeOK, TipComplete
  <2>2. ClientTypes'
    BY <1>1, <2>1 DEF Inv, TypeOK, ClientTypes, PC
  <2>3. Alone(p)
    BY <1>1, <2>1 DEF Inv, TypeOK, Alone
  <2>4. pc'[p] = "cloneWalk" /\ next'[p] = tip
    BY <2>1 DEF Inv, TypeOK
  <2>5. ClientInv(p)'
    BY <1>1, <2>1, <2>4 DEF Inv, ClientInv, Target, Pull, Unborn, Log
  <2> QED
    BY <1>2, <2>2, <2>3, <2>5, OneClient
<1> QED
  BY <1>3, <1>4

LEMMA CloneFetchInv ==
  ASSUME Inv, NEW p \in Client, NEW h \in Hash, CloneFetch(p, h)
  PROVE  Inv'
<1>1. /\ UNCHANGED <<stored, tip, local, log, pc, old, next, late, acked>>
      /\ objs' = [objs EXCEPT ![p] = @ \union {h}]
      /\ pc[p] = "cloneWalk"
  BY DEF CloneFetch, server
<1>2. ServerMoves
  BY <1>1, StaysMoves DEF ServerStays
<1>3. ClientTypes'
  BY <1>1 DEF Inv, TypeOK, ClientTypes
<1>4. Alone(p)
  BY <1>1 DEF Inv, TypeOK, Alone
<1>5. ClientInv(p)'
  BY <1>1 DEF Inv, ClientInv, Target, Pull, Unborn, Log
<1> QED
  BY <1>2, <1>3, <1>4, <1>5, OneClient

\* A clone publishes the history of the remote tip with all of its objects.
LEMMA ClonePublishLog ==
  ASSUME Inv, NEW p \in Client, ClonePublish(p)
  PROVE  /\ log' \in [Client -> Seq(Hash)]
         /\ \A q \in Client \ {p} : log'[q] = log[q]
         /\ log[p] = <<>>
         /\ Log(p)'
<1> DEFINE n == next[p]
<1>1. /\ n \in Hash /\ Complete(n, stored) /\ Frontier(p) = {}
      /\ log \in [Client -> Seq(Hash)] /\ log[p] = <<>>
      /\ local \in [Client -> SUBSET Hash]
      /\ local' = [local EXCEPT ![p] = objs[p]]
  BY DEF ClonePublish, Inv, TypeOK, ClientInv, Target, Unborn
<1>2. PICK l \in Listings(Commits(n)) : log' = [log EXCEPT ![p] = l]
  BY DEF ClonePublish
<1>3. Commits(n) \subseteq Hash
  BY <1>1, ReachSelf DEF Commits
<1>4. l \in Seq(Hash) /\ Lists(l, Commits(n))
  BY <1>2, <1>3, ListingFacts
<1>5. n \in Commits(n)
  BY <1>1, CommitOfItself DEF Complete
<1>6. Last(l) = n
  BY <1>1, <1>4, <1>5, TipIsLast
<1>7. Reach[n] \subseteq objs[p]
  BY <1>1, WalkComplete DEF Inv
<1>8. Complete(n, objs[p])
  BY <1>1, <1>7 DEF Complete
<1>9. local'[p] = objs[p] /\ log'[p] = l
  BY <1>1, <1>2
<1>10. Log(p)'
  BY <1>4, <1>6, <1>8, <1>9 DEF Log
<1> QED
  BY <1>1, <1>2, <1>4, <1>10

LEMMA ClonePublishInv ==
  ASSUME Inv, NEW p \in Client, ClonePublish(p)
  PROVE  Inv'
<1>1. /\ UNCHANGED <<stored, tip, late, acked>> /\ Leave(p, "idle")
      /\ local' = [local EXCEPT ![p] = objs[p]]
  BY DEF ClonePublish, server
<1>2. ServerMoves
  BY <1>1, StaysMoves DEF ServerStays
<1>3. /\ local' \in [Client -> SUBSET Hash]
      /\ \A q \in Client \ {p} : local'[q] = local[q]
  BY <1>1 DEF Inv, TypeOK
<1> QED
  BY <1>1, <1>2, <1>3, ClonePublishLog, LeaveInv

\* A command that fails, refuses or is killed changes nothing that lasts.
LEMMA QuitsInv ==
  ASSUME Inv, NEW p \in Client,
         PushRefused(p) \/ PullNothing(p) \/ PullDiverged(p) \/ Abandon(p)
  PROVE  Inv'
<1>1. UNCHANGED <<stored, tip, local, log, late, acked>>
  BY DEF PushRefused, PullNothing, PullDiverged, Abandon, server
<1>2. ServerMoves
  BY <1>1, StaysMoves DEF ServerStays
<1>3. PICK w \in {"idle", "absent"} :
        Leave(p, w) /\ (w = "absent" => log[p] = <<>>)
  BY DEF PushRefused, PullNothing, PullDiverged, Abandon, Home, Inv, ClientInv,
         Unborn
<1> QED
  BY <1>1, <1>2, <1>3, QuitInv

LEMMA NextInv == Inv /\ [Next]_vars => Inv'
<1> SUFFICES ASSUME Inv, [Next]_vars PROVE Inv'
  OBVIOUS
<1>1. ASSUME NEW p \in Client,
             Commit(p) \/ PushBegin(p) \/ PullBegin(p) \/ CloneBegin(p)
      PROVE  Inv'
  BY <1>1, CommitInv, PushBeginInv, PullBeginInv, CloneBeginInv
<1>2. ASSUME NEW p \in Client, Step(p) PROVE Inv'
  <2>1. CASE PushNothing(p) \/ PushPlan(p) \/ Uploaded(p)
    BY <2>1, PushNothingInv, PushPlanInv, UploadedInv
  <2>2. CASE \E h \in Hash : Skip(p, h) \/ Upload(p, h) \/ UploadUnheard(p, h)
    BY <2>2, UploadInv, UploadUnheardInv
  <2>3. CASE Updated(p) \/ UpdateUnheard(p)
    BY <2>3, UpdateInv
  <2>4. CASE PullRefs(p) \/ PullPublish(p)
    BY <2>4, PullRefsInv, PullPublishInv
  <2>5. CASE \E h \in Hash : Fetch(p, h) \/ CloneFetch(p, h)
    BY <2>5, FetchInv, CloneFetchInv
  <2>6. CASE CloneRefs(p) \/ ClonePublish(p)
    BY <2>6, CloneRefsInv, ClonePublishInv
  <2>7. CASE PushRefused(p) \/ PullNothing(p) \/ PullDiverged(p) \/ Abandon(p)
    BY <2>7, QuitsInv
  <2> QED
    BY <1>2, <2>1, <2>2, <2>3, <2>4, <2>5, <2>6, <2>7 DEF Step
<1>3. ASSUME NEW m \in late, ArriveLate(m) PROVE Inv'
  BY <1>3, ArriveLateInv
<1>4. CASE UNCHANGED vars
  <2>1. UNCHANGED <<stored, tip, local, log, pc, old, next, objs, late, acked>>
    BY <1>4 DEF vars
  <2>2. ServerMoves
    BY <2>1, StaysMoves DEF ServerStays
  <2>3. TypeOK' /\ \A q \in Client : ClientInv(q)'
    BY <2>1, <2>2, OtherClients DEF Inv, TypeOK
  <2> QED
    BY <2>2, <2>3 DEF Inv, ServerMoves
<1> QED
  BY <1>1, <1>2, <1>3, <1>4 DEF Next

-----------------------------------------------------------------------------
\* The inductive invariant: what the server has and what every client has and
\* is about to do fit together, whatever was lost, late, repeated or cut off.
THEOREM InvHolds == Spec => []Inv
BY InitInv, NextInv, PTL DEF Spec

\* Type correctness of the server's branch and of the clients.
THEOREM TypeCorrect == Spec => []TypeOK
BY InvHolds, PTL DEF Inv

\* A client has the whole graph of the last commit of its log.
THEOREM LocalCompleteHolds == Spec => []LocalComplete
<1>1. Inv => LocalComplete
  BY DEF Inv, ClientInv, Log, LocalComplete
<1> QED
  BY <1>1, InvHolds, PTL

\* A log lists exactly the history of its last commit, parents first.
THEOREM LogIsHistoryHolds == Spec => []LogIsHistory
<1>1. Inv => LogIsHistory
  BY DEF Inv, ClientInv, Log, LogIsHistory
<1> QED
  BY <1>1, InvHolds, PTL

\* No request, however late, takes back a push that was reported a success.
THEOREM AckedSurviveHolds == Spec => []AckedSurvive
BY InvHolds, PTL DEF Inv

\* Whatever is published can be fetched whole, also when the client that pushed
\* it uploaded into a graph that others had left unfinished.
THEOREM TipCompleteHolds == Spec => []TipComplete
BY InvHolds, PTL DEF Inv

\* A log is a prefix of what it is extended to.
LEMMA PrefixOfConcat ==
  ASSUME NEW l \in Seq(Hash), NEW m \in Seq(Hash)
  PROVE  IsPrefix(l, l \o m)
<1>1. /\ l \o m \in Seq(Hash) /\ Len(l \o m) = Len(l) + Len(m)
      /\ Len(l) \in Nat /\ Len(m) \in Nat
      /\ \A i \in 1..Len(l) : (l \o m)[i] = l[i]
  BY ConcatProperties, LenProperties
<1>2. SubSeq(l, 1, Len(l)) = SubSeq(l \o m, 1, Len(l))
  <2>1. CASE l = <<>>
    BY <2>1, SubSeqEmpty
  <2>2. CASE l # <<>>
    <3>1. Len(l) \in 1..Len(l) /\ 1 \in 1..Len(l)
      BY <1>1, <2>2, EmptySeq
    <3> QED
      BY <3>1, SubSeqOfConcat1
  <2> QED
    BY <2>1, <2>2
<1> QED
  BY <1>1, <1>2 DEF IsPrefix

\* A step leaves a log alone or writes behind its end.
LEMMA LogGrows ==
  ASSUME Inv, [Next]_vars, NEW p \in Client
  PROVE  \E l \in Seq(Hash) : log'[p] = log[p] \o l
<1>1. log[p] \in Seq(Hash) /\ log \in [Client -> Seq(Hash)]
  BY DEF Inv, TypeOK
<1>2. CASE log'[p] = log[p]
  <2>1. log[p] = log[p] \o <<>> /\ <<>> \in Seq(Hash)
    BY <1>1, ConcatEmptySeq, EmptySeq
  <2> QED
    BY <1>2, <2>1
<1>3. CASE \E q \in Client : Commit(q)
  <2>1. PICK q \in Client, c \in Hash : log' = [log EXCEPT ![q] = Append(@, c)]
    BY <1>3 DEF Commit
  <2>2. CASE p = q
    <3>1. log'[p] = log[p] \o <<c>> /\ <<c>> \in Seq(Hash)
      BY <1>1, <2>1, <2>2, AppendIsConcat
    <3> QED
      BY <3>1
  <2> QED
    BY <1>1, <1>2, <2>1, <2>2
<1>4. CASE \E q \in Client : PullPublish(q)
  BY <1>2, <1>4, PullPublishLog
<1>5. CASE \E q \in Client : ClonePublish(q)
  <2>1. PICK q \in Client : ClonePublish(q)
    BY <1>5
  <2>2. CASE p = q
    <3>1. log[p] = <<>> /\ log'[p] \in Seq(Hash)
      BY <2>1, <2>2, ClonePublishLog
    <3>2. log'[p] = log[p] \o log'[p]
      BY <3>1, ConcatEmptySeq
    <3> QED
      BY <3>1, <3>2
  <2>3. CASE p # q
    BY <1>2, <2>1, <2>3, ClonePublishLog
  <2> QED
    BY <2>2, <2>3
<1>6. \/ log' = log
      \/ \E q \in Client : Commit(q) \/ PullPublish(q) \/ ClonePublish(q)
  BY DEF Next, Step, PushBegin, PullBegin, CloneBegin, PushNothing, PushRefused,
     PushPlan, Skip, Upload, UploadUnheard, Uploaded, Updated, UpdateUnheard,
     PullNothing, PullRefs, Fetch, CloneFetch, PullDiverged, CloneRefs, Abandon,
     ArriveLate, vars
<1> QED
  BY <1>2, <1>3, <1>4, <1>5, <1>6

\* No command takes a commit off a log or puts one before another.
THEOREM LogAppendOnlyHolds == Spec => LogAppendOnly
<1>1. ASSUME Inv, [Next]_vars
      PROVE  \A p \in Client : IsPrefix(log[p], log'[p])
  <2> SUFFICES ASSUME NEW p \in Client PROVE IsPrefix(log[p], log'[p])
    OBVIOUS
  <2>1. PICK l \in Seq(Hash) : log'[p] = log[p] \o l
    BY <1>1, LogGrows
  <2>2. log[p] \in Seq(Hash)
    BY <1>1 DEF Inv, TypeOK
  <2> QED
    BY <2>1, <2>2, PrefixOfConcat
<1>2. Inv /\ [Next]_vars => [\A p \in Client : IsPrefix(log[p], log'[p])]_vars
  BY <1>1
<1> QED
  BY <1>2, InvHolds, PTL DEF Spec, LogAppendOnly

-----------------------------------------------------------------------------
(* The register *)

LEMMA InitImplements == Init => Register!RegisterInit
BY DEF Init, Register!RegisterInit

\* A put stores at most one object.
LEMMA PutImplements ==
  ASSUME NEW h \in Hash, stored' \in {stored, stored \union {h}}, tip' = tip
  PROVE  [Register!RegisterNext]_<<stored, [b \in {"main"} |-> tip]>>
BY DEF Register!RegisterNext, Register!StoreObject

\* An update that is accepted is one move of the register, and one that is not
\* does nothing.
LEMMA HandleImplements ==
  ASSUME NEW o \in Hash \union {NoHash}, NEW n \in Hash,
         tip' = IF Accepts(o, n) THEN n ELSE tip, stored' = stored
  PROVE  [Register!RegisterNext]_<<stored, [b \in {"main"} |-> tip]>>
<1>1. CASE ~ Accepts(o, n)
  BY <1>1
<1>2. CASE Accepts(o, n)
  <2>1. Register!Advance("main", n)
    BY <1>2
    DEF Register!Advance, Register!Complete, Register!Reach, Register!Commits,
        Register!Closed, Register!Children, Register!TypedRefs,
        Accepts, Complete, Reach, Commits, Closed, Children, TypedRefs
  <2> QED
    BY <2>1 DEF Register!RegisterNext
<1> QED
  BY <1>1, <1>2

\* Whatever the clients and the network do, they use the server as the atomic
\* register that ServerStore is proved to implement.
THEOREM Implementation == Spec => ImplementsRegister
<1>1. ASSUME Inv, [Next]_vars
      PROVE  [Register!RegisterNext]_<<stored, [b \in {"main"} |-> tip]>>
  <2>1. CASE UNCHANGED server
    BY <2>1 DEF server
  <2>2. CASE \E p \in Client, h \in Hash : Upload(p, h) \/ UploadUnheard(p, h)
    <3>1. PICK p \in Client, h \in Hash : Upload(p, h) \/ UploadUnheard(p, h)
      BY <2>2
    <3>2. stored' \in {stored, stored \union {h}} /\ tip' = tip
      BY <3>1 DEF Upload, UploadUnheard
    <3> QED
      BY <3>2, PutImplements
  <2>3. CASE \E p \in Client : Updated(p) \/ UpdateUnheard(p)
    <3>1. PICK p \in Client : Updated(p) \/ UpdateUnheard(p)
      BY <2>3
    <3>2. next[p] \in Hash /\ old[p] \in Hash \union {NoHash}
      BY <1>1, <3>1 DEF Updated, UpdateUnheard, Inv, TypeOK, ClientInv, Target
    <3>3. \/ UNCHANGED server
          \/ /\ tip' = IF Accepts(old[p], next[p]) THEN next[p] ELSE tip
             /\ stored' = stored
      BY <3>1 DEF Updated, UpdateUnheard, Handle, server
    <3> QED
      BY <2>1, <3>2, <3>3, HandleImplements
  <2>4. CASE \E m \in late : ArriveLate(m)
    <3>1. PICK m \in late : ArriveLate(m)
      BY <2>4
    <3>2. late \subseteq PutRequest \union UpdateRequest
      BY <1>1 DEF Inv, TypeOK
    <3>3. CASE m.op = "put" /\ stored' = stored \union {m.hash} /\ tip' = tip
      <4>1. m.hash \in Hash
        BY <3>2, <3>3 DEF PutRequest, UpdateRequest
      <4> QED
        BY <3>3, <4>1, PutImplements
    <3>4. CASE m.op = "update" /\ Handle(m.old, m.new) /\ stored' = stored
      <4>1. m.old \in Hash \union {NoHash} /\ m.new \in Hash
        BY <3>2, <3>4 DEF PutRequest, UpdateRequest
      <4>2. tip' = IF Accepts(m.old, m.new) THEN m.new ELSE tip
        BY <3>4 DEF Handle
      <4> QED
        BY <3>4, <4>1, <4>2, HandleImplements
    <3> QED
      BY <3>1, <3>3, <3>4 DEF ArriveLate
  <2>5. \/ UNCHANGED server
        \/ \E p \in Client, h \in Hash : Upload(p, h) \/ UploadUnheard(p, h)
        \/ \E p \in Client : Updated(p) \/ UpdateUnheard(p)
        \/ \E m \in late : ArriveLate(m)
    BY <1>1 DEF Next, Step, Commit, PushBegin, PullBegin, CloneBegin, PushNothing,
       PushRefused, PushPlan, Skip, Uploaded, PullNothing, PullRefs, Fetch,
       CloneFetch, PullDiverged, PullPublish, CloneRefs, ClonePublish, Abandon,
       vars, server
  <2> QED
    BY <2>1, <2>2, <2>3, <2>4, <2>5
<1> QED
  BY <1>1, InitImplements, InvHolds, PTL
  DEF Spec, ImplementsRegister, Register!RegisterSpec, Register!registerVars
\* The published branch only moves to commits that know its tip.
TipMovesForward == [][tip # NoHash /\ tip' # tip => tip \in Commits(tip')]_vars

\* Late, repeated and unanswered updates move the branch forward or not at all.
THEOREM TipMovesForwardHolds == Spec => TipMovesForward
<1>1. ASSUME [Register!RegisterNext]_<<stored, [b \in {"main"} |-> tip]>>,
             tip # NoHash, tip' # tip
      PROVE  tip \in Commits(tip')
  <2>1. [b \in {"main"} |-> tip] # [b \in {"main"} |-> tip']
    <3>1. [b \in {"main"} |-> tip]["main"] # [b \in {"main"} |-> tip']["main"]
      BY <1>1
    <3> QED
      BY <3>1
  <2>2. PICK c \in Hash : Register!Advance("main", c)
    BY <1>1, <2>1 DEF Register!RegisterNext, Register!StoreObject
  <2>3. tip \in Register!Commits(c) /\ tip' = c
    BY <1>1, <2>1, <2>2 DEF Register!Advance
  <2> QED
    BY <2>3 DEF Register!Commits, Register!Reach, Register!Closed, Register!Children,
                Commits, Reach, Closed, Children
<1>2. [Register!RegisterNext]_<<stored, [b \in {"main"} |-> tip]>> =>
        (tip # NoHash /\ tip' # tip => tip \in Commits(tip'))
  BY <1>1
<1> QED
  BY <1>2, Implementation, PTL
  DEF ImplementsRegister, Register!RegisterSpec, Register!registerVars, TipMovesForward
=============================================================================
