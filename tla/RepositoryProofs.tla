--------------------------- MODULE RepositoryProofs ---------------------------
(***************************************************************************)
(* A client repository on its own disk: the operation lock, for every      *)
(* number of commands; the commit that runs under it, for every set of     *)
(* file contents and every number of commits; and the search of            *)
(* IsAncestor, for every history and every set of legacy commits.          *)
(***************************************************************************)
EXTENDS RepoLock, Snapshot, Ancestry, SequenceTheorems, TLAPS

-----------------------------------------------------------------------------
(* The lock *)

\* A command that is inside owns the lock file.
OwnerInv == \A p \in Process : Inside(p) => lock = p

\* A swap in progress has its marker, and nobody works past a half-done one,
\* unless a command entered past a marker.
MarkerInv ==
  ~ trespass =>
    /\ \A p \in Process : at[p] = "applying" => marker
    /\ halfway => marker /\ \A p \in Process : at[p] \notin {"working", "applying"}

\* A lock file belongs to a command that is inside, or was left behind.
LeftInv ==
  lock # NoProcess => Inside(lock) \/ killed \/ exited

LockInv == LockTypeOK /\ OwnerInv /\ MarkerInv /\ LeftInv

\* A repository without lock or marker satisfies it.
LEMMA LockInitInv == LockInit => LockInv
<1> SUFFICES ASSUME LockInit PROVE LockInv
  OBVIOUS
<1>1. LockTypeOK
  <2>1. runs \in 0..MaxRuns
    BY RunsAssumption DEF LockInit
  <2>2. at \in [Process -> Stages]
    BY DEF LockInit, Stages
  <2> QED
    BY <2>1, <2>2 DEF LockInit, LockTypeOK
<1>2. OwnerInv /\ MarkerInv /\ LeftInv
  BY DEF LockInit, OwnerInv, MarkerInv, LeftInv, Inside
<1> QED
  BY <1>1, <1>2 DEF LockInv

\* Every step keeps it.
LEMMA LockNextInv == LockInv /\ [LockNext]_lockVars => LockInv'
<1> SUFFICES ASSUME LockInv, [LockNext]_lockVars
             PROVE  LockInv'
  OBVIOUS
<1> USE ProcessAssumption, RunsAssumption
        DEF LockInv, LockTypeOK, Stages, OwnerInv, MarkerInv, LeftInv, Inside, Running
<1>1. ASSUME NEW p \in Process, Look(p) PROVE LockInv'
  BY <1>1 DEF Look
<1>2. ASSUME NEW p \in Process, Create(p) PROVE LockInv'
  BY <1>2 DEF Create
<1>3. ASSUME NEW p \in Process, Refuse(p) PROVE LockInv'
  BY <1>3 DEF Refuse
<1>4. ASSUME NEW p \in Process, WriteMarker(p) PROVE LockInv'
  BY <1>4 DEF WriteMarker
<1>5. ASSUME NEW p \in Process, RemoveMarker(p) PROVE LockInv'
  BY <1>5 DEF RemoveMarker
<1>6. ASSUME NEW p \in Process, KeepMarker(p) PROVE LockInv'
  BY <1>6 DEF KeepMarker
<1>7. ASSUME NEW p \in Process, Finish(p) PROVE LockInv'
  BY <1>7 DEF Finish
<1>8. ASSUME NEW p \in Process, Unlock(p) PROVE LockInv'
  BY <1>8 DEF Unlock
<1>9. ASSUME NEW p \in Process, ExitInside(p) PROVE LockInv'
  BY <1>9 DEF ExitInside
<1>10. ASSUME NEW p \in Process, Kill(p) PROVE LockInv'
  BY <1>10 DEF Kill
<1>11. CASE Recover
  BY <1>11 DEF Recover
<1>12. CASE UNCHANGED lockVars
  BY <1>12 DEF lockVars
<1> QED
  BY <1>1, <1>2, <1>3, <1>4, <1>5, <1>6, <1>7, <1>8, <1>9, <1>10, <1>11, <1>12
  DEF LockNext

\* The lock discipline as one inductive invariant.
THEOREM LockInvHolds == LockSpec => []LockInv
BY LockInitInv, LockNextInv, PTL DEF LockSpec

\* Type correctness of the lock.
THEOREM LockTypeCorrect == LockSpec => []LockTypeOK
<1>1. LockInv => LockTypeOK
  BY DEF LockInv
<1> QED
  BY <1>1, LockInvHolds, PTL

\* Two commands are never inside at once, whatever is refused, killed, ended
\* by a fatal error or recovered by the user.
THEOREM MutualExclusionHolds == LockSpec => []MutualExclusion
<1>1. LockInv => MutualExclusion
  BY DEF LockInv, OwnerInv, MutualExclusion
<1> QED
  BY <1>1, LockInvHolds, PTL

\* A half-done swap keeps its marker until the user recovers.
THEOREM HalfwayIsMarkedHolds == LockSpec => []HalfwayIsMarked
<1>1. LockInv => HalfwayIsMarked
  BY DEF LockInv, MarkerInv, HalfwayIsMarked
<1> QED
  BY <1>1, LockInvHolds, PTL

\* Only a kill or utils.Exit leaves a lock that nobody holds.
THEOREM StaleLockExplainedHolds == LockSpec => []StaleLockExplained
<1>1. LockInv => StaleLockExplained
  BY DEF LockInv, LockTypeOK, LeftInv, StaleLockExplained, Inside, Running
<1> QED
  BY <1>1, LockInvHolds, PTL

-----------------------------------------------------------------------------
(* The commit *)

\* What is compressed is a blob of the commit, and what hash-object writes is
\* a blob.
Files ==
  /\ held # NothingHeld => pc = "zip" /\ held[1] \in zip
  /\ hpc # "idle" => hblob \in Blob
  /\ todo \subseteq tree

\* The commit writes its tree, and nothing else does.
TreeWritten ==
  /\ pc = "zipTree" => disk[tree] = "raw"
  /\ pc \in {"check", "store", "publish"} => disk[tree] = "zlib"

\* The commit object comes before its entry in the log.
CommitStored == pc = "publish" => Append(history, tree) \in stored

\* The raw blobs are those that this commit is going to compress.
BlobsCompressed ==
  /\ pc \notin {"blobs", "zip"} => zip = {}
  /\ \A b \in Blob : disk[b] # "wrong" /\ (disk[b] = "raw" <=> b \in zip)
  /\ held # NothingHeld => held[2] = "raw"

\* The blobs of the tree are there, and compressed once the tree is written.
TreeCovered ==
  \A b \in tree :
    /\ pc \in {"blobs", "zip"} => b \in todo \/ disk[b] # "absent"
    /\ pc \notin {"idle", "blobs"} => b \notin todo
    /\ pc \in {"tree", "zipTree", "check", "store", "publish"} => disk[b] = "zlib"

HistoryBlobs == \A i \in DOMAIN history : \A b \in history[i] : disk[b] = "zlib"

HistoryTrees ==
  \A i \in DOMAIN history :
    (pc = "zipTree" /\ tree = history[i]) \/ disk[history[i]] = "zlib"

\* What holds as long as nothing is cut off and hash-object is not used.
Undisturbed ==
  ~ disturbed =>
    hpc = "idle" /\ BlobsCompressed /\ TreeCovered /\ HistoryBlobs /\ HistoryTrees

Inv ==
  /\ TypeOK
  /\ Files /\ TreeWritten /\ CommitStored
  /\ ListedAreStored
  /\ Undisturbed

\* What a command holds when it holds nothing.
LEMMA NothingTypes ==
  {} \in Tree /\ NothingHeld \in (Blob \union {NoBlob}) \X Content
BY DEF Tree, NothingHeld, Content

LEMMA InitInv == Init => Inv
<1> SUFFICES ASSUME Init PROVE Inv
  OBVIOUS
<1>1. TypeOK
  <2>1. history \in Seq(Tree)
    BY EmptySeq DEF Init
  <2>2. disk \in [Object -> Content]
    BY DEF Init, Content
  <2> QED
    BY <2>1, <2>2, NothingTypes DEF Init, TypeOK, Content, PC
<1>2. Files /\ TreeWritten /\ CommitStored
  BY DEF Init, Files, TreeWritten, CommitStored
<1>3. ListedAreStored
  BY DEF Init, ListedAreStored
<1>4. Undisturbed
  BY DEF Init, Undisturbed, BlobsCompressed, TreeCovered, HistoryBlobs,
         HistoryTrees, Object
<1> QED
  BY <1>1, <1>2, <1>3, <1>4 DEF Inv

\* No file is both a blob and a tree, and the trees of the log are trees.
LEMMA Names ==
  ASSUME TypeOK
  PROVE  /\ \A b \in Blob : b \in Object /\ b \notin Tree
         /\ \A t \in Tree : t \in Object /\ t \notin Blob /\ t \subseteq Blob
         /\ \A i \in DOMAIN history : history[i] \in Tree
<1>1. \A i \in DOMAIN history : history[i] \in Tree
  BY ElementOfSeq, LenProperties DEF TypeOK
<1> QED
  BY <1>1, KindAssumption DEF Object, Tree

LEMMA NextTypeOK == TypeOK /\ Files /\ [Next]_vars => TypeOK'
<1> SUFFICES ASSUME TypeOK, Files, [Next]_vars PROVE TypeOK'
  OBVIOUS
<1> USE DEF TypeOK, PC, Content, commitVars, hashVars
<1>1. ASSUME NEW b \in Blob, AddBlob(b) \/ ReadRaw(b) PROVE TypeOK'
  BY <1>1 DEF AddBlob, ReadRaw, Object
<1>2. CASE Start \/ EndBlobs \/ EndZip
  BY <1>2 DEF Start, EndBlobs, EndZip, Tree
<1>3. CASE WriteZip
  BY <1>3 DEF WriteZip, Compressed, NothingHeld
<1>4. CASE WriteTree \/ CompressTree
  BY <1>4 DEF WriteTree, CompressTree, Compressed
<1>5. CASE Check \/ Fail \/ Stop
  BY <1>5, NothingTypes DEF Check, Fail, Stop, Leave
<1>6. Append(history, tree) \in Seq(Tree)
  BY AppendProperties
<1>7. CASE StoreCommit
  BY <1>6, <1>7 DEF StoreCommit
<1>8. CASE Publish
  BY <1>6, <1>8, NothingTypes DEF Publish, Leave
<1>9. CASE HashWrite \/ HashRead \/ HashZip
  BY <1>9 DEF HashWrite, HashRead, HashZip, Compressed, Files, Object
<1>10. CASE UNCHANGED vars
  BY <1>10 DEF vars
<1> QED
  BY <1>1, <1>2, <1>3, <1>4, <1>5, <1>7, <1>8, <1>9, <1>10 DEF Next

\* The files that a step may write.
LEMMA NextFiles == TypeOK /\ Files /\ [Next]_vars => Files'
<1> SUFFICES ASSUME TypeOK, Files, [Next]_vars PROVE Files'
  OBVIOUS
<1> USE DEF TypeOK, Files, commitVars, hashVars
<1>1. ASSUME NEW b \in Blob, AddBlob(b) \/ ReadRaw(b) PROVE Files'
  BY <1>1 DEF AddBlob, ReadRaw, NothingHeld
<1>2. CASE Start \/ EndBlobs \/ WriteZip \/ EndZip
  BY <1>2 DEF Start, EndBlobs, WriteZip, EndZip
<1>3. CASE WriteTree \/ CompressTree \/ Check \/ StoreCommit
  BY <1>3 DEF WriteTree, CompressTree, Check, StoreCommit
<1>4. CASE Publish \/ Fail \/ Stop
  BY <1>4 DEF Publish, Fail, Stop, Leave
<1>5. CASE HashWrite \/ HashRead \/ HashZip
  BY <1>5 DEF HashWrite, HashRead, HashZip
<1>6. CASE UNCHANGED vars
  BY <1>6 DEF vars
<1> QED
  BY <1>1, <1>2, <1>3, <1>4, <1>5, <1>6 DEF Next

\* Blobs are never written into a tree's file, so that the tree stays as the
\* commit left it, also when hash-object runs next to it.
LEMMA NextTreeWritten ==
  TypeOK /\ Files /\ TreeWritten /\ [Next]_vars => TreeWritten'
<1> SUFFICES ASSUME TypeOK, Files, TreeWritten, [Next]_vars PROVE TreeWritten'
  OBVIOUS
<1>0. tree \in Object /\ tree \notin Blob /\ disk \in [Object -> Content]
  BY KindAssumption DEF TypeOK, Object
<1> USE DEF TreeWritten, commitVars, hashVars
<1>1. ASSUME NEW b \in Blob, AddBlob(b) \/ ReadRaw(b) PROVE TreeWritten'
  BY <1>1 DEF AddBlob, ReadRaw
<1>2. CASE Start \/ EndBlobs \/ WriteZip \/ EndZip
  BY <1>2 DEF Start, EndBlobs, WriteZip, EndZip
<1>3. CASE WriteTree
  BY <1>0, <1>3 DEF WriteTree
<1>4. CASE CompressTree
  BY <1>0, <1>4 DEF CompressTree, Compressed
<1>5. CASE Check \/ StoreCommit
  BY <1>5 DEF Check, StoreCommit
<1>6. CASE Publish \/ Fail \/ Stop
  BY <1>6 DEF Publish, Fail, Stop, Leave
<1>7. CASE HashWrite \/ HashRead \/ HashZip
  BY <1>0, <1>7 DEF HashWrite, HashRead, HashZip, Files
<1>8. CASE UNCHANGED vars
  BY <1>8 DEF vars
<1> QED
  BY <1>1, <1>2, <1>3, <1>4, <1>5, <1>6, <1>7, <1>8 DEF Next

\* Commit objects are never removed, and the log only grows by one whose
\* object is there.
LEMMA NextListed ==
  TypeOK /\ CommitStored /\ ListedAreStored /\ [Next]_vars
    => CommitStored' /\ ListedAreStored'
<1> SUFFICES ASSUME TypeOK, CommitStored, ListedAreStored, [Next]_vars
             PROVE  CommitStored' /\ ListedAreStored'
  OBVIOUS
<1>1. CASE Publish
  <2> DEFINE longer == Append(history, tree)
  <2>1. history' = longer /\ stored' = stored /\ longer \in stored /\ pc' = "idle"
    BY <1>1 DEF Publish, Leave, CommitStored
  <2>2. /\ history \in Seq(Tree) /\ tree \in Tree /\ longer \in Seq(Tree)
        /\ Len(history) \in Nat /\ Len(longer) = Len(history) + 1
    BY AppendProperties, LenProperties DEF TypeOK
  <2>3. ASSUME NEW n \in 1..Len(longer)
        PROVE  SubSeq(longer, 1, n) \in stored
    <3>1. CASE n = Len(longer)
      BY <2>1, <2>2, <3>1, SubSeqFull
    <3>2. CASE n # Len(longer)
      <4>1. n \in 1..Len(history) /\ 1 \in 1..Len(history)
        BY <2>2, <3>2
      <4>2. longer = history \o <<tree>> /\ <<tree>> \in Seq(Tree)
        BY <2>2, AppendIsConcat
      <4>3. SubSeq(longer, 1, n) = SubSeq(history, 1, n)
        BY <2>2, <4>1, <4>2, SubSeqOfConcat1
      <4> QED
        BY <4>1, <4>3 DEF ListedAreStored
    <3> QED
      BY <3>1, <3>2
  <2> QED
    BY <2>1, <2>3 DEF CommitStored, ListedAreStored
<1>2. CASE ~ Publish
  <2>1. history' = history /\ stored \subseteq stored'
    BY <1>2 DEF Next, AddBlob, ReadRaw, Start, EndBlobs, WriteZip, EndZip,
       WriteTree, CompressTree, Check, StoreCommit, Fail, Stop, HashWrite,
       HashRead, HashZip, commitVars, vars
  <2>2. pc' = "publish" => StoreCommit \/ (pc' = pc /\ tree' = tree)
    BY <1>2 DEF Next, AddBlob, ReadRaw, Start, EndBlobs, WriteZip, EndZip,
       WriteTree, CompressTree, Check, Fail, Stop, Leave, HashWrite,
       HashRead, HashZip, commitVars, vars
  <2>3. CommitStored'
    BY <2>1, <2>2 DEF CommitStored, StoreCommit
  <2> QED
    BY <2>1, <2>3 DEF ListedAreStored
<1> QED
  BY <1>1, <1>2

\* Left alone, a commit finds every blob of the log compressed, and leaves the
\* ones it adds compressed as well; only its own tree is ever written again.
LEMMA NextUndisturbed ==
  ASSUME TypeOK, Files, TreeWritten, Undisturbed, [Next]_vars, ~ disturbed'
  PROVE  /\ hpc' = "idle" /\ BlobsCompressed' /\ TreeCovered'
         /\ HistoryBlobs' /\ HistoryTrees'
<1> DEFINE Goal ==
      /\ hpc' = "idle" /\ BlobsCompressed' /\ TreeCovered'
      /\ HistoryBlobs' /\ HistoryTrees'
<1>1. ~ disturbed
  BY DEF Next, AddBlob, ReadRaw, Start, EndBlobs, WriteZip, EndZip, WriteTree,
     CompressTree, Check, StoreCommit, Publish, Fail, Stop, HashWrite, HashRead,
     HashZip, commitVars, hashVars, vars
<1>2. /\ hpc = "idle" /\ BlobsCompressed /\ TreeCovered
      /\ HistoryBlobs /\ HistoryTrees
  BY <1>1 DEF Undisturbed
<1>3. /\ \A b \in Blob : b \in Object /\ b \notin Tree
      /\ \A t \in Tree : t \in Object /\ t \notin Blob /\ t \subseteq Blob
      /\ \A i \in DOMAIN history : history[i] \in Tree
  BY Names
<1>4. /\ disk \in [Object -> Content] /\ tree \in Tree
      /\ tree \in Object /\ tree \notin Blob
      /\ tree \subseteq Blob /\ zip \subseteq Blob /\ todo \subseteq Blob
  BY <1>3 DEF TypeOK
<1>5. ASSUME NEW b \in Blob, AddBlob(b) PROVE Goal
  <2>1. /\ pc = "blobs" /\ b \in todo /\ todo' = todo \ {b}
        /\ UNCHANGED <<history, pc, tree, held, hpc>>
    BY <1>5 DEF AddBlob, hashVars
  <2>2. CASE disk[b] = "absent"
    <3>1. /\ zip' = zip \union {b}
          /\ disk' = [disk EXCEPT ![b] = "raw"]
      BY <1>5, <2>2 DEF AddBlob
    <3>2. disk'[b] = "raw" /\ \A o \in Object \ {b} : disk'[o] = disk[o]
      BY <1>3, <1>4, <3>1
    <3>3. BlobsCompressed'
      BY <1>2, <1>3, <2>1, <3>1, <3>2 DEF BlobsCompressed
    <3>4. TreeCovered'
      BY <1>2, <1>3, <1>4, <2>1, <3>2 DEF TreeCovered
    <3>5. HistoryBlobs'
      BY <1>2, <1>3, <2>1, <2>2, <3>2 DEF HistoryBlobs
    <3>6. HistoryTrees'
      BY <1>2, <1>3, <2>1, <3>2 DEF HistoryTrees
    <3> QED
      BY <1>2, <2>1, <3>3, <3>4, <3>5, <3>6
  <2>3. CASE disk[b] # "absent"
    <3>1. UNCHANGED <<disk, zip>>
      BY <1>5, <2>3 DEF AddBlob
    <3> QED
      BY <1>2, <2>1, <2>3, <3>1
      DEF BlobsCompressed, TreeCovered, HistoryBlobs, HistoryTrees
  <2> QED
    BY <2>2, <2>3
<1>6. ASSUME NEW b \in Blob, ReadRaw(b) PROVE Goal
  BY <1>2, <1>6
  DEF ReadRaw, BlobsCompressed, TreeCovered, HistoryBlobs, HistoryTrees, hashVars
<1>7. CASE WriteZip
  <2> DEFINE b == held[1]
  <2>1. /\ b \in zip /\ b \in Blob /\ held[2] = "raw" /\ disk[b] = "raw"
        /\ pc = "zip"
    BY <1>2, <1>4, <1>7 DEF WriteZip, Files, BlobsCompressed
  <2>2. /\ disk' = [disk EXCEPT ![b] = "zlib"] /\ zip' = zip \ {b}
        /\ held' = NothingHeld
        /\ UNCHANGED <<history, pc, tree, todo, hpc>>
    BY <1>7, <2>1 DEF WriteZip, Compressed, hashVars
  <2>3. disk'[b] = "zlib" /\ \A o \in Object \ {b} : disk'[o] = disk[o]
    BY <1>3, <1>4, <2>1, <2>2
  <2>4. BlobsCompressed'
    BY <1>2, <1>3, <2>1, <2>2, <2>3 DEF BlobsCompressed
  <2>5. TreeCovered'
    BY <1>2, <1>3, <1>4, <2>1, <2>2, <2>3 DEF TreeCovered
  <2>6. HistoryBlobs' /\ HistoryTrees'
    BY <1>2, <1>3, <2>1, <2>2, <2>3 DEF HistoryBlobs, HistoryTrees
  <2> QED
    BY <1>2, <2>2, <2>4, <2>5, <2>6
<1>8. CASE Start \/ EndBlobs
  BY <1>2, <1>8
  DEF Start, EndBlobs, BlobsCompressed, TreeCovered, HistoryBlobs, HistoryTrees,
      hashVars
\* Nothing is raw any more.
<1>9. CASE EndZip
  <2>1. \A b \in tree : disk[b] = "zlib"
    BY <1>2, <1>4, <1>9
    DEF EndZip, BlobsCompressed, TreeCovered, TypeOK, Content, Object
  <2> QED
    BY <1>2, <1>9, <2>1
    DEF EndZip, BlobsCompressed, TreeCovered, HistoryBlobs, HistoryTrees, hashVars
<1>10. CASE WriteTree \/ CompressTree
  <2>1. /\ \A o \in Object \ {tree} : disk'[o] = disk[o]
        /\ UNCHANGED <<history, tree, todo, zip, held, hpc>>
        /\ pc \in {"tree", "zipTree"} /\ pc' \in {"zipTree", "check"}
    BY <1>4, <1>10 DEF WriteTree, CompressTree, hashVars
  <2>2. /\ pc' = "zipTree" => pc = "tree"
        /\ pc' = "check" => disk'[tree] = "zlib"
    BY <1>4, <1>10 DEF WriteTree, CompressTree, TreeWritten, Compressed
  <2>3. \A b \in Blob : disk'[b] = disk[b]
    BY <1>3, <1>4, <2>1
  <2>4. BlobsCompressed' /\ TreeCovered' /\ HistoryBlobs'
    BY <1>2, <1>3, <1>4, <2>1, <2>3
    DEF BlobsCompressed, TreeCovered, HistoryBlobs
  <2>5. HistoryTrees'
    BY <1>2, <1>3, <2>1, <2>2 DEF HistoryTrees
  <2> QED
    BY <1>2, <2>1, <2>4, <2>5
<1>11. CASE Check \/ StoreCommit
  BY <1>2, <1>11
  DEF Check, StoreCommit, BlobsCompressed, TreeCovered, HistoryBlobs,
      HistoryTrees, hashVars
\* The new entry of the log is the tree that was just written.
<1>12. CASE Publish
  <2>1. /\ pc = "publish" /\ pc' = "idle" /\ history' = Append(history, tree)
        /\ tree' = {} /\ zip' = {} /\ held' = NothingHeld
        /\ UNCHANGED <<disk, hpc>>
    BY <1>12 DEF Publish, Leave, hashVars
  <2>2. \A i \in DOMAIN history' :
          (i \in DOMAIN history /\ history'[i] = history[i]) \/ history'[i] = tree
    <3>1. history \in Seq(Tree)
      BY DEF TypeOK
    <3> QED
      BY <1>4, <2>1, <3>1, AppendProperties, LenProperties
  <2>3. disk[tree] = "zlib" /\ \A b \in tree : disk[b] = "zlib"
    BY <1>2, <2>1 DEF TreeWritten, TreeCovered
  <2>4. BlobsCompressed' /\ TreeCovered'
    BY <1>2, <2>1 DEF BlobsCompressed, TreeCovered
  <2>5. HistoryBlobs' /\ HistoryTrees'
    BY <1>2, <2>1, <2>2, <2>3 DEF HistoryBlobs, HistoryTrees
  <2> QED
    BY <1>2, <2>1, <2>4, <2>5
<1>13. CASE Fail
  BY <1>2, <1>13
  DEF Fail, Leave, BlobsCompressed, TreeCovered, HistoryBlobs, HistoryTrees,
      hashVars
<1>14. CASE Stop \/ HashWrite \/ HashRead \/ HashZip
  BY <1>2, <1>14 DEF Stop, HashWrite, HashRead, HashZip
<1>15. CASE UNCHANGED vars
  BY <1>2, <1>15
  DEF vars, commitVars, hashVars, BlobsCompressed, TreeCovered, HistoryBlobs,
      HistoryTrees
<1> QED
  BY <1>5, <1>6, <1>7, <1>8, <1>9, <1>10, <1>11, <1>12, <1>13, <1>14, <1>15
  DEF Next

LEMMA NextInv == Inv /\ [Next]_vars => Inv'
BY NextTypeOK, NextFiles, NextTreeWritten, NextListed, NextUndisturbed
DEF Inv, Undisturbed

\* The inductive invariant of commits, kills, failures and hash-object: a
\* commit writes its own tree only, stores its object before its log entry,
\* and, undisturbed, compresses every blob that it wrote raw.
THEOREM InvHolds == Spec => []Inv
BY InitInv, NextInv, PTL DEF Spec

\* Type correctness of the files and of the commands that write them.
THEOREM TypeCorrect == Spec => []TypeOK
BY InvHolds, PTL DEF Inv

\* Every commit in the log has its object, whatever was killed or failed.
THEOREM ListedAreStoredHolds == Spec => []ListedAreStored
BY InvHolds, PTL DEF Inv

\* Without kills and hash-object every commit of the log stays readable, for
\* every set of contents and every number of commits, except while its own
\* tree is written again.
THEOREM HistoryReadableHolds == Spec => []HistoryReadable
<1>1. Inv => HistoryReadable
  BY DEF Inv, Undisturbed, HistoryBlobs, HistoryTrees, HistoryReadable, Readable
<1> QED
  BY <1>1, InvHolds, PTL

\* Only a publication writes the log.
LEMMA HistoryChange ==
  ASSUME [Next]_vars
  PROVE  history' = history \/ Publish
BY DEF Next, AddBlob, ReadRaw, Start, EndBlobs, WriteZip, EndZip, WriteTree,
   CompressTree, Check, StoreCommit, Fail, Stop, HashWrite, HashRead, HashZip,
   commitVars, vars

\* When a commit is published its tree is compressed and its object stored,
\* whatever was killed before and whatever hash-object does next to it.
THEOREM TreeReadableAtPublishHolds == Spec => TreeReadableAtPublish
<1>1. ASSUME Inv, [Next]_vars, history' # history
      PROVE  disk[Last(history')] = "zlib" /\ history' \in stored
  <2>1. /\ pc = "publish" /\ history' = Append(history, tree)
        /\ history \in Seq(Tree) /\ tree \in Tree
    BY <1>1, HistoryChange DEF Publish, Inv, TypeOK
  <2>2. Last(history') = tree
    BY <2>1, AppendProperties, LenProperties DEF Last
  <2> QED
    BY <1>1, <2>1, <2>2 DEF Inv, TreeWritten, CommitStored
<1>2. Inv /\ [Next]_vars =>
        [history' # history =>
           disk[Last(history')] = "zlib" /\ history' \in stored]_vars
  BY <1>1
<1> QED
  BY <1>2, InvHolds, PTL DEF Spec, TreeReadableAtPublish

-----------------------------------------------------------------------------
(* The search for an ancestor *)

\* The commits taken off the stack or still on it.
Met == seen \union Range(pending)

\* The ancestor is not among the commits passed, nothing that they link to is
\* forgotten, and an answer waits for an empty stack.
NothingForgotten ==
  /\ ancestor \notin seen
  /\ verdict \in {"start", "searching", "false", "legacy"} =>
       /\ descendant \in Met
       /\ \A x \in seen : Range(Links(x)) \subseteq Met
  /\ verdict \in {"false", "legacy"} => pending = <<>>

\* Links lead to everything met, and the boundary is a legacy commit passed.
NothingInvented ==
  /\ Met \subseteq Linked
  /\ boundary <=> seen \cap legacy # {}
  /\ verdict \in {"false", "legacy"} => (verdict = "legacy" <=> boundary)

SearchInv ==
  /\ SearchTypeOK
  /\ NothingForgotten
  /\ NothingInvented
  /\ AnswerSound

-----------------------------------------------------------------------------
(* Stacks *)

LEMMA PopFacts ==
  ASSUME SearchTypeOK, pending # <<>>
  PROVE  /\ hash \in Commit /\ hash \in Range(pending)
         /\ Front(pending) \in Seq(Commit)
         /\ Range(pending) = Range(Front(pending)) \union {hash}
<1>1. /\ pending \in Seq(Commit)
      /\ Len(pending) \in Nat \ {0} /\ DOMAIN pending = 1..Len(pending)
  BY DEF SearchTypeOK
<1>2. hash = pending[Len(pending)] /\ Len(pending) \in DOMAIN pending /\ hash \in Commit
  BY <1>1 DEF hash, Last
<1>3. /\ Front(pending) \in Seq(Commit)
      /\ DOMAIN Front(pending) = 1..(Len(pending) - 1)
      /\ \A j \in 1..(Len(pending) - 1) : Front(pending)[j] = pending[j]
  BY <1>1 DEF Front
<1>4. \A j \in DOMAIN pending : j = Len(pending) \/ j \in DOMAIN Front(pending)
  BY <1>1, <1>3
<1>5. DOMAIN Front(pending) \subseteq DOMAIN pending
  BY <1>1, <1>3
<1> QED
  BY <1>1, <1>2, <1>3, <1>4, <1>5 DEF Range

LEMMA PushFacts ==
  ASSUME NEW F \in Seq(Commit), NEW R \in Seq(Commit)
  PROVE  /\ F \o R \in Seq(Commit)
         /\ Range(F \o R) = Range(F) \union Range(R)
<1>1. /\ Len(F) \in Nat /\ DOMAIN F = 1..Len(F)
      /\ Len(R) \in Nat /\ DOMAIN R = 1..Len(R)
      /\ F \o R \in Seq(Commit)
      /\ DOMAIN (F \o R) = 1..(Len(F) + Len(R))
  OBVIOUS
<1>2. \A k \in DOMAIN F : k \in DOMAIN (F \o R) /\ (F \o R)[k] = F[k]
  BY <1>1
<1>3. ASSUME NEW i \in DOMAIN R
      PROVE  Len(F) + i \in DOMAIN (F \o R) /\ (F \o R)[Len(F) + i] = R[i]
  BY <1>1
<1>4. ASSUME NEW j \in DOMAIN (F \o R), j \notin DOMAIN F
      PROVE  j - Len(F) \in DOMAIN R /\ (F \o R)[j] = R[j - Len(F)]
  <2>1. j \in Nat /\ j > Len(F) /\ j <= Len(F) + Len(R)
    BY <1>1, <1>4
  <2>2. j - Len(F) \in 1..Len(R)
    BY <1>1, <2>1
  <2> QED
    BY <1>1, <2>1, <2>2
<1>5. Range(F \o R) \subseteq Range(F) \union Range(R)
  BY <1>2, <1>4 DEF Range
<1>6. Range(F) \subseteq Range(F \o R)
  BY <1>2 DEF Range
<1>7. Range(R) \subseteq Range(F \o R)
  BY <1>3 DEF Range
<1> QED
  BY <1>1, <1>5, <1>6, <1>7

-----------------------------------------------------------------------------
(* Closures *)

LEMMA ClosureStart ==
  ASSUME NEW c \in Commit, NEW up
  PROVE  c \in Closure(c, up)
BY DEF Closure

LEMMA ClosureNext ==
  ASSUME NEW c, NEW up, NEW x \in Closure(c, up), NEW y \in up[x], y \in Commit
  PROVE  y \in Closure(c, up)
BY DEF Closure

LEMMA ClosureLeast ==
  ASSUME NEW c, NEW up, NEW S \in SUBSET Commit, c \in S,
         \A d \in S : up[d] \subseteq S
  PROVE  Closure(c, up) \subseteq S
BY DEF Closure

LEMMA LinksFacts ==
  ASSUME NEW x \in Commit
  PROVE  Links(x) \in Seq(Commit) /\ Range(Links(x)) \subseteq Commit
<1>1. Links(x) \in Seq(Commit)
  BY AncestryAssumption DEF Links
<1> QED
  BY <1>1 DEF Range

\* Links lead from what they lead to.
LEMMA LinkedNext ==
  ASSUME NEW x \in Linked, NEW y \in Range(Links(x))
  PROVE  y \in Linked
<1>1. x \in Commit
  BY DEF Linked, Closure
<1>2. y \in Commit
  BY <1>1, LinksFacts
<1> QED
  BY <1>1, <1>2, ClosureNext DEF Linked

\* When nothing is left to visit, everything has been.
LEMMA SearchComplete ==
  ASSUME SearchTypeOK, NothingForgotten, NothingInvented, pending = <<>>,
         verdict = "searching"
  PROVE  /\ ancestor \notin Linked
         /\ ~ boundary => ancestor \notin Descent
<1>1. Met = seen
  BY DEF Met, Range
<1>2. /\ descendant \in seen
      /\ \A x \in seen : Range(Links(x)) \subseteq seen
      /\ seen \in SUBSET Commit /\ ancestor \notin seen
  BY <1>1 DEF NothingForgotten, SearchTypeOK
<1>3. Linked \subseteq seen
  BY <1>2, ClosureLeast DEF Linked
<1>4. ASSUME ~ boundary PROVE Descent \subseteq seen
  <2>1. \A x \in seen : Links(x) = Parents[x]
    BY <1>4 DEF NothingInvented, Links
  <2> QED
    BY <1>2, <2>1, ClosureLeast DEF Descent
<1> QED
  BY <1>2, <1>3, <1>4

-----------------------------------------------------------------------------
\* The descendant is the first commit to be visited.
LEMMA SearchInitInv == SearchInit => SearchInv
<1> SUFFICES ASSUME SearchInit PROVE SearchInv
  OBVIOUS
<1>1. SearchTypeOK
  <2>1. pending \in Seq(Commit)
    BY DEF SearchInit
  <2>2. legacy \subseteq Commit
    BY AncestryAssumption DEF SearchInit
  <2> QED
    BY <2>1, <2>2 DEF SearchInit, SearchTypeOK
<1>2. Met = {descendant}
  BY DEF SearchInit, Met, Range
<1>3. descendant \in Linked
  BY ClosureStart DEF SearchInit, Linked
<1>4. NothingForgotten /\ NothingInvented
  BY <1>2, <1>3 DEF SearchInit, NothingForgotten, NothingInvented
<1> QED
  BY <1>1, <1>4 DEF SearchInit, SearchInv, AnswerSound

LEMMA SearchNextInv == SearchInv /\ [SearchNext]_searchVars => SearchInv'
<1> SUFFICES ASSUME SearchInv, [SearchNext]_searchVars PROVE SearchInv'
  OBVIOUS
<1>0. SearchTypeOK /\ NothingForgotten /\ NothingInvented /\ AnswerSound
  BY DEF SearchInv
\* The history stays as it is.
<1>1. UNCHANGED question
  BY DEF SearchNext, Progress, CheckAncestor, Skip, Missing, ReadFails, Found, Expand,
     Exhausted, Answer, searchVars
<1>2. Linked' = Linked /\ Descent' = Descent /\ \A x \in Commit : Links(x)' = Links(x)
  BY <1>1 DEF question, Linked, Descent, Links
<1>3. CASE CheckAncestor
  BY <1>0, <1>1, <1>2, <1>3
  DEF CheckAncestor, Answer, SearchInv, SearchTypeOK, NothingForgotten, NothingInvented,
      AnswerSound, Met, Links, question
<1>4. CASE Skip
  <2>1. /\ Front(pending) \in Seq(Commit)
        /\ Range(pending) = Range(Front(pending)) \union {hash}
    BY <1>0, <1>4, PopFacts DEF Skip, Turn
  <2>2. Met' = Met
    BY <1>4, <2>1 DEF Skip, Met
  <2> QED
    BY <1>0, <1>1, <1>2, <1>4, <2>1, <2>2
    DEF Skip, Turn, SearchInv, SearchTypeOK, NothingForgotten, NothingInvented, AnswerSound,
        Links, question
<1>5. CASE Missing
  <2>1. hash \in Linked /\ hash \notin readable
    BY <1>0, <1>5, PopFacts DEF Missing, Turn, NothingInvented, Met
  <2> QED
    BY <1>0, <1>1, <1>2, <1>5, <2>1
    DEF Missing, Answer, SearchInv, SearchTypeOK, NothingForgotten, NothingInvented,
        AnswerSound, Met, Links, question
<1>6. CASE ReadFails
  BY <1>0, <1>1, <1>2, <1>6
  DEF ReadFails, Answer, SearchInv, SearchTypeOK, NothingForgotten, NothingInvented,
      AnswerSound, Met, Links, question
<1>7. CASE Found
  <2>1. ancestor \in Linked
    BY <1>0, <1>7, PopFacts DEF Found, Reads, Turn, NothingInvented, Met
  <2> QED
    BY <1>0, <1>1, <1>2, <1>7, <2>1
    DEF Found, Answer, SearchInv, SearchTypeOK, NothingForgotten, NothingInvented,
        AnswerSound, Met, Links, question
<1>8. CASE Expand
  <2>1. /\ hash \in Commit /\ hash \in Range(pending) /\ hash # ancestor
        /\ Front(pending) \in Seq(Commit)
        /\ Range(pending) = Range(Front(pending)) \union {hash}
        /\ verdict = "searching"
    BY <1>0, <1>8, PopFacts DEF Expand, Reads, Turn
  <2>2. Links(hash) \in Seq(Commit)
    BY <2>1, LinksFacts
  <2>3. /\ seen' = seen \union {hash} /\ verdict' = verdict /\ fault' = fault
        /\ boundary' = (boundary \/ hash \in legacy)
        /\ pending' = Front(pending) \o Links(hash)
    BY <1>8 DEF Expand
  <2>4. /\ pending' \in Seq(Commit)
        /\ Range(pending') = Range(Front(pending)) \union Range(Links(hash))
    BY <2>1, <2>2, <2>3, PushFacts
  <2>5. Met' = Met \union Range(Links(hash))
    BY <2>1, <2>3, <2>4 DEF Met
  <2>6. SearchTypeOK'
    BY <1>0, <1>1, <2>1, <2>3, <2>4 DEF SearchTypeOK, question
  <2>7. NothingForgotten'
    <3>1. \A x \in seen' : x \in Commit
      BY <2>6 DEF SearchTypeOK
    <3>2. \A x \in seen' : Range(Links(x)) \subseteq Met'
      BY <1>0, <2>1, <2>3, <2>5 DEF NothingForgotten
    <3>3. \A x \in seen' : Range(Links(x)') \subseteq Met'
      BY <1>2, <3>1, <3>2
    <3> QED
      BY <1>0, <1>1, <2>1, <2>3, <2>5, <3>3 DEF NothingForgotten, question
  <2>8. NothingInvented'
    <3>1. hash \in Linked
      BY <1>0, <2>1 DEF NothingInvented, Met
    <3>2. Range(Links(hash)) \subseteq Linked
      BY <3>1, LinkedNext
    <3> QED
      BY <1>0, <1>1, <1>2, <2>1, <2>3, <2>5, <3>2 DEF NothingInvented, question
  <2>9. AnswerSound'
    BY <2>1, <2>3 DEF AnswerSound
  <2> QED
    BY <2>6, <2>7, <2>8, <2>9 DEF SearchInv
<1>9. CASE Exhausted
  <2>1. /\ ancestor \notin Linked
        /\ ~ boundary => ancestor \notin Descent
    BY <1>0, <1>9, SearchComplete DEF Exhausted
  <2>2. boundary => Linked \cap legacy # {}
    BY <1>0 DEF NothingInvented, Met
  <2> QED
    BY <1>0, <1>1, <1>2, <1>9, <2>1, <2>2
    DEF Exhausted, Answer, SearchInv, SearchTypeOK, NothingForgotten, NothingInvented,
        AnswerSound, Met, Links, question
<1>10. CASE UNCHANGED searchVars
  BY <1>0, <1>1, <1>2, <1>10
  DEF searchVars, SearchInv, SearchTypeOK, NothingForgotten, NothingInvented, AnswerSound, Met,
      Links, question
<1> QED
  BY <1>3, <1>4, <1>5, <1>6, <1>7, <1>8, <1>9, <1>10 DEF SearchNext, Progress

-----------------------------------------------------------------------------
\* The search forgets no commit that links lead to, and invents none.
THEOREM SearchInvHolds == SearchSpec => []SearchInv
BY SearchInitInv, SearchNextInv, PTL DEF SearchSpec

\* The variables keep their types.
THEOREM SearchTypeCorrect == SearchSpec => []SearchTypeOK
BY SearchInvHolds, PTL DEF SearchInv

\* Every answer is true of the real history, whatever legacy commits hide.
THEOREM AnswerSoundHolds == SearchSpec => []AnswerSound
BY SearchInvHolds, PTL DEF SearchInv
=============================================================================
