------------------------------- MODULE Snapshot -------------------------------
(***************************************************************************)
(* How a commit gets onto the disk of a client repository                  *)
(* (src/core/objects.go, commit.go, src/zlibutils/compress.go): blobs and  *)
(* the tree are first written raw under their final names and compressed   *)
(* in place afterwards; the commit object and then the branch log are      *)
(* replaced by renames.  hash-object -w writes blobs the same way, without *)
(* the operation lock.  A command can be killed, or end through            *)
(* utils.Exit, between any two steps; the next commit finds what it left.  *)
(***************************************************************************)
EXTENDS Naturals, Sequences, FiniteSets, SequencesExt

CONSTANTS
  Blob,        \* the file contents that working trees are made of
  NoBlob,      \* no content is being compressed
  MaxCommits   \* bound: the commit objects on disk when a commit starts

ASSUME BlobAssumption == NoBlob \notin Blob
ASSUME CommitsAssumption == MaxCommits \in Nat

\* A tree is named by the contents of the files it lists.
Tree == SUBSET Blob
Object == Blob \union Tree

\* A digest covers the kind, so that no file is both a blob and a tree.
ASSUME KindAssumption == \A t \in Tree : t \notin Blob

\* What a file in .ssc/objects holds: nothing, the bytes as they are, the
\* bytes compressed once, or a compression of something else.
Content == {"absent", "raw", "zlib", "wrong"}

VARIABLES
  disk,     \* disk[o]: what the file .ssc/objects/o holds
  stored,   \* the commit objects on disk, each named by its history
  history,  \* the active branch's commitlog, as the trees of its commits
  pc,       \* how far the commit is
  tree,     \* the tree it makes
  todo,     \* the files it has not hashed yet
  zip,      \* createBlobs' zlibfiles: the blobs to be compressed
  held,     \* <<b, c>>: CompressFile has read c from blob b
  hpc,      \* how far hash-object is
  hblob,    \* the content it writes
  hheld,    \* what its CompressFile has read
  disturbed \* history: a commit was cut off, or hash-object -w was run

commitVars == <<stored, history, pc, tree, todo, zip, held>>
hashVars == <<hpc, hblob, hheld, disturbed>>
vars == <<disk, commitVars, hashVars>>

PC == {"idle", "blobs", "zip", "tree", "zipTree", "check", "store", "publish"}

NothingHeld == <<NoBlob, "absent">>

Init ==
  /\ disk = [o \in Object |-> "absent"]
  /\ stored = {}
  /\ history = <<>>
  /\ pc = "idle"
  /\ tree = {} /\ todo = {} /\ zip = {} /\ held = NothingHeld
  /\ hpc = "idle" /\ hblob = NoBlob /\ hheld = "absent"
  /\ disturbed = FALSE

-----------------------------------------------------------------------------
\* Compressing what was read: right only if that was the raw content.
Compressed(c) == IF c = "raw" THEN "zlib" ELSE "wrong"

\* zlib accepts the file; readObject asks no more of a local tree.
Decompresses(o) == disk[o] \in {"zlib", "wrong"}

\* The command returns; what it held in memory is gone.
Leave ==
  /\ pc' = "idle" /\ tree' = {} /\ todo' = {} /\ zip' = {} /\ held' = NothingHeld

\* CommitWorkingTree takes the lock; the working tree has some files.
Start ==
  /\ pc = "idle"
  /\ Cardinality(stored) < MaxCommits
  /\ \E files \in SUBSET Blob : tree' = files /\ todo' = files
  /\ pc' = "blobs"
  /\ UNCHANGED <<disk, stored, history, zip, held, hashVars>>

\* Mutant: the new blob is not put on the list for compression.
AddBlobUnlisted(b) ==
  /\ pc = "blobs"
  /\ b \in todo
  /\ todo' = todo \ {b}
  /\ disk' = IF disk[b] = "absent" THEN [disk EXCEPT ![b] = "raw"] ELSE disk
  /\ UNCHANGED <<stored, history, pc, tree, zip, held, hashVars>>

\* createBlobs, one file: written raw unless a file of that name exists.
AddBlob(b) ==
  /\ pc = "blobs"
  /\ b \in todo
  /\ todo' = todo \ {b}
  /\ IF disk[b] = "absent"
       THEN disk' = [disk EXCEPT ![b] = "raw"] /\ zip' = zip \union {b}
       ELSE UNCHANGED <<disk, zip>>
  /\ UNCHANGED <<stored, history, pc, tree, held, hashVars>>

\* All files are hashed; CompressFile gets the list.
EndBlobs ==
  /\ pc = "blobs"
  /\ todo = {}
  /\ pc' = "zip"
  /\ UNCHANGED <<disk, stored, history, tree, todo, zip, held, hashVars>>

\* CompressFile reads a file into memory ...
ReadRaw(b) ==
  /\ pc = "zip" /\ held = NothingHeld
  /\ b \in zip
  /\ held' = <<b, disk[b]>>
  /\ UNCHANGED <<disk, stored, history, pc, tree, todo, zip, hashVars>>

\* ... and writes it back compressed.
WriteZip ==
  /\ pc = "zip" /\ held # NothingHeld
  /\ disk' = [disk EXCEPT ![held[1]] = Compressed(held[2])]
  /\ zip' = zip \ {held[1]}
  /\ held' = NothingHeld
  /\ UNCHANGED <<stored, history, pc, tree, todo, hashVars>>

EndZip ==
  /\ pc = "zip" /\ held = NothingHeld
  /\ zip = {}
  /\ pc' = "tree"
  /\ UNCHANGED <<disk, stored, history, tree, todo, zip, held, hashVars>>

\* CreateTree writes the tree raw, whether or not its file exists.
WriteTree ==
  /\ pc = "tree"
  /\ disk' = [disk EXCEPT ![tree] = "raw"]
  /\ pc' = "zipTree"
  /\ UNCHANGED <<stored, history, tree, todo, zip, held, hashVars>>

\* Mutant: the tree is compressed by both of CreateTree's calls.
CompressTreeTwice ==
  /\ pc = "zipTree"
  /\ disk' = [disk EXCEPT ![tree] = Compressed(Compressed(disk[tree]))]
  /\ pc' = "check"
  /\ UNCHANGED <<stored, history, tree, todo, zip, held, hashVars>>

\* The tree is compressed in place, and listed in .ssc/trees.
CompressTree ==
  /\ pc = "zipTree"
  /\ disk' = [disk EXCEPT ![tree] = Compressed(disk[tree])]
  /\ pc' = "check"
  /\ UNCHANGED <<stored, history, tree, todo, zip, held, hashVars>>

\* Mutant: the log is written before the commit object.
CheckThenPublish ==
  /\ pc = "check"
  /\ Decompresses(tree)
  /\ pc' = "publish"
  /\ UNCHANGED <<disk, stored, history, tree, todo, zip, held, hashVars>>

\* createCommitLocked reads the branch tip and the tree.
Check ==
  /\ pc = "check"
  /\ history = <<>> \/ history \in stored
  /\ Decompresses(tree)
  /\ pc' = "store"
  /\ UNCHANGED <<disk, stored, history, tree, todo, zip, held, hashVars>>

\* The compressed commit object is renamed into place.
StoreCommit ==
  /\ pc = "store"
  /\ stored' = stored \union {Append(history, tree)}
  /\ pc' = "publish"
  /\ UNCHANGED <<disk, history, tree, todo, zip, held, hashVars>>

\* The longer log is renamed into place and the command ends.
Publish ==
  /\ pc = "publish"
  /\ history' = Append(history, tree)
  /\ Leave
  /\ UNCHANGED <<disk, stored, hashVars>>

\* Reading the tip or the tree, or writing the commit object or the log,
\* fails with an error.
Fail ==
  /\ pc \in {"check", "store", "publish"}
  /\ Leave
  /\ UNCHANGED <<disk, stored, history, hashVars>>

\* The command is killed, or ends through utils.Exit; the user removes the
\* stale lock.
Stop ==
  /\ pc # "idle"
  /\ Leave
  /\ disturbed' = TRUE
  /\ UNCHANGED <<disk, stored, history, hpc, hblob, hheld>>

-----------------------------------------------------------------------------
\* WriteStdinHash, WriteFileHash: the blob is written raw, always ...
HashWrite ==
  /\ hpc = "idle"
  /\ \E b \in Blob :
       /\ hblob' = b
       /\ disk' = [disk EXCEPT ![b] = "raw"]
  /\ hpc' = "written"
  /\ disturbed' = TRUE
  /\ UNCHANGED <<commitVars, hheld>>

\* Mutant: the name is passed on instead of the content.
HashReadName ==
  /\ hpc = "written"
  /\ hheld' = hblob
  /\ hpc' = "read"
  /\ UNCHANGED <<disk, commitVars, hblob, disturbed>>

\* ... read by CompressFile ...
HashRead ==
  /\ hpc = "written"
  /\ hheld' = disk[hblob]
  /\ hpc' = "read"
  /\ UNCHANGED <<disk, commitVars, hblob, disturbed>>

\* ... and written back compressed.
HashZip ==
  /\ hpc = "read"
  /\ disk' = [disk EXCEPT ![hblob] = Compressed(hheld)]
  /\ hpc' = "idle" /\ hblob' = NoBlob /\ hheld' = "absent"
  /\ UNCHANGED <<commitVars, disturbed>>

Next ==
  \/ \E b \in Blob : AddBlob(b) \/ ReadRaw(b)
  \/ Start \/ EndBlobs \/ WriteZip \/ EndZip \/ WriteTree \/ CompressTree
  \/ Check \/ StoreCommit \/ Publish \/ Fail \/ Stop
  \/ HashWrite \/ HashRead \/ HashZip

Spec == Init /\ [][Next]_vars

-----------------------------------------------------------------------------
TypeOK ==
  /\ disk \in [Object -> Content]
  /\ \A s \in stored : s \in Seq(Tree)
  /\ history \in Seq(Tree)
  /\ pc \in PC
  /\ tree \in Tree /\ todo \subseteq Blob /\ zip \subseteq Blob
  /\ held \in (Blob \union {NoBlob}) \X Content
  /\ hpc \in {"idle", "written", "read"}
  /\ hblob \in Blob \union {NoBlob}
  /\ hheld \in Content
  /\ disturbed \in BOOLEAN

Readable(t) == disk[t] = "zlib" /\ \A b \in t : disk[b] = "zlib"

\* As long as no commit is cut off and no hash-object interferes, every
\* commit of the log can be read at every moment except while its own tree
\* is being written again by a commit of the same snapshot.
HistoryReadable ==
  ~ disturbed => \A i \in DOMAIN history :
    (pc = "zipTree" /\ tree = history[i]) \/ Readable(history[i])

\* Whatever was killed before, and whatever hash-object does, a commit's own
\* tree is readable when the commit is published (a blob's file may not be:
\* PublishComplete), and its commit object is stored.
TreeReadableAtPublish ==
  [][history' # history =>
       disk[Last(history')] = "zlib" /\ history' \in stored]_vars

\* Every commit in the log has its object, so that the next commit can read
\* its parent.
ListedAreStored ==
  \A n \in 1..Len(history) : SubSeq(history, 1, n) \in stored

\* README.md:119: commit writers "publish completed compressed objects before
\* replacing the branch history index".
PublishComplete ==
  [][history' # history => Readable(Last(history'))]_vars

\* README.md:107: "Existing objects are never rewritten."
NeverRewritten ==
  [][\A o \in Object : disk[o] = "zlib" => disk'[o] = "zlib"]_vars
=============================================================================
