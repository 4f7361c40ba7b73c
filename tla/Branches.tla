------------------------------ MODULE Branches ------------------------------
(***************************************************************************)
(* Branches and working files of one client repository: init, branch,      *)
(* revert and the branch side of commit (src/core/init.go, branch.go,      *)
(* revert.go, commit.go), one file operation at a time.  Every command but *)
(* init runs under the operation lock, so one command runs at a time; it   *)
(* can fail or be killed between any two operations, and in the middle of  *)
(* ioutil.WriteFile.  After a kill the user removes the lock (RepoLock).   *)
(*                                                                         *)
(* A branch is the directory of its name below .ssc/branches, and in it a  *)
(* file commitlog.  Names contain slashes, so a directory may lie in       *)
(* another's.                                                              *)
(***************************************************************************)
EXTENDS Naturals, Sequences

CONSTANTS
  Branch,      \* valid branch names, namespaces included
  Above,       \* Above[b]: the names whose directories contain that of b
  Node,        \* paths of the working directory
  Up,          \* Up[n]: the directories that contain n
  Content,     \* what a file can hold
  Edits,       \* the working directories that the user may produce
  MaxCommits,  \* bound on commit objects
  NoBranch, NoLog, None, Dir, Cut  \* Cut: an emptied file

Disk == [Node -> Content \union {None, Dir}]

Snapshot == [Node -> Content \union {None}]

ASSUME NameAssumption ==
  /\ Above \in [Branch -> SUBSET Branch]
  /\ \A b \in Branch : b \notin Above[b]
  /\ NoBranch \notin Branch
  /\ NoLog \notin Seq(Nat)

ASSUME TreeAssumption ==
  /\ Up \in [Node -> SUBSET Node]
  /\ \A n \in Node : n \notin Up[n]
  /\ Cut \in Content /\ None \notin Content /\ Dir \notin Content /\ None # Dir
  /\ Edits \subseteq Disk
  /\ \A d \in Edits : \A n \in Node : d[n] # None => \A u \in Up[n] : d[u] = Dir
  /\ MaxCommits \in Nat

VARIABLES
  exists,   \* is there a directory .ssc
  dirs,     \* the directories below .ssc/branches
  log,      \* log[b]: the commits that b's commitlog lists, or NoLog
  junk,     \* the directories in which a killed commit left a temporary file
  current,  \* the name in .ssc/branch, NoBranch when it is missing or empty
  snaps,    \* the snapshots of the commits made so far; a commit is an index
  disk,     \* the working directory
  at,       \* the next operation of the command that runs, or "idle"
  arg,      \* the branch it is about, or the last one was; NoBranch for a revert
  buf,      \* the commits it has read
  goal,     \* the commit whose files the last command was to restore, or 0
  todo,     \* the paths it still has to remove or to write
  outcome,  \* how the last command ended
  touched   \* history: the files may differ from the active branch's tip

repoVars == <<exists, dirs, log, junk, current, snaps, disk>>
vars == <<exists, dirs, log, junk, current, snaps, disk, at, arg, buf, goal,
          todo, outcome, touched>>

Commit == 1..MaxCommits

HasLog(b) == log[b] # NoLog

\* The last commit that a log lists.
Tip(b) == log[b][Len(log[b])]

HasTip(b) == HasLog(b) /\ log[b] # <<>>

\* utils.GetFiles: the regular files, as CreateTree records them.
Files == [n \in Node |-> IF disk[n] = Dir THEN None ELSE disk[n]]

Paths(s) == {n \in Node : s[n] # None}

Init ==
  /\ exists = FALSE
  /\ dirs = {}
  /\ log = [b \in Branch |-> NoLog]
  /\ junk = {}
  /\ current = NoBranch
  /\ snaps = <<>>
  /\ disk \in Edits
  /\ at = "idle"
  /\ arg = NoBranch
  /\ buf = <<>>
  /\ goal = 0
  /\ todo = {}
  /\ outcome = "ok"
  /\ touched = TRUE

-----------------------------------------------------------------------------
\* A command starts on branch b with the operation a; it restores nothing
\* unless it says so.
Start(a, b) ==
  /\ at = "idle"
  /\ at' = a
  /\ arg' = b
  /\ UNCHANGED <<repoVars, todo, outcome, touched>>

Goto(a) ==
  /\ at' = a
  /\ UNCHANGED <<arg, buf, goal, outcome>>

\* The command ends.
Stop(o) ==
  /\ at' = "idle"
  /\ buf' = <<>>
  /\ todo' = {}
  /\ outcome' = o
  /\ UNCHANGED <<arg, goal>>

\* The user changes working files while no command runs.
Edit ==
  /\ at = "idle"
  /\ disk' \in Edits \ {disk}
  /\ arg' = NoBranch
  /\ goal' = 0
  /\ touched' = TRUE
  /\ UNCHANGED <<exists, dirs, log, junk, current, snaps, at, buf, todo,
                 outcome>>

-----------------------------------------------------------------------------
(* init *)

\* os.Mkdir(".ssc") fails when it is there, so that nothing is initialised
\* twice.
InitStart(b) ==
  /\ at = "idle"
  /\ ~ exists
  /\ exists' = TRUE
  /\ at' = "initDirs"
  /\ arg' = b
  /\ goal' = 0
  /\ UNCHANGED <<dirs, log, junk, current, snaps, disk, buf, todo, outcome,
                 touched>>

\* os.MkdirAll makes one missing directory, the outermost first.
MakeDir(missing) ==
  /\ \E d \in missing \ dirs :
       /\ Above[d] \subseteq dirs
       /\ dirs' = dirs \union {d}
  /\ UNCHANGED <<exists, log, junk, current, snaps, disk, at, arg, buf, goal,
                 todo, outcome, touched>>

InitDirs ==
  /\ at = "initDirs"
  /\ MakeDir(Above[arg] \union {arg})

\* The files are written in the order of a Go map, which is any order.
InitFile ==
  /\ at = "initDirs"
  /\ Above[arg] \union {arg} \subseteq dirs
  /\ \/ current = NoBranch /\ current' = arg /\ UNCHANGED log
     \/ ~ HasLog(arg) /\ log' = [log EXCEPT ![arg] = <<>>] /\ UNCHANGED current
  /\ IF current' # NoBranch /\ log'[arg] # NoLog
     THEN Stop("ok")
     ELSE Goto("initDirs") /\ UNCHANGED todo
  /\ UNCHANGED <<exists, dirs, junk, snaps, disk, touched>>

\* An error removes the directory again.
InitUndo ==
  /\ at = "initDirs"
  /\ exists' = FALSE
  /\ dirs' = {}
  /\ log' = [b \in Branch |-> NoLog]
  /\ current' = NoBranch
  /\ Stop("failed")
  /\ UNCHANGED <<junk, snaps, disk, touched>>

-----------------------------------------------------------------------------
(* branch -n *)

\* Mutant: only the new directory itself is looked at.
FreeSelf(b) == ~ HasLog(b)

\* No directory above the new one may be a branch.
FreeAbove(b) == \A c \in Above[b] : ~ HasLog(c)

CreateStart(b) ==
  /\ current # NoBranch
  /\ HasTip(current)
  /\ FreeAbove(b)
  /\ Start("mkdir", b)
  /\ buf' = log[current]
  /\ goal' = 0

CreateParents ==
  /\ at = "mkdir"
  /\ MakeDir(Above[arg])

\* os.Mkdir refuses a directory that exists, with or without a log.
CreateMkdir ==
  /\ at = "mkdir"
  /\ Above[arg] \subseteq dirs
  /\ IF arg \in dirs
     THEN Stop("refused") /\ UNCHANGED dirs
     ELSE dirs' = dirs \union {arg} /\ Goto("write") /\ UNCHANGED todo
  /\ UNCHANGED <<exists, log, junk, current, snaps, disk, touched>>

\* Mutant: the new branch inherits the tip alone.
CreateWriteTip ==
  /\ at = "write"
  /\ log' = [log EXCEPT ![arg] = <<buf[Len(buf)]>>]
  /\ Stop("ok")
  /\ UNCHANGED <<exists, dirs, junk, current, snaps, disk, touched>>

CreateWrite ==
  /\ at = "write"
  /\ log' = [log EXCEPT ![arg] = buf]
  /\ Stop("ok")
  /\ UNCHANGED <<exists, dirs, junk, current, snaps, disk, touched>>

\* An error of the write removes the directory again.
CreateUndo ==
  /\ at = "write"
  /\ dirs' = dirs \ {arg}
  /\ log' = [log EXCEPT ![arg] = NoLog]
  /\ Stop("failed")
  /\ UNCHANGED <<exists, junk, current, snaps, disk, touched>>

-----------------------------------------------------------------------------
(* branch -d *)

\* checkBranchDeletion: not the active branch, and nothing but a log in it.
DeleteStart(b) ==
  /\ HasLog(b)
  /\ current \notin {NoBranch, b}
  /\ b \notin junk
  /\ \A d \in dirs : b \notin Above[d]
  /\ Start("confirm", b)
  /\ UNCHANGED buf
  /\ goal' = 0

\* The user declines.
DeleteDecline ==
  /\ at = "confirm"
  /\ Stop("ok")
  /\ UNCHANGED <<repoVars, touched>>

\* os.RemoveAll after the second check, whose answers the lock has kept:
\* first the log, then the directory.
DeleteLog ==
  /\ at = "confirm"
  /\ log' = [log EXCEPT ![arg] = NoLog]
  /\ Goto("rmdir")
  /\ UNCHANGED <<exists, dirs, junk, current, snaps, disk, todo, touched>>

DeleteDir ==
  /\ at = "rmdir"
  /\ dirs' = dirs \ {arg}
  /\ Stop("ok")
  /\ UNCHANGED <<exists, log, junk, current, snaps, disk, touched>>

-----------------------------------------------------------------------------
(* branch -s and revert *)

\* Mutant: the first lines of the logs are compared, not the last.
SameRoot(b) == HasTip(current) /\ log[current][1] = log[b][1]

\* The two branches end in the same commit.
SameTip(b) == HasTip(current) /\ Tip(current) = Tip(b)

\* The files stay when the target is the same commit.
SwitchStart(b) ==
  /\ HasTip(b)
  /\ current \notin {NoBranch, b}
  /\ HasLog(current)
  /\ Start(IF SameTip(b) THEN "publish" ELSE "load", b)
  /\ goal' = IF SameTip(b) THEN 0 ELSE Tip(b)
  /\ UNCHANGED buf

\* The target is named by its hash, on whatever branch it is.
RevertStart(c) ==
  /\ exists
  /\ c \in DOMAIN snaps
  /\ Start("load", NoBranch)
  /\ goal' = c
  /\ UNCHANGED buf

\* Every object is in memory: the files that the snapshot lacks come first.
Load ==
  /\ at = "load"
  /\ Goto("clear")
  /\ todo' = Paths(Files) \ Paths(snaps[goal])
  /\ touched' = TRUE
  /\ UNCHANGED repoVars

ClearFile ==
  /\ at = "clear"
  /\ \E n \in todo :
       /\ disk' = [disk EXCEPT ![n] = None]
       /\ todo' = todo \ {n}
  /\ Goto("clear")
  /\ UNCHANGED <<exists, dirs, log, junk, current, snaps, touched>>

\* Mutant: the files that the snapshot lacks are left.
ClearSkipped ==
  /\ at = "clear"
  /\ Goto("restore")
  /\ todo' = Paths(snaps[goal])
  /\ UNCHANGED <<repoVars, touched>>

Cleared ==
  /\ at = "clear"
  /\ todo = {}
  /\ Goto("restore")
  /\ todo' = Paths(snaps[goal])
  /\ UNCHANGED <<repoVars, touched>>

\* os.MkdirAll for the directories above n.
WithParents(n) ==
  [m \in Node |-> IF m \in Up[n] /\ disk[m] = None THEN Dir ELSE disk[m]]

\* Directories are never removed: one in the place of a file, or a file in
\* the place of a directory, stops the restoration.
Obstructed(n) == disk[n] = Dir \/ \E u \in Up[n] : disk[u] \in Content

RestoreFile ==
  /\ at = "restore"
  /\ \E n \in todo :
       /\ ~ Obstructed(n)
       /\ disk' = [WithParents(n) EXCEPT ![n] = snaps[goal][n]]
       /\ todo' = todo \ {n}
  /\ Goto("restore")
  /\ UNCHANGED <<exists, dirs, log, junk, current, snaps, touched>>

RestoreBlocked ==
  /\ at = "restore"
  /\ \E n \in todo : Obstructed(n)
  /\ Stop("blocked")
  /\ UNCHANGED <<repoVars, touched>>

\* A revert is done; a switch goes on to .ssc/branch.
Restored ==
  /\ at = "restore"
  /\ todo = {}
  /\ IF arg = NoBranch
     THEN Stop("ok") /\ touched' = ~ (current # NoBranch /\ HasTip(current)
                                      /\ Tip(current) = goal)
     ELSE Goto("publish") /\ UNCHANGED <<todo, touched>>
  /\ UNCHANGED repoVars

PublishBranch ==
  /\ at = "publish"
  /\ current' = arg
  /\ touched' = (touched /\ goal = 0)
  /\ Stop("ok")
  /\ UNCHANGED <<exists, dirs, log, junk, snaps, disk>>

-----------------------------------------------------------------------------
(* commit *)

\* The snapshot and the commit object are stored (Snapshot has the details).
CommitStart ==
  /\ current # NoBranch
  /\ HasLog(current)
  /\ Len(snaps) < MaxCommits
  /\ at = "idle"
  /\ at' = "record"
  /\ snaps' = Append(snaps, Files)
  /\ buf' = Append(log[current], Len(snaps) + 1)
  /\ arg' = NoBranch
  /\ goal' = 0
  /\ UNCHANGED <<exists, dirs, log, junk, current, disk, todo, outcome,
                 touched>>

\* atomicWrite replaces the log.
Record ==
  /\ at = "record"
  /\ log' = [log EXCEPT ![current] = buf]
  /\ touched' = FALSE
  /\ Stop("ok")
  /\ UNCHANGED <<exists, dirs, junk, current, snaps, disk>>

-----------------------------------------------------------------------------
(* Kills and errors *)

\* Between two operations.
Interrupt ==
  /\ at # "idle"
  /\ Stop("failed")
  /\ UNCHANGED <<repoVars, touched>>

\* In a WriteFile of the restoration: a directory made, or the file emptied.
InterruptFile ==
  /\ at = "restore"
  /\ \E n \in todo :
       /\ ~ Obstructed(n)
       /\ disk' \in {WithParents(n), [WithParents(n) EXCEPT ![n] = Cut]}
  /\ Stop("failed")
  /\ UNCHANGED <<exists, dirs, log, junk, current, snaps, touched>>

\* In the WriteFile of .ssc/branch, which truncates it first.
InterruptPublish ==
  /\ at = "publish"
  /\ current' = NoBranch
  /\ Stop("failed")
  /\ UNCHANGED <<exists, dirs, log, junk, snaps, disk, touched>>

\* In the WriteFile of a new branch's log.
KillCreate ==
  /\ at = "write"
  /\ log' = [log EXCEPT ![arg] = <<>>]
  /\ Stop("failed")
  /\ UNCHANGED <<exists, dirs, junk, current, snaps, disk, touched>>

\* In atomicWrite, between the temporary file and its rename.
KillRecord ==
  /\ at = "record"
  /\ junk' = junk \union {current}
  /\ Stop("failed")
  /\ UNCHANGED <<exists, dirs, log, current, snaps, disk, touched>>

-----------------------------------------------------------------------------
Command ==
  \/ \E b \in Branch :
       InitStart(b) \/ CreateStart(b) \/ DeleteStart(b) \/ SwitchStart(b)
  \/ \E c \in Commit : RevertStart(c)
  \/ CommitStart

Operation ==
  \/ InitDirs \/ InitFile \/ CreateParents \/ CreateMkdir \/ CreateWrite
  \/ DeleteDecline \/ DeleteLog \/ DeleteDir
  \/ Load \/ ClearFile \/ Cleared \/ RestoreFile \/ RestoreBlocked \/ Restored
  \/ PublishBranch \/ Record

Failure ==
  \/ InitUndo \/ CreateUndo
  \/ Interrupt \/ InterruptFile \/ InterruptPublish \/ KillCreate \/ KillRecord

Next == Edit \/ Command \/ Operation \/ Failure

Spec == Init /\ [][Next]_vars

-----------------------------------------------------------------------------
TypeOK ==
  /\ exists \in BOOLEAN
  /\ dirs \subseteq Branch
  /\ log \in [Branch -> Seq(Commit) \union {NoLog}]
  /\ junk \subseteq Branch
  /\ current \in Branch \union {NoBranch}
  /\ snaps \in Seq(Snapshot) /\ Len(snaps) <= MaxCommits
  /\ disk \in Disk
  /\ at \in {"idle", "initDirs", "mkdir", "write", "confirm", "rmdir", "load",
             "clear", "restore", "publish", "record"}
  /\ arg \in Branch \union {NoBranch}
  /\ buf \in Seq(Commit)
  /\ goal \in 0..MaxCommits
  /\ todo \subseteq Node
  /\ outcome \in {"ok", "refused", "blocked", "failed"}
  /\ touched \in BOOLEAN

\* A restoration that ends well leaves exactly the files of its snapshot, from
\* whatever mixture an earlier, interrupted one has left.
RestoreExact ==
  outcome = "ok" /\ at = "idle" /\ goal # 0 => Files = snaps[goal]

\* Unless the user has edited, or a restoration was cut off or went to another
\* commit, the files are those of the active branch's tip: across switches
\* that skip the restoration, commits, failures and kills of anything else.
UntouchedIsTip ==
  at = "idle" /\ ~ touched /\ current # NoBranch /\ HasTip(current) =>
    Files = snaps[Tip(current)]

\* No branch lies in the directory of another one, whatever killed commands
\* have left there: deleting a branch can then never delete a second.
NoNesting ==
  \A b, c \in Branch : HasLog(b) /\ HasLog(c) => b \notin Above[c]

BM == INSTANCE BranchMap WITH
  history <- [b \in Branch |-> IF HasLog(b) THEN log[b] ELSE <<>>],
  active <- current

\* The files implement the map of histories: one branch changes at a time, a
\* new one inherits everything, no history is cut short, the active branch is
\* never deleted.
ImplementsBranchMap == BM!MapSpec
=============================================================================
