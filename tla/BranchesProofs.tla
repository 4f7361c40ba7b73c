--------------------------- MODULE BranchesProofs ---------------------------
(***************************************************************************)
(* Proofs about module Branches, for all names, namespaces, directory      *)
(* trees, snapshots and numbers of commits: restorations are exact, no     *)
(* branch lies in another, and the files implement the map of histories.   *)
(***************************************************************************)
EXTENDS Branches, TLAPS

\* Every log is in a directory, and every directory in the ones above it.
DirsInv ==
  /\ \A b \in Branch : HasLog(b) => b \in dirs
  /\ \A d \in dirs : Above[d] \subseteq dirs

\* While a repository is initialised nothing but the branch asked for is there.
InitInv ==
  /\ ~ exists =>
       /\ dirs = {} /\ current = NoBranch
       /\ \A b \in Branch : ~ HasLog(b)
  /\ at = "initDirs" =>
       /\ exists /\ arg \in Branch
       /\ current \in {NoBranch, arg}
       /\ dirs \subseteq Above[arg] \union {arg}
       /\ \A b \in Branch : HasLog(b) => b = arg /\ log[b] = <<>>

\* What a creation has read still holds, and nothing lies in its directory.
CreateInv ==
  /\ at \in {"mkdir", "write"} =>
       /\ exists /\ arg \in Branch /\ FreeAbove(arg)
       /\ current # NoBranch /\ HasTip(current) /\ buf = log[current]
  /\ at = "write" =>
       /\ ~ HasLog(arg) /\ arg \in dirs
       /\ \A d \in dirs : arg \notin Above[d]

\* So do the checks of a deletion.
DeleteInv ==
  /\ at \in {"confirm", "rmdir"} =>
       /\ arg \in Branch
       /\ current \notin {NoBranch, arg}
       /\ \A d \in dirs : arg \notin Above[d]
  /\ at = "rmdir" => ~ HasLog(arg)

\* Every commit that is listed has been made, and the one that is about to be
\* listed is the last that was made, and listed nowhere.
IdsInv ==
  /\ \A b \in Branch : HasLog(b) =>
       \A i \in DOMAIN log[b] : log[b][i] \in DOMAIN snaps
  /\ at = "record" =>
       /\ current # NoBranch /\ HasLog(current)
       /\ buf = Append(log[current], Len(snaps))
       /\ Len(snaps) \in DOMAIN snaps /\ snaps[Len(snaps)] = Files
       /\ \A b \in Branch : HasLog(b) =>
            \A i \in DOMAIN log[b] : log[b][i] # Len(snaps)

\* An active branch without commits is the only one.
FirstInv ==
  current # NoBranch /\ HasLog(current) /\ log[current] = <<>> =>
    \A b \in Branch : ~ HasTip(b)

\* Only restorations have a goal, and what they have done so far is exact.
RestoreInv ==
  /\ at \in {"initDirs", "mkdir", "write", "confirm", "rmdir", "record"} =>
       goal = 0
  /\ at \in {"load", "clear", "restore"} => goal \in DOMAIN snaps
  /\ at \in {"clear", "restore"} => touched
  /\ at \in {"load", "clear", "restore", "publish"} /\ arg # NoBranch =>
       HasTip(arg) /\ (goal # 0 => goal = Tip(arg))
  /\ at = "clear" => \A n \in Node :
       /\ n \in todo => snaps[goal][n] = None
       /\ disk[n] \in Content /\ snaps[goal][n] = None => n \in todo
  /\ at = "restore" => \A n \in Node :
       /\ n \in todo => snaps[goal][n] # None
       /\ snaps[goal][n] = None => disk[n] \notin Content
       /\ snaps[goal][n] # None /\ n \notin todo => disk[n] = snaps[goal][n]
  /\ at = "publish" =>
       /\ arg # NoBranch
       /\ goal # 0 => goal \in DOMAIN snaps /\ Files = snaps[goal]
       /\ goal = 0 => current # NoBranch /\ SameTip(arg)

\* UntouchedIsTip holds in the middle of a command, too.
TipInv ==
  ~ touched /\ current # NoBranch /\ HasTip(current) => Files = snaps[Tip(current)]

Inv ==
  /\ TypeOK
  /\ DirsInv
  /\ InitInv
  /\ CreateInv
  /\ DeleteInv
  /\ IdsInv
  /\ FirstInv
  /\ RestoreInv
  /\ TipInv
  /\ RestoreExact
  /\ NoNesting

-----------------------------------------------------------------------------
\* Commits are numbers, and NoLog is not a list of them.
LEMMA CommitFacts == Commit \subseteq Nat /\ NoLog \notin Seq(Commit)
<1>1. Commit \subseteq Nat
  BY DEF Commit
<1>2. ASSUME NEW s \in Seq(Commit)
      PROVE  s \in Seq(Nat)
  <2>1. Len(s) \in Nat /\ s \in [1..Len(s) -> Commit]
    OBVIOUS
  <2>2. s \in [1..Len(s) -> Nat]
    BY <1>1, <2>1
  <2> QED
    BY <2>1, <2>2
<1> QED
  BY <1>1, <1>2, NameAssumption

\* The empty list is a list of anything.
LEMMA EmptyFacts == <<>> \in Seq(Commit) /\ <<>> \in Seq(Snapshot) /\ Len(<<>>) = 0
OBVIOUS

\* What a branch with a tip has for a log.
LEMMA LogFacts ==
  ASSUME TypeOK, NEW b \in Branch
  PROVE  /\ HasLog(b) <=> log[b] \in Seq(Commit)
         /\ HasTip(b) => /\ Len(log[b]) \in DOMAIN log[b]
                         /\ Tip(b) \in Commit
BY CommitFacts DEF TypeOK, HasLog, HasTip, Tip

\* The files of a working directory are a snapshot.
LEMMA FilesFacts == TypeOK => Files \in Snapshot
BY TreeAssumption DEF TypeOK, Files, Snapshot, Disk

\* A repository that is not there has neither directories nor branches.
LEMMA InitialInv == Init => Inv
<1> SUFFICES ASSUME Init PROVE Inv
  OBVIOUS
<1>1. TypeOK
  <2>1. log \in [Branch -> Seq(Commit) \union {NoLog}]
    BY DEF Init
  <2>2. disk \in Disk
    BY TreeAssumption DEF Init
  <2>3. 0 \in 0..MaxCommits /\ 0 <= MaxCommits
    BY TreeAssumption
  <2> QED
    BY EmptyFacts, <2>1, <2>2, <2>3 DEF Init, TypeOK
<1>2. \A b \in Branch : ~ HasLog(b)
  BY DEF Init, HasLog
<1> QED
  BY <1>1, <1>2 DEF Init, Inv, DirsInv, InitInv, CreateInv, DeleteInv, IdsInv,
     FirstInv, RestoreInv, TipInv, RestoreExact, NoNesting

-----------------------------------------------------------------------------
(* One lemma for each part of the invariant: first the steps that leave     *)
(* alone what it is about, then the others one by one.                      *)

LEMMA TypeStep == Inv /\ [Next]_vars => TypeOK'
<1> SUFFICES ASSUME Inv, [Next]_vars PROVE TypeOK'
  OBVIOUS
<1> USE EmptyFacts, TreeAssumption DEF TypeOK, Stop, Goto, repoVars
<1>0. TypeOK
  BY DEF Inv
<1>1. CASE Edit
  BY <1>0, <1>1 DEF Edit
<1>2. ASSUME NEW b \in Branch, InitStart(b) PROVE TypeOK'
  BY <1>0, <1>2 DEF InitStart
<1>3. ASSUME NEW b \in Branch, CreateStart(b) PROVE TypeOK'
  <2>1. log[current] \in Seq(Commit)
    BY <1>0, <1>3, LogFacts DEF CreateStart, HasTip
  <2> QED
    BY <1>0, <1>3, <2>1 DEF CreateStart, Start
<1>4. ASSUME NEW b \in Branch, DeleteStart(b) PROVE TypeOK'
  BY <1>0, <1>4 DEF DeleteStart, Start
<1>5. ASSUME NEW b \in Branch, SwitchStart(b) PROVE TypeOK'
  <2>1. Tip(b) \in 1..MaxCommits
    BY <1>0, <1>5, LogFacts DEF SwitchStart, Commit
  <2> QED
    BY <1>0, <1>5, <2>1 DEF SwitchStart, Start
<1>6. ASSUME NEW c \in Commit, RevertStart(c) PROVE TypeOK'
  BY <1>0, <1>6 DEF RevertStart, Start, Commit
<1>7. CASE CommitStart
  <2>1. log[current] \in Seq(Commit)
    BY <1>0, <1>7, LogFacts DEF CommitStart
  <2>2. Len(snaps) + 1 \in Commit /\ Len(snaps) \in Nat
    BY <1>0, <1>7 DEF CommitStart, Commit
  <2>3. snaps' \in Seq(Snapshot) /\ Len(snaps') = Len(snaps) + 1
    BY <1>0, <1>7, FilesFacts DEF CommitStart
  <2>4. buf' \in Seq(Commit)
    BY <1>7, <2>1, <2>2 DEF CommitStart
  <2>5. Len(snaps') <= MaxCommits
    BY <1>7, <2>2, <2>3 DEF CommitStart
  <2> QED
    BY <1>0, <1>7, <2>3, <2>4, <2>5 DEF CommitStart
<1>8. CASE InitDirs \/ CreateParents
  BY <1>0, <1>8, NameAssumption DEF InitDirs, CreateParents, MakeDir, Inv, InitInv, CreateInv
<1>9. CASE InitFile
  <2>1. arg \in Branch
    BY <1>9 DEF InitFile, Inv, InitInv
  <2>2. log' \in [Branch -> Seq(Commit) \union {NoLog}]
    BY <1>0, <1>9, <2>1 DEF InitFile
  <2> QED
    BY <1>0, <1>9, <2>1, <2>2 DEF InitFile
<1>10. CASE InitUndo
  BY <1>0, <1>10 DEF InitUndo
<1>11. CASE CreateMkdir
  BY <1>0, <1>11 DEF CreateMkdir, Inv, CreateInv
<1>12. CASE CreateWrite \/ CreateUndo \/ KillCreate
  <2>1. log' \in [Branch -> Seq(Commit) \union {NoLog}]
    BY <1>0, <1>12 DEF CreateWrite, CreateUndo, KillCreate
  <2> QED
    BY <1>0, <1>12, <2>1 DEF CreateWrite, CreateUndo, KillCreate
<1>13. CASE DeleteDecline \/ DeleteLog \/ DeleteDir
  BY <1>0, <1>13 DEF DeleteDecline, DeleteLog, DeleteDir
<1>14. CASE Load
  <2>1. todo' \subseteq Node
    BY <1>14 DEF Load, Paths
  <2> QED
    BY <1>0, <1>14, <2>1 DEF Load
<1>15. CASE ClearFile
  BY <1>0, <1>15 DEF ClearFile, Disk
<1>16. CASE Cleared
  <2>1. todo' \subseteq Node
    BY <1>16 DEF Cleared, Paths
  <2> QED
    BY <1>0, <1>16, <2>1 DEF Cleared
<1>17. CASE RestoreFile
  <2>1. PICK n \in todo : disk' = [WithParents(n) EXCEPT ![n] = snaps[goal][n]]
    BY <1>17 DEF RestoreFile
  <2>2. snaps[goal] \in Snapshot
    BY <1>0, <1>17 DEF RestoreFile, Inv, RestoreInv
  <2>3. disk' \in Disk
    BY <1>0, <2>1, <2>2 DEF Disk, Snapshot, WithParents
  <2> QED
    BY <1>0, <1>17, <2>3 DEF RestoreFile
<1>18. CASE RestoreBlocked \/ Restored
  BY <1>0, <1>18 DEF RestoreBlocked, Restored
<1>19. CASE PublishBranch \/ Record \/ KillRecord
  <2>1. log' \in [Branch -> Seq(Commit) \union {NoLog}]
    BY <1>0, <1>19 DEF PublishBranch, Record, KillRecord
  <2>2. junk' \subseteq Branch
    BY <1>0, <1>19 DEF PublishBranch, Record, KillRecord, Inv, IdsInv
  <2> QED
    BY <1>0, <1>19, <2>1, <2>2 DEF PublishBranch, Record, KillRecord
<1>20. CASE Interrupt
  BY <1>0, <1>20 DEF Interrupt
<1>23. CASE InterruptPublish
  BY <1>0, <1>23 DEF InterruptPublish
<1>21. CASE InterruptFile
  <2>1. \A n \in Node : WithParents(n) \in Disk
    BY <1>0 DEF Disk, WithParents
  <2>2. disk' \in Disk
    BY <1>0, <1>21, <2>1 DEF InterruptFile, Disk
  <2> QED
    BY <1>0, <1>21, <2>2 DEF InterruptFile
<1>22. CASE UNCHANGED vars
  BY <1>0, <1>22 DEF vars
<1> QED
  BY <1>1, <1>2, <1>3, <1>4, <1>5, <1>6, <1>7, <1>8, <1>9, <1>10, <1>11, <1>12,
     <1>13, <1>14, <1>15, <1>16, <1>17, <1>18, <1>19, <1>20, <1>21, <1>22, <1>23
  DEF Next, Command, Operation, Failure

\* What every step leaves alone, by the operation that it leads to: the lemmas
\* below look closer at the other steps only.
LEMMA QuietSteps ==
  /\ Edit => at' = "idle" /\ goal' = 0 /\ touched' /\
       UNCHANGED <<exists, dirs, log, current, snaps>>
  /\ \A b \in Branch : InitStart(b) => at' = "initDirs" /\ goal' = 0 /\
       UNCHANGED <<dirs, log, current, snaps, disk, touched>>
  /\ \A b \in Branch : CreateStart(b) => at' = "mkdir" /\ goal' = 0 /\
       UNCHANGED <<repoVars, touched>>
  /\ \A b \in Branch : DeleteStart(b) => at' = "confirm" /\ goal' = 0 /\
       UNCHANGED <<repoVars, touched>>
  /\ \A b \in Branch : SwitchStart(b) => at' \in {"load", "publish"} /\
       UNCHANGED <<repoVars, touched>>
  /\ \A c \in Commit : RevertStart(c) => at' = "load" /\
       UNCHANGED <<repoVars, touched>>
  /\ CommitStart => at' = "record" /\ goal' = 0 /\
       UNCHANGED <<exists, dirs, log, current, disk, touched>>
  /\ InitDirs => at' = "initDirs" /\
       UNCHANGED <<exists, log, current, snaps, disk, goal, touched>>
  /\ CreateParents => at' = "mkdir" /\
       UNCHANGED <<exists, log, current, snaps, disk, goal, touched>>
  /\ InitFile => at' \in {"idle", "initDirs"} /\
       UNCHANGED <<exists, dirs, snaps, disk, goal, touched>>
  /\ CreateMkdir => at' \in {"idle", "write"} /\ (at' = "idle" => outcome' # "ok") /\
       UNCHANGED <<exists, log, current, snaps, disk, goal, touched>>
  /\ CreateWrite => at' = "idle" /\
       UNCHANGED <<exists, dirs, current, snaps, disk, goal, touched>>
  /\ DeleteDecline => at' = "idle" /\ UNCHANGED <<repoVars, goal, touched>>
  /\ DeleteLog => at' = "rmdir" /\
       UNCHANGED <<exists, dirs, current, snaps, disk, goal, touched>>
  /\ DeleteDir => at' = "idle" /\
       UNCHANGED <<exists, log, current, snaps, disk, goal, touched>>
  /\ Load => at' = "clear" /\ touched' /\ UNCHANGED <<repoVars, goal>>
  /\ ClearFile => at' = "clear" /\
       UNCHANGED <<exists, dirs, log, current, snaps, goal, touched>>
  /\ Cleared => at' = "restore" /\ UNCHANGED <<repoVars, goal, touched>>
  /\ RestoreFile => at' = "restore" /\
       UNCHANGED <<exists, dirs, log, current, snaps, goal, touched>>
  /\ RestoreBlocked => at' = "idle" /\ outcome' # "ok" /\
       UNCHANGED <<repoVars, goal, touched>>
  /\ Restored => at' \in {"idle", "publish"} /\ UNCHANGED <<repoVars, goal>>
  /\ PublishBranch => at' = "idle" /\
       UNCHANGED <<exists, dirs, log, snaps, disk, goal>>
  /\ Record => at' = "idle" /\
       UNCHANGED <<exists, dirs, current, snaps, disk, goal>>
  /\ InitUndo => at' = "idle" /\ outcome' # "ok" /\
       UNCHANGED <<snaps, disk, goal, touched>>
  /\ CreateUndo => at' = "idle" /\ outcome' # "ok" /\
       UNCHANGED <<exists, current, snaps, disk, goal, touched>>
  /\ Interrupt => at' = "idle" /\ outcome' # "ok" /\
       UNCHANGED <<repoVars, goal, touched>>
  /\ InterruptFile => at' = "idle" /\ outcome' # "ok" /\
       UNCHANGED <<exists, dirs, log, current, snaps, goal, touched>>
  /\ InterruptPublish => at' = "idle" /\ outcome' # "ok" /\
       UNCHANGED <<exists, dirs, log, snaps, disk, goal, touched>>
  /\ KillCreate => at' = "idle" /\ outcome' # "ok" /\
       UNCHANGED <<exists, dirs, current, snaps, disk, goal, touched>>
  /\ KillRecord => at' = "idle" /\ outcome' # "ok" /\
       UNCHANGED <<exists, dirs, log, current, snaps, disk, goal, touched>>
<1> USE DEF Start, Stop, Goto, MakeDir, repoVars
<1>1. QED
  BY DEF Edit, InitStart, CreateStart, DeleteStart, SwitchStart, RevertStart,
     CommitStart, InitDirs, CreateParents, InitFile, CreateMkdir, CreateWrite,
     DeleteDecline, DeleteLog, DeleteDir, Load, ClearFile, Cleared, RestoreFile,
     RestoreBlocked, Restored, PublishBranch, Record, InitUndo, CreateUndo,
     Interrupt, InterruptFile, InterruptPublish, KillCreate, KillRecord

LEMMA DirsStep == Inv /\ [Next]_vars => DirsInv'
<1> SUFFICES ASSUME Inv, [Next]_vars PROVE DirsInv'
  OBVIOUS
<1> USE DEF DirsInv, HasLog
<1>0. TypeOK /\ DirsInv /\ CreateInv /\ DeleteInv /\ IdsInv
  BY DEF Inv
<1>1. CASE UNCHANGED <<dirs, log>>
  BY <1>0, <1>1
<1>2. CASE InitDirs \/ CreateParents
  BY <1>0, <1>2 DEF InitDirs, CreateParents, MakeDir
<1>3. CASE InitFile
  BY <1>0, <1>3 DEF InitFile, TypeOK
<1>4. CASE InitUndo
  BY <1>4 DEF InitUndo
<1>5. CASE CreateMkdir
  BY <1>0, <1>5 DEF CreateMkdir
<1>6. CASE CreateWrite \/ KillCreate
  BY <1>0, <1>6 DEF CreateWrite, KillCreate, CreateInv, TypeOK
<1>7. CASE CreateUndo
  BY <1>0, <1>7 DEF CreateUndo, CreateInv, TypeOK
<1>8. CASE DeleteLog
  BY <1>0, <1>8 DEF DeleteLog, TypeOK
<1>9. CASE DeleteDir
  BY <1>0, <1>9 DEF DeleteDir, DeleteInv
<1>10. CASE Record
  BY <1>0, <1>10 DEF Record, IdsInv, TypeOK
<1> QED
  BY <1>1, <1>2, <1>3, <1>4, <1>5, <1>6, <1>7, <1>8, <1>9, <1>10, QuietSteps
  DEF Next, Command, Operation, Failure, vars, repoVars

LEMMA InitStep == Inv /\ [Next]_vars => InitInv'
<1> SUFFICES ASSUME Inv, [Next]_vars PROVE InitInv'
  OBVIOUS
<1> USE DEF InitInv, HasLog
<1>0. TypeOK /\ InitInv /\ CreateInv /\ IdsInv /\ RestoreInv
  BY DEF Inv
<1>1. CASE UNCHANGED <<exists, dirs, log, current>> /\ at' # "initDirs"
  BY <1>0, <1>1
<1>2. ASSUME NEW b \in Branch, InitStart(b) PROVE InitInv'
  BY <1>0, <1>2 DEF InitStart
<1>3. CASE InitDirs
  BY <1>0, <1>3 DEF InitDirs, MakeDir
<1>4. CASE InitFile
  BY <1>0, <1>4 DEF InitFile, Stop, Goto, TypeOK
<1>5. CASE InitUndo
  BY <1>5 DEF InitUndo, Stop
<1>6. CASE CreateParents \/ CreateMkdir
  BY <1>0, <1>6 DEF CreateParents, MakeDir, CreateMkdir, CreateInv, Stop, Goto
<1>7. CASE CreateWrite \/ CreateUndo \/ KillCreate
  BY <1>0, <1>7 DEF CreateWrite, CreateUndo, KillCreate, CreateInv, Stop
<1>8. CASE DeleteLog
  BY <1>0, <1>8 DEF DeleteLog, Goto, TypeOK
<1>9. CASE DeleteDir
  BY <1>0, <1>9 DEF DeleteDir, Stop
<1>10. CASE PublishBranch
  BY <1>0, <1>10 DEF PublishBranch, Stop, RestoreInv, TypeOK, HasTip
<1>11. CASE Record
  BY <1>0, <1>11 DEF Record, Stop, IdsInv, TypeOK
<1>12. CASE InterruptPublish
  BY <1>0, <1>12 DEF InterruptPublish, Stop
<1>13. CASE UNCHANGED vars
  BY <1>0, <1>13 DEF vars
<1> QED
  BY <1>1, <1>2, <1>3, <1>4, <1>5, <1>6, <1>7, <1>8, <1>9, <1>10, <1>11, <1>12,
     <1>13, QuietSteps
  DEF Next, Command, Operation, Failure, vars, repoVars

LEMMA CreateStep == Inv /\ [Next]_vars => CreateInv'
<1> SUFFICES ASSUME Inv, [Next]_vars PROVE CreateInv'
  OBVIOUS
<1> USE DEF CreateInv, HasLog, HasTip, FreeAbove
<1>0. TypeOK /\ DirsInv /\ InitInv /\ CreateInv
  BY DEF Inv
<1>1. CASE at' \notin {"mkdir", "write"}
  BY <1>1
<1>2. ASSUME NEW b \in Branch, CreateStart(b) PROVE CreateInv'
  BY <1>0, <1>2 DEF CreateStart, Start, repoVars, InitInv
<1>3. CASE CreateParents
  BY <1>0, <1>3 DEF CreateParents, MakeDir
<1>4. CASE CreateMkdir
  <2>1. CASE arg \in dirs
    BY <1>0, <1>4, <2>1 DEF CreateMkdir, Stop
  <2>2. CASE arg \notin dirs
    BY <1>0, <1>4, <2>2, NameAssumption DEF CreateMkdir, Goto, DirsInv
  <2> QED
    BY <2>1, <2>2
<1>5. CASE UNCHANGED vars
  BY <1>0, <1>5 DEF vars
<1> QED
  BY <1>1, <1>2, <1>3, <1>4, <1>5, QuietSteps
  DEF Next, Command, Operation, Failure, vars, repoVars

LEMMA DeleteStep == Inv /\ [Next]_vars => DeleteInv'
<1> SUFFICES ASSUME Inv, [Next]_vars PROVE DeleteInv'
  OBVIOUS
<1> USE DEF DeleteInv, HasLog
<1>0. TypeOK /\ DeleteInv
  BY DEF Inv
<1>1. CASE at' \notin {"confirm", "rmdir"}
  BY <1>1
<1>2. ASSUME NEW b \in Branch, DeleteStart(b) PROVE DeleteInv'
  BY <1>2 DEF DeleteStart, Start, repoVars
<1>3. CASE DeleteLog
  BY <1>0, <1>3 DEF DeleteLog, Goto, TypeOK
<1>4. CASE UNCHANGED vars
  BY <1>0, <1>4 DEF vars
<1> QED
  BY <1>1, <1>2, <1>3, <1>4, QuietSteps
  DEF Next, Command, Operation, Failure, vars, repoVars

\* What the log of the active branch is, and that its last commit was made.
LEMMA ActiveFacts ==
  ASSUME TypeOK, IdsInv, NEW b \in Branch, HasTip(b)
  PROVE  /\ log[b] \in Seq(Commit)
         /\ Tip(b) \in DOMAIN snaps
         /\ snaps[Tip(b)] \in Snapshot
<1>1. log[b] \in Seq(Commit) /\ Len(log[b]) \in DOMAIN log[b]
  BY LogFacts DEF HasTip
<1>2. Tip(b) \in DOMAIN snaps
  BY <1>1 DEF IdsInv, HasTip, Tip
<1> QED
  BY <1>1, <1>2 DEF TypeOK

LEMMA IdsStep == Inv /\ [Next]_vars => IdsInv'
<1> SUFFICES ASSUME Inv, [Next]_vars PROVE IdsInv'
  OBVIOUS
<1> USE DEF HasLog
<1>0. TypeOK /\ InitInv /\ CreateInv /\ IdsInv
  BY DEF Inv
<1>1. CASE UNCHANGED <<log, snaps>> /\ at' # "record"
  BY <1>0, <1>1 DEF IdsInv
<1>2. CASE CommitStart
  <2>1. /\ Len(snaps) \in Nat
        /\ DOMAIN snaps = 1..Len(snaps)
        /\ snaps' = Append(snaps, Files) /\ Len(snaps') = Len(snaps) + 1
        /\ DOMAIN snaps' = 1..Len(snaps) + 1
        /\ snaps'[Len(snaps')] = Files
    BY <1>0, <1>2, FilesFacts DEF CommitStart, TypeOK
  <2>2. Files' = Files
    BY <1>2 DEF CommitStart, Files
  <2>3. \A b \in Branch : HasLog(b) =>
          \A i \in DOMAIN log[b] : log[b][i] \in DOMAIN snaps
    BY <1>0 DEF IdsInv
  <2>4. /\ at' = "record" /\ log' = log /\ current' = current
        /\ current # NoBranch /\ HasLog(current)
        /\ buf' = Append(log[current], Len(snaps) + 1)
    BY <1>2 DEF CommitStart
  <2>5. \A b \in Branch : HasLog(b) =>
          \A i \in DOMAIN log[b] : log[b][i] # Len(snaps')
    BY <2>1, <2>3
  <2>6. \A b \in Branch : HasLog(b) =>
          \A i \in DOMAIN log[b] : log[b][i] \in DOMAIN snaps'
    BY <2>1, <2>3
  <2>7. Len(snaps') \in DOMAIN snaps' /\ snaps'[Len(snaps')] = Files'
    BY <2>1, <2>2
  <2> QED
    BY <2>1, <2>4, <2>5, <2>6, <2>7 DEF IdsInv
<1>3. CASE InitFile
  BY <1>0, <1>3 DEF InitFile, Stop, Goto, TypeOK, IdsInv, InitInv
<1>4. CASE InitUndo
  BY <1>4 DEF InitUndo, Stop, IdsInv
<1>5. CASE CreateWrite
  BY <1>0, <1>5 DEF CreateWrite, Stop, TypeOK, IdsInv, CreateInv, HasTip
<1>6. CASE CreateUndo \/ KillCreate \/ DeleteLog
  BY <1>0, <1>6 DEF CreateUndo, KillCreate, DeleteLog, Stop, Goto, TypeOK, IdsInv
<1>7. CASE Record
  <2>1. /\ current \in Branch /\ log[current] \in Seq(Commit)
        /\ buf = Append(log[current], Len(snaps))
        /\ Len(snaps) \in DOMAIN snaps
        /\ at' = "idle" /\ snaps' = snaps
        /\ log' = [log EXCEPT ![current] = buf]
    BY <1>0, <1>7, LogFacts DEF Record, Stop, TypeOK, IdsInv
  <2>2. log[current] # NoLog
    BY <2>1, CommitFacts
  <2>3. \A i \in DOMAIN log[current] : log[current][i] \in DOMAIN snaps
    BY <1>0, <2>1, <2>2 DEF IdsInv
  <2>4. \A i \in DOMAIN buf : buf[i] \in DOMAIN snaps
    BY <2>1, <2>3
  <2>5. ASSUME NEW b \in Branch, log'[b] # NoLog
        PROVE  \A i \in DOMAIN log'[b] : log'[b][i] \in DOMAIN snaps
    <3>1. log'[b] = IF b = current THEN buf ELSE log[b]
      BY <1>0, <2>1 DEF TypeOK
    <3> QED
      BY <1>0, <2>4, <2>5, <3>1 DEF IdsInv
  <2> QED
    BY <2>1, <2>5 DEF IdsInv
<1>8. CASE UNCHANGED vars
  BY <1>0, <1>8 DEF vars, IdsInv, Files
<1> QED
  BY <1>1, <1>2, <1>3, <1>4, <1>5, <1>6, <1>7, <1>8, QuietSteps
  DEF Next, Command, Operation, Failure, vars, repoVars

LEMMA FirstStep == Inv /\ [Next]_vars => FirstInv'
<1> SUFFICES ASSUME Inv, [Next]_vars PROVE FirstInv'
  OBVIOUS
<1> USE DEF FirstInv, HasLog, HasTip
<1>0. TypeOK /\ InitInv /\ CreateInv /\ DeleteInv /\ IdsInv /\ RestoreInv /\ FirstInv
  BY DEF Inv
<1>1. CASE UNCHANGED <<log, current>>
  BY <1>0, <1>1
<1>2. CASE InitFile
  BY <1>0, <1>2 DEF InitFile, InitInv, TypeOK
<1>3. CASE InitUndo \/ InterruptPublish
  BY <1>3 DEF InitUndo, InterruptPublish
<1>4. CASE CreateWrite \/ CreateUndo \/ KillCreate
  BY <1>0, <1>4 DEF CreateWrite, CreateUndo, KillCreate, CreateInv, TypeOK
<1>5. CASE DeleteLog
  BY <1>0, <1>5 DEF DeleteLog, DeleteInv, TypeOK
<1>6. CASE PublishBranch
  BY <1>0, <1>6 DEF PublishBranch, RestoreInv
<1>7. CASE Record
  <2>1. current \in Branch /\ log[current] \in Seq(Commit)
    BY <1>0, <1>7, LogFacts DEF Record, IdsInv, TypeOK
  <2>2. buf # <<>> /\ log'[current] = buf /\ current' = current
    BY <1>0, <1>7, <2>1 DEF Record, IdsInv, TypeOK
  <2> QED
    BY <2>2
<1> QED
  BY <1>1, <1>2, <1>3, <1>4, <1>5, <1>6, <1>7, QuietSteps
  DEF Next, Command, Operation, Failure, vars, repoVars

LEMMA NestingStep == Inv /\ [Next]_vars => NoNesting'
<1> SUFFICES ASSUME Inv, [Next]_vars PROVE NoNesting'
  OBVIOUS
<1> USE DEF NoNesting, HasLog
<1>0. TypeOK /\ DirsInv /\ InitInv /\ CreateInv /\ IdsInv /\ NoNesting
  BY DEF Inv
<1>1. CASE UNCHANGED log
  BY <1>0, <1>1
<1>2. CASE InitFile
  BY <1>0, <1>2, NameAssumption DEF InitFile, InitInv, TypeOK
<1>3. CASE InitUndo
  BY <1>3 DEF InitUndo
<1>4. CASE CreateWrite \/ KillCreate
  BY <1>0, <1>4, NameAssumption
  DEF CreateWrite, KillCreate, CreateInv, FreeAbove, DirsInv, TypeOK
<1>5. CASE CreateUndo \/ DeleteLog
  BY <1>0, <1>5 DEF CreateUndo, DeleteLog, TypeOK
<1>6. CASE Record
  BY <1>0, <1>6 DEF Record, IdsInv, TypeOK
<1> QED
  BY <1>1, <1>2, <1>3, <1>4, <1>5, <1>6, QuietSteps
  DEF Next, Command, Operation, Failure, vars, repoVars

\* When nothing is left to be removed or written, the files are the snapshot's.
LEMMA RestoredFiles == TypeOK /\ RestoreInv /\ Restored => Files = snaps[goal]
<1> SUFFICES ASSUME TypeOK, RestoreInv, Restored PROVE Files = snaps[goal]
  OBVIOUS
<1>1. goal \in DOMAIN snaps /\ at = "restore" /\ todo = {}
  BY DEF Restored, RestoreInv
<1>2. snaps[goal] \in Snapshot
  BY <1>1 DEF TypeOK
<1>3. ASSUME NEW n \in Node PROVE Files[n] = snaps[goal][n]
  BY <1>1, <1>2, TreeAssumption DEF RestoreInv, Files, TypeOK, Disk, Snapshot
<1> QED
  BY <1>2, <1>3 DEF Files, Snapshot

LEMMA RestoreStep == Inv /\ [Next]_vars => RestoreInv'
<1> SUFFICES ASSUME Inv, [Next]_vars PROVE RestoreInv'
  OBVIOUS
<1>0. TypeOK /\ IdsInv /\ RestoreInv
  BY DEF Inv
<1>1. CASE at' = "idle"
  BY <1>1 DEF RestoreInv
<1>2. CASE /\ at' \in {"initDirs", "mkdir", "write", "confirm", "rmdir", "record"}
           /\ goal' = 0
  BY <1>2 DEF RestoreInv
<1>3. CASE InitDirs \/ CreateParents \/ InitFile \/ CreateMkdir \/ DeleteLog
  <2>1. goal' = goal
    BY <1>3, QuietSteps
  <2>2. goal = 0
    BY <1>0, <1>3
    DEF InitDirs, CreateParents, InitFile, CreateMkdir, DeleteLog, RestoreInv
  <2>3. at' \in {"idle", "initDirs", "mkdir", "write", "rmdir"}
    BY <1>3, QuietSteps
  <2> QED
    BY <2>1, <2>2, <2>3, <1>1, <1>2
<1>4. ASSUME NEW b \in Branch, SwitchStart(b) PROVE RestoreInv'
  <2>1. Tip(b) \in DOMAIN snaps /\ Tip(b) \in Commit
    BY <1>0, <1>4, ActiveFacts, LogFacts DEF SwitchStart
  <2>2. /\ arg' = b /\ b # NoBranch /\ current' = current /\ log' = log /\ snaps' = snaps
        /\ HasTip(b) /\ current # NoBranch
        /\ at' = (IF SameTip(b) THEN "publish" ELSE "load")
        /\ goal' = (IF SameTip(b) THEN 0 ELSE Tip(b))
    BY <1>4, NameAssumption DEF SwitchStart, Start, repoVars
  <2>3. CASE SameTip(b)
    BY <2>2, <2>3 DEF RestoreInv, SameTip, HasTip, HasLog, Tip
  <2>4. CASE ~ SameTip(b)
    BY <2>1, <2>2, <2>4 DEF RestoreInv, HasTip, HasLog, Tip
  <2> QED
    BY <2>3, <2>4
<1>5. ASSUME NEW c \in Commit, RevertStart(c) PROVE RestoreInv'
  BY <1>5 DEF RevertStart, Start, RestoreInv, repoVars
<1>6. CASE Load
  <2>1. goal \in DOMAIN snaps
    BY <1>0, <1>6 DEF Load, RestoreInv
  <2>2. todo' = {n \in Node : Files[n] # None /\ snaps[goal][n] = None}
    BY <1>6 DEF Load, Paths
  <2>3. \A n \in Node : disk[n] \in Content /\ snaps[goal][n] = None => n \in todo'
    BY <2>2, TreeAssumption DEF Files
  <2> QED
    BY <1>0, <1>6, <2>1, <2>2, <2>3
    DEF Load, Goto, repoVars, RestoreInv, HasTip, HasLog, Tip
<1>7. CASE ClearFile
  BY <1>0, <1>7, TreeAssumption
  DEF ClearFile, Goto, RestoreInv, HasTip, HasLog, Tip, TypeOK, Disk
<1>8. CASE Cleared
  <2>1. todo' = {n \in Node : snaps[goal][n] # None}
    BY <1>8 DEF Cleared, Paths
  <2> QED
    BY <1>0, <1>8, <2>1 DEF Cleared, Goto, repoVars, RestoreInv, HasTip, HasLog, Tip
<1>9. CASE RestoreFile
  <2>1. PICK n \in todo :
          /\ disk' = [WithParents(n) EXCEPT ![n] = snaps[goal][n]]
          /\ todo' = todo \ {n}
    BY <1>9 DEF RestoreFile
  <2>2. n \in Node /\ snaps[goal][n] # None
    BY <1>0, <1>9, <2>1 DEF RestoreFile, RestoreInv, TypeOK
  <2>3. disk'[n] = snaps[goal][n]
    BY <2>1, <2>2 DEF WithParents
  <2>4. ASSUME NEW m \in Node, m # n
        PROVE  disk'[m] = IF m \in Up[n] /\ disk[m] = None THEN Dir ELSE disk[m]
    BY <2>1, <2>2, <2>4 DEF WithParents
  <2>5. ASSUME NEW m \in Node
        PROVE  /\ m \in todo' => snaps[goal][m] # None
               /\ snaps[goal][m] = None => disk'[m] \notin Content
               /\ snaps[goal][m] # None /\ m \notin todo' => disk'[m] = snaps[goal][m]
    BY <1>0, <1>9, <2>1, <2>2, <2>3, <2>4, TreeAssumption DEF RestoreFile, RestoreInv
  <2> QED
    BY <1>0, <1>9, <2>5 DEF RestoreFile, Goto, RestoreInv, HasTip, HasLog, Tip
<1>10. CASE Restored /\ at' # "idle"
  <2>1. /\ arg # NoBranch /\ at' = "publish" /\ goal \in DOMAIN snaps
        /\ UNCHANGED <<repoVars, arg, goal>>
        /\ HasTip(arg) /\ (goal # 0 => goal = Tip(arg))
    BY <1>0, <1>10 DEF Restored, Goto, Stop, RestoreInv
  <2>2. Files = snaps[goal]
    BY <1>0, <1>10, RestoredFiles
  <2>3. goal # 0
    BY <1>0, <2>1 DEF TypeOK
  <2> QED
    BY <2>1, <2>2, <2>3 DEF RestoreInv, repoVars, Files, HasTip, HasLog, Tip
<1>11. CASE UNCHANGED vars
  BY <1>0, <1>11 DEF vars, RestoreInv, HasTip, HasLog, Tip, Files, SameTip
<1> QED
  BY <1>1, <1>2, <1>3, <1>4, <1>5, <1>6, <1>7, <1>8, <1>9, <1>10, <1>11, QuietSteps
  DEF Next, Command, Operation, Failure

LEMMA TipStep == Inv /\ [Next]_vars => TipInv'
<1> SUFFICES ASSUME Inv, [Next]_vars PROVE TipInv'
  OBVIOUS
<1> USE DEF TipInv, HasTip, HasLog, Tip, Files
<1>0. /\ TypeOK /\ InitInv /\ CreateInv /\ DeleteInv /\ IdsInv /\ RestoreInv
      /\ TipInv
  BY DEF Inv
<1>1. CASE touched' = TRUE
  BY <1>1
<1>2. CASE UNCHANGED <<log, current, snaps, disk, touched>>
  BY <1>0, <1>2
<1>3. CASE CommitStart
  <2>1. \A b \in Branch : HasTip(b) => Tip(b) \in DOMAIN snaps
    BY <1>0, ActiveFacts
  <2>2. \A i \in DOMAIN snaps : snaps'[i] = snaps[i]
    BY <1>0, <1>3, FilesFacts DEF CommitStart, TypeOK
  <2>3. UNCHANGED <<log, current, disk, touched>> /\ current \in Branch
    BY <1>0, <1>3 DEF CommitStart, TypeOK
  <2> QED
    BY <1>0, <2>1, <2>2, <2>3
<1>4. CASE InitFile
  BY <1>0, <1>4 DEF InitFile, InitInv, TypeOK
<1>5. CASE InitUndo \/ InterruptPublish
  BY <1>5 DEF InitUndo, InterruptPublish
<1>6. CASE CreateWrite \/ CreateUndo \/ KillCreate
  <2>1. arg # current /\ UNCHANGED <<current, snaps, disk, touched>>
    BY <1>0, <1>6 DEF CreateWrite, CreateUndo, KillCreate, CreateInv
  <2>2. current # NoBranch => log'[current] = log[current]
    BY <1>0, <1>6, <2>1 DEF CreateWrite, CreateUndo, KillCreate, TypeOK
  <2> QED
    BY <1>0, <2>1, <2>2
<1>7. CASE DeleteLog
  <2>1. arg # current /\ UNCHANGED <<current, snaps, disk, touched>>
    BY <1>0, <1>7 DEF DeleteLog, DeleteInv
  <2>2. current # NoBranch => log'[current] = log[current]
    BY <1>0, <1>7, <2>1 DEF DeleteLog, TypeOK
  <2> QED
    BY <1>0, <2>1, <2>2
<1>8. CASE ClearFile \/ RestoreFile \/ InterruptFile
  <2>1. touched = TRUE
    BY <1>0, <1>8
    DEF ClearFile, RestoreFile, InterruptFile, RestoreInv, TypeOK
  <2> QED
    BY <1>1, <1>8, <2>1, QuietSteps
<1>9. CASE Restored
  <2>1. Files = snaps[goal] /\ UNCHANGED repoVars
    BY <1>0, <1>9, RestoredFiles, QuietSteps
  <2>2. CASE touched' = touched
    BY <1>2, <2>1, <2>2 DEF repoVars
  <2>3. CASE touched' = ~ (current # NoBranch /\ HasTip(current) /\ Tip(current) = goal)
    BY <2>1, <2>3 DEF repoVars
  <2> QED
    BY <1>9, <2>2, <2>3 DEF Restored
<1>10. CASE PublishBranch
  <2>1. /\ current' = arg /\ UNCHANGED <<log, snaps, disk>>
        /\ arg # NoBranch /\ HasTip(arg)
        /\ touched' = (touched /\ goal = 0)
    BY <1>0, <1>10 DEF PublishBranch, RestoreInv
  <2>2. CASE goal = 0
    BY <1>0, <1>10, <2>1, <2>2 DEF PublishBranch, RestoreInv, SameTip
  <2>3. CASE goal # 0
    BY <1>0, <1>10, <2>1, <2>3 DEF PublishBranch, RestoreInv
  <2> QED
    BY <2>2, <2>3
<1>11. CASE Record
  <2>1. /\ current \in Branch /\ log[current] \in Seq(Commit)
        /\ buf = Append(log[current], Len(snaps))
        /\ Len(snaps) \in Nat /\ snaps[Len(snaps)] = Files
        /\ UNCHANGED <<current, snaps, disk>>
        /\ log' = [log EXCEPT ![current] = buf]
    BY <1>0, <1>11, LogFacts DEF Record, TypeOK, IdsInv
  <2>2. buf[Len(buf)] = Len(snaps)
    BY <2>1
  <2>3. log'[current] = buf
    BY <1>0, <2>1 DEF TypeOK
  <2> QED
    BY <2>1, <2>2, <2>3
<1>12. CASE UNCHANGED vars
  BY <1>2, <1>12 DEF vars
<1> QED
  BY <1>1, <1>2, <1>3, <1>4, <1>5, <1>6, <1>7, <1>8, <1>9, <1>10, <1>11, <1>12,
     QuietSteps
  DEF Next, Command, Operation, Failure, repoVars

LEMMA ExactStep == Inv /\ [Next]_vars => RestoreExact'
<1> SUFFICES ASSUME Inv, [Next]_vars PROVE RestoreExact'
  OBVIOUS
<1> USE DEF RestoreExact, Files
<1>0. TypeOK /\ RestoreInv /\ RestoreExact
  BY DEF Inv
<1>1. CASE at' # "idle" \/ outcome' # "ok" \/ goal' = 0
  BY <1>1
<1>2. CASE InitFile \/ CreateWrite \/ DeleteDecline \/ DeleteDir \/ Record
  <2>1. goal = 0
    BY <1>0, <1>2
    DEF InitFile, CreateWrite, DeleteDecline, DeleteDir, Record, RestoreInv
  <2> QED
    BY <1>1, <1>2, <2>1, QuietSteps
<1>3. CASE Restored
  BY <1>0, <1>3, RestoredFiles, QuietSteps DEF repoVars
<1>4. CASE PublishBranch
  BY <1>0, <1>4, QuietSteps DEF PublishBranch, RestoreInv
<1>5. CASE UNCHANGED vars
  BY <1>0, <1>5 DEF vars
<1> QED
  BY <1>1, <1>2, <1>3, <1>4, <1>5, QuietSteps
  DEF Next, Command, Operation, Failure

-----------------------------------------------------------------------------
\* The invariant holds after every step, failures and kills included.
THEOREM InvHolds == Spec => []Inv
<1>1. Inv /\ [Next]_vars => Inv'
  BY TypeStep, DirsStep, InitStep, CreateStep, DeleteStep, IdsStep, FirstStep,
     RestoreStep, TipStep, ExactStep, NestingStep DEF Inv
<1> QED
  BY InitialInv, <1>1, PTL DEF Spec

\* The variables keep their types.
THEOREM TypeCorrect == Spec => []TypeOK
BY InvHolds, PTL DEF Inv

\* A switch or revert that ends well leaves exactly the files of its snapshot.
THEOREM RestoreExactHolds == Spec => []RestoreExact
BY InvHolds, PTL DEF Inv

\* Untouched files are those of the active branch's tip.
THEOREM UntouchedIsTipHolds == Spec => []UntouchedIsTip
<1>1. Inv => UntouchedIsTip
  BY DEF Inv, TipInv, UntouchedIsTip
<1> QED
  BY InvHolds, <1>1, PTL

\* No branch lies in the directory of another.
THEOREM NoNestingHolds == Spec => []NoNesting
BY InvHolds, PTL DEF Inv

-----------------------------------------------------------------------------
(* The refinement: every step is a step of the map of histories or a stutter. *)

\* The history of a branch, empty for one that has no log.
History == [b \in Branch |-> IF HasLog(b) THEN log[b] ELSE <<>>]

\* A branch is in the map when it has a tip.
LEMMA NamedFacts ==
  ASSUME NEW b \in Branch
  PROVE  BM!Named(b) <=> HasTip(b)
BY DEF BM!Named, HasTip

LEMMA MapInitial == Init => BM!MapInit
BY DEF Init, BM!MapInit, HasLog

LEMMA MapStep == Inv /\ [Next]_vars => [BM!MapNext]_(BM!mapVars)
<1> SUFFICES ASSUME Inv, [Next]_vars PROVE [BM!MapNext]_(BM!mapVars)
  OBVIOUS
<1>0. /\ TypeOK /\ DirsInv /\ InitInv /\ CreateInv /\ DeleteInv /\ IdsInv
      /\ FirstInv /\ RestoreInv
  BY DEF Inv
<1>1. CASE History' = History /\ current' = current
  BY <1>1 DEF BM!mapVars, History
<1>2. CASE UNCHANGED <<log, current>>
  BY <1>1, <1>2 DEF History, HasLog
<1>3. CASE InitFile
  <2>1. arg \in Branch /\ \A b \in Branch : ~ HasTip(b)
    BY <1>0, <1>3 DEF InitFile, InitInv, HasTip
  <2>2. CASE current = NoBranch /\ current' = arg /\ UNCHANGED log
    <3>1. BM!Begin(arg)
      BY <2>1, <2>2, NamedFacts DEF BM!Begin, HasLog
    <3> QED
      BY <2>1, <3>1 DEF BM!MapNext
  <2>3. CASE ~ HasLog(arg) /\ log' = [log EXCEPT ![arg] = <<>>] /\ UNCHANGED current
    <3>1. History' = History
      BY <1>0, <2>1, <2>3 DEF History, HasLog, TypeOK
    <3> QED
      BY <1>1, <2>3, <3>1
  <2> QED
    BY <1>3, <2>2, <2>3 DEF InitFile
<1>4. CASE InitUndo
  <2>1. History = [b \in Branch |-> <<>>]
    BY <1>0, <1>4 DEF History, InitUndo, InitInv, HasLog
  <2>2. History' = [b \in Branch |-> <<>>] /\ current' = NoBranch
    BY <1>4 DEF History, InitUndo, HasLog
  <2>3. BM!Lose
    BY <2>1, <2>2 DEF BM!Lose, History
  <2> QED
    BY <2>3 DEF BM!MapNext
<1>5. CASE CreateWrite
  <2>1. /\ arg \in Branch /\ current \in Branch /\ ~ HasLog(arg)
        /\ HasTip(current) /\ buf = log[current] /\ current' = current
        /\ log' = [log EXCEPT ![arg] = buf]
    BY <1>0, <1>5 DEF CreateWrite, CreateInv, TypeOK
  <2>2. \A c \in Branch : HasLog(c) => ~ BM!Nested(arg, c)
    BY <1>0, <1>5 DEF CreateWrite, CreateInv, FreeAbove, DirsInv, BM!Nested
  <2>3. log[current] # NoLog
    BY <2>1 DEF HasTip, HasLog
  <2>4. History' = [History EXCEPT ![arg] = History[current]]
    BY <1>0, <2>1, <2>3 DEF History, HasLog, TypeOK
  <2>5. \A c \in Branch : BM!Named(c) => ~ BM!Nested(arg, c)
    BY <2>2, NamedFacts DEF HasTip
  <2>6. BM!Named(current) /\ ~ BM!Named(arg) /\ current # NoBranch
    BY <2>1, NamedFacts, NameAssumption DEF HasTip
  <2>7. PICK b \in Branch : b = arg
    BY <2>1
  <2>8. BM!Fork(b)
    BY <2>1, <2>4, <2>5, <2>6, <2>7 DEF BM!Fork, History
  <2> QED
    BY <2>8 DEF BM!MapNext
<1>6. CASE CreateUndo \/ KillCreate
  <2>1. History' = History
    BY <1>0, <1>6 DEF CreateUndo, KillCreate, CreateInv, History, HasLog, TypeOK
  <2> QED
    BY <1>1, <1>6, <2>1, QuietSteps
<1>7. CASE DeleteLog
  <2>1. /\ arg \in Branch /\ current \notin {NoBranch, arg} /\ current' = current
        /\ log' = [log EXCEPT ![arg] = NoLog]
    BY <1>0, <1>7 DEF DeleteLog, DeleteInv
  <2>2. History' = [History EXCEPT ![arg] = <<>>]
    BY <1>0, <2>1 DEF History, HasLog, TypeOK
  <2>3. CASE BM!Named(arg)
    <3>1. PICK b \in Branch : b = arg
      BY <2>1
    <3>2. BM!Drop(b)
      BY <2>1, <2>2, <2>3, <3>1 DEF BM!Drop, History
    <3> QED
      BY <3>2 DEF BM!MapNext
  <2>4. CASE ~ BM!Named(arg)
    <3>1. History[arg] = <<>>
      BY <2>1, <2>4 DEF BM!Named, History
    <3>2. History' = History
      BY <2>1, <2>2, <3>1 DEF History
    <3> QED
      BY <1>1, <2>1, <3>2
  <2> QED
    BY <2>3, <2>4
<1>8. CASE PublishBranch
  <2>1. arg \in Branch /\ HasTip(arg) /\ current' = arg /\ log' = log
    BY <1>0, <1>8 DEF PublishBranch, RestoreInv, TypeOK
  <2>2. BM!Activate(arg)
    BY <2>1, NamedFacts DEF BM!Activate, HasLog
  <2> QED
    BY <2>1, <2>2 DEF BM!MapNext
<1>9. CASE Record
  <2> DEFINE c == Len(snaps)
  <2>1. /\ current \in Branch /\ current # NoBranch /\ HasLog(current)
        /\ log[current] \in Seq(Commit) /\ current' = current
        /\ log' = [log EXCEPT ![current] = Append(log[current], c)]
    BY <1>0, <1>9, LogFacts DEF Record, IdsInv, TypeOK
  <2>2. c \in Commit
    BY <1>0, <1>9 DEF Record, IdsInv, TypeOK, Commit
  <2>3. History[current] = log[current]
    BY <2>1 DEF History
  <2>4. NoLog # Append(log[current], c)
    BY <2>1, <2>2, CommitFacts
  <2>5. History' = [History EXCEPT ![current] = Append(History[current], c)]
    BY <1>0, <2>1, <2>3, <2>4 DEF History, HasLog, TypeOK
  <2>6. ~ BM!Listed(c)
    <3>1. ASSUME NEW b \in Branch, NEW i \in DOMAIN History[b]
          PROVE  History[b][i] # c
      BY <1>0, <1>9, EmptyFacts DEF Record, IdsInv, History
    <3> QED
      BY <3>1 DEF BM!Listed, History
  <2>7. HasTip(current) \/ \A b \in Branch : ~ HasTip(b)
    BY <1>0, <2>1 DEF FirstInv, HasTip
  <2>8. BM!Named(current) \/ \A b \in Branch : ~ BM!Named(b)
    BY <2>1, <2>7, NamedFacts
  <2>9. PICK k \in Commit : k = c
    BY <2>2
  <2>10. BM!Record(k)
    BY <2>1, <2>5, <2>6, <2>8, <2>9 DEF BM!Record, History
  <2> QED
    BY <2>10 DEF BM!MapNext
<1>10. CASE InterruptPublish
  <2>1. BM!Lose
    BY <1>10 DEF InterruptPublish, BM!Lose, HasLog
  <2> QED
    BY <2>1 DEF BM!MapNext
<1> QED
  BY <1>2, <1>3, <1>4, <1>5, <1>6, <1>7, <1>8, <1>9, <1>10, QuietSteps
  DEF Next, Command, Operation, Failure, vars, repoVars

\* The files, with every kill and failure, implement the map of histories: one
\* branch changes at a time, and no history is ever cut short.
THEOREM Implementation == Spec => ImplementsBranchMap
BY InvHolds, MapInitial, MapStep, PTL DEF Spec, ImplementsBranchMap, BM!MapSpec
\* A branch keeps what it has, in its place, or it is deleted as a whole while
\* it is not the active one.
HistoriesKept ==
  [][\A b \in Branch :
       \/ \A i \in DOMAIN History[b] :
            i \in DOMAIN History[b]' /\ History[b]'[i] = History[b][i]
       \/ current \notin {b, NoBranch} /\ History[b]' = <<>>]_vars

\* No error or kill in any command shortens a history.
THEOREM HistoriesKeptHolds == Spec => HistoriesKept
<1>1. ASSUME Inv, [BM!MapNext]_(BM!mapVars), NEW b \in Branch
      PROVE  \/ \A i \in DOMAIN History[b] :
                  i \in DOMAIN History[b]' /\ History[b]'[i] = History[b][i]
             \/ current \notin {b, NoBranch} /\ History[b]' = <<>>
  <2>1. CASE History' = History
    BY <2>1
  <2>2. CASE \E a \in Branch : BM!Begin(a) \/ BM!Activate(a)
    BY <2>1, <2>2 DEF BM!Begin, BM!Activate, History
  <2>3. ASSUME NEW a \in Branch, BM!Fork(a)
        PROVE  DOMAIN History[b] = {} \/ History'[b] = History[b]
    <3>1. History' = [History EXCEPT ![a] = History[current]]
      BY <2>3 DEF BM!Fork, History
    <3>2. History[a] = <<>>
      BY <2>3 DEF BM!Fork, BM!Named, History
    <3>3. CASE b = a
      BY <3>2, <3>3
    <3>4. CASE b # a
      BY <3>1, <3>4 DEF History
    <3> QED
      BY <3>3, <3>4
  <2>4. ASSUME NEW a \in Branch, BM!Drop(a)
        PROVE  \/ History'[b] = History[b]
               \/ current \notin {b, NoBranch} /\ History'[b] = <<>>
    BY <2>4 DEF BM!Drop, History
  <2>5. ASSUME NEW c \in Commit, BM!Record(c), b = current
        PROVE  History'[b] = Append(History[b], c)
    BY <2>5 DEF BM!Record, History
  <2>6. ASSUME NEW c \in Commit, BM!Record(c), b # current
        PROVE  History'[b] = History[b]
    BY <2>6 DEF BM!Record, History
  <2>7. History[b] \in Seq(Commit)
    BY <1>1, LogFacts DEF Inv, TypeOK, History, HasLog
  <2>8. \A c \in Commit : \A i \in DOMAIN History[b] :
          /\ i \in DOMAIN Append(History[b], c)
          /\ Append(History[b], c)[i] = History[b][i]
    BY <2>7
  <2>9. CASE \E c \in Commit : BM!Record(c)
    BY <2>5, <2>6, <2>8, <2>9
  <2> QED
    BY <1>1, <2>1, <2>2, <2>3, <2>4, <2>9 DEF BM!MapNext, BM!Lose, BM!mapVars, History
<1>2. Inv /\ [Next]_vars =>
        [\A b \in Branch :
           \/ \A i \in DOMAIN History[b] :
                i \in DOMAIN History[b]' /\ History[b]'[i] = History[b][i]
           \/ current \notin {b, NoBranch} /\ History[b]' = <<>>]_vars
  BY <1>1, MapStep
<1> QED
  BY <1>2, InvHolds, PTL DEF Spec, HistoriesKept
=============================================================================
