------------------------------- MODULE Checkout -------------------------------
(***************************************************************************)
(* How a pull replaces the working directory (applyPull and checkClean in  *)
(* src/remote/pull.go): the new snapshot is staged, the old entries are    *)
(* renamed into a backup, the new ones into place, the branch log is       *)
(* replaced last, and a marker says meanwhile where everything is.  Every  *)
(* file operation may fail, the rollback of a failure may fail too, the    *)
(* process may be killed between any two steps, and the user's editor,     *)
(* which knows no lock, may change files until the second check.           *)
(***************************************************************************)
EXTENDS FiniteSets

CONSTANTS
  Name,        \* top-level names of the working directory
  OldEntries,  \* those of the snapshot that is checked out
  NewEntries   \* those of the snapshot that is pulled

ASSUME EntriesAssumption == OldEntries \subseteq Name /\ NewEntries \subseteq Name

VARIABLES
  root,      \* root[n]: what the working directory holds under n
  newDir,    \* the same for the staging directory's new/
  backup,    \* and for its backup/
  stage,     \* the staging directory exists
  marker,    \* .ssc/sync-pending exists
  log,       \* the branch log ends with the "old" or the "new" commit
  pc,        \* how far the pull is
  movedOld,  \* the code's movedOld
  movedNew,  \* the code's movedNew
  broken,    \* rollbackErr # nil
  result,    \* what the command tells the user
  edits      \* history: the names that the editor wrote

vars == <<root, newDir, backup, stage, marker, log, pc, movedOld, movedNew,
          broken, result, edits>>

Content == {"none", "old", "new", "edited"}

PC == {"begin", "fetch", "staged", "checked", "moveOld", "moveNew", "publish",
       "unmark", "undoNew", "undoOld", "undoMark", "cleanup", "done", "dead"}

Nothing == [n \in Name |-> "none"]
OldFiles == [n \in Name |-> IF n \in OldEntries THEN "old" ELSE "none"]
NewFiles == [n \in Name |-> IF n \in NewEntries THEN "new" ELSE "none"]

Init ==
  /\ root = OldFiles
  /\ newDir = Nothing /\ backup = Nothing
  /\ stage = FALSE /\ marker = FALSE
  /\ log = "old"
  /\ pc = "begin"
  /\ movedOld = {} /\ movedNew = {}
  /\ broken = FALSE
  /\ result = "none"
  /\ edits = {}

dirs == <<root, newDir, backup, stage>>
moves == <<movedOld, movedNew, broken>>

-----------------------------------------------------------------------------
\* checkClean: the files are those of the expected snapshot, no more no less.
Clean == root = OldFiles

\* The first check of Pull, before anything is downloaded.
FirstCheck ==
  /\ pc = "begin"
  /\ IF Clean THEN pc' = "fetch" /\ UNCHANGED result
              ELSE pc' = "cleanup" /\ result' = "refused"
  /\ UNCHANGED <<dirs, marker, log, moves, edits>>

\* The graph is downloaded, and the new snapshot and a copy of the old log
\* are written into a fresh staging directory.
Stage ==
  /\ pc = "fetch"
  /\ stage' = TRUE
  /\ newDir' = NewFiles
  /\ pc' = "staged"
  /\ UNCHANGED <<root, backup, marker, log, moves, result, edits>>

\* Mutant: the files are not checked again after the download.
SecondCheckSkipped ==
  /\ pc = "staged"
  /\ pc' = "checked"
  /\ UNCHANGED <<dirs, marker, log, moves, result, edits>>

\* The second check, after the download and right before the swap.
SecondCheck ==
  /\ pc = "staged"
  /\ IF Clean THEN pc' = "checked" /\ UNCHANGED result
              ELSE pc' = "cleanup" /\ result' = "refused"
  /\ UNCHANGED <<dirs, marker, log, moves, edits>>

\* A download, or a write before the marker, fails.
FailEarly ==
  /\ pc \in {"fetch", "staged", "checked"}
  /\ pc' = "cleanup"
  /\ result' = "failed"
  /\ UNCHANGED <<dirs, marker, log, moves, edits>>

WriteMarker ==
  /\ pc = "checked"
  /\ marker' = TRUE
  /\ pc' = "moveOld"
  /\ UNCHANGED <<dirs, log, moves, result, edits>>

\* Mutant: the old entry is removed, not renamed.
MoveOldRemoves(n) ==
  /\ pc = "moveOld"
  /\ n \in OldEntries \ movedOld
  /\ root' = [root EXCEPT ![n] = "none"]
  /\ movedOld' = movedOld \union {n}
  /\ UNCHANGED <<newDir, backup, stage, marker, log, pc, movedNew, broken, result, edits>>

\* An old entry is renamed from the root into the backup.
MoveOld(n) ==
  /\ pc = "moveOld"
  /\ n \in OldEntries \ movedOld
  /\ backup' = [backup EXCEPT ![n] = root[n]]
  /\ root' = [root EXCEPT ![n] = "none"]
  /\ movedOld' = movedOld \union {n}
  /\ UNCHANGED <<newDir, stage, marker, log, pc, movedNew, broken, result, edits>>

\* Mutant: the log is replaced before the new entries are in place.
EndOldPublishes ==
  /\ pc = "moveOld"
  /\ movedOld = OldEntries
  /\ pc' = "moveNew"
  /\ log' = "new"
  /\ UNCHANGED <<dirs, marker, moves, result, edits>>

EndOld ==
  /\ pc = "moveOld"
  /\ movedOld = OldEntries
  /\ pc' = "moveNew"
  /\ UNCHANGED <<dirs, marker, log, moves, result, edits>>

\* A new entry is renamed from the stage into the root.
MoveNew(n) ==
  /\ pc = "moveNew"
  /\ n \in NewEntries \ movedNew
  /\ root' = [root EXCEPT ![n] = newDir[n]]
  /\ newDir' = [newDir EXCEPT ![n] = "none"]
  /\ movedNew' = movedNew \union {n}
  /\ UNCHANGED <<backup, stage, marker, log, pc, movedOld, broken, result, edits>>

EndNew ==
  /\ pc = "moveNew"
  /\ movedNew = NewEntries
  /\ pc' = "publish"
  /\ UNCHANGED <<dirs, marker, log, moves, result, edits>>

\* The new branch log is renamed into place.
PublishLog ==
  /\ pc = "publish"
  /\ log' = "new"
  /\ pc' = "unmark"
  /\ UNCHANGED <<dirs, marker, moves, result, edits>>

\* Mutant: return err where the code says return rollback(err).
FailLateReturns ==
  /\ pc \in {"moveOld", "moveNew", "publish"}
  /\ pc' = "cleanup"
  /\ result' = "failed"
  /\ UNCHANGED <<dirs, marker, log, moves, edits>>

\* A rename, or writing the log, fails: rollback(err).
FailLate ==
  /\ pc \in {"moveOld", "moveNew", "publish"}
  /\ pc' = "undoNew"
  /\ UNCHANGED <<dirs, marker, log, moves, result, edits>>

\* The new entries go back to the stage; one that cannot be is remembered.
UndoNew(n) ==
  /\ pc = "undoNew"
  /\ n \in movedNew
  /\ movedNew' = movedNew \ {n}
  /\ \/ /\ newDir' = [newDir EXCEPT ![n] = root[n]]
        /\ root' = [root EXCEPT ![n] = "none"]
        /\ UNCHANGED broken
     \/ /\ broken' = TRUE
        /\ UNCHANGED <<newDir, root>>
  /\ UNCHANGED <<backup, stage, marker, log, pc, movedOld, result, edits>>

EndUndoNew ==
  /\ pc = "undoNew"
  /\ movedNew = {}
  /\ pc' = "undoOld"
  /\ UNCHANGED <<dirs, marker, log, moves, result, edits>>

\* The old entries come back out of the backup, over a new one that stayed.
UndoOld(n) ==
  /\ pc = "undoOld"
  /\ n \in movedOld
  /\ movedOld' = movedOld \ {n}
  /\ \/ /\ root' = [root EXCEPT ![n] = backup[n]]
        /\ backup' = [backup EXCEPT ![n] = "none"]
        /\ UNCHANGED broken
     \/ /\ broken' = TRUE
        /\ UNCHANGED <<backup, root>>
  /\ UNCHANGED <<newDir, stage, marker, log, pc, movedNew, result, edits>>

\* Mutant: an error during the rollback is forgotten.
EndUndoOldForgets ==
  /\ pc = "undoOld"
  /\ movedOld = {}
  /\ pc' = "undoMark" /\ UNCHANGED result
  /\ UNCHANGED <<dirs, marker, log, moves, edits>>

\* A complete rollback clears the marker; another keeps everything.
EndUndoOld ==
  /\ pc = "undoOld"
  /\ movedOld = {}
  /\ IF broken THEN pc' = "done" /\ result' = "needs recovery"
               ELSE pc' = "undoMark" /\ UNCHANGED result
  /\ UNCHANGED <<dirs, marker, log, moves, edits>>

\* Mutant: when the marker cannot be removed, everything is rolled back again.
UndoMarkRetries ==
  /\ pc = "undoMark"
  /\ \/ marker' = FALSE /\ pc' = "cleanup" /\ result' = "failed"
     \/ UNCHANGED <<marker, result>> /\ pc' = "undoNew"
  /\ UNCHANGED <<dirs, log, moves, edits>>

\* Removing the marker after a rollback, or failing to.
UndoMark ==
  /\ pc = "undoMark"
  /\ \/ marker' = FALSE /\ pc' = "cleanup" /\ result' = "failed"
     \/ UNCHANGED marker /\ pc' = "done" /\ result' = "restored, marker remains"
  /\ UNCHANGED <<dirs, log, moves, edits>>

\* Removing the marker after the log was replaced, or failing to.
Unmark ==
  /\ pc = "unmark"
  /\ \/ marker' = FALSE /\ pc' = "cleanup" /\ result' = "ok"
     \/ UNCHANGED marker /\ pc' = "done" /\ result' = "completed, marker remains"
  /\ UNCHANGED <<dirs, log, moves, edits>>

\* The deferred RemoveAll of the staging directory, unless it is kept.
Cleanup ==
  /\ pc = "cleanup"
  /\ stage' = FALSE /\ newDir' = Nothing /\ backup' = Nothing
  /\ pc' = "done"
  /\ UNCHANGED <<root, marker, log, moves, result, edits>>

Kill ==
  /\ pc \notin {"done", "dead"}
  /\ pc' = "dead"
  /\ UNCHANGED <<dirs, marker, log, moves, result, edits>>

\* The user's editor; docs/client.md:97 asks to keep it away from the swap.
Edit(n) ==
  /\ pc \in {"begin", "fetch", "staged"}
  /\ root' = [root EXCEPT ![n] = "edited"]
  /\ edits' = edits \union {n}
  /\ UNCHANGED <<newDir, backup, stage, marker, log, pc, moves, result>>

PullStep ==
  \/ FirstCheck \/ Stage \/ SecondCheck \/ FailEarly \/ WriteMarker
  \/ \E n \in Name : MoveOld(n) \/ MoveNew(n) \/ UndoNew(n) \/ UndoOld(n)
  \/ EndOld \/ EndNew \/ PublishLog \/ FailLate
  \/ EndUndoNew \/ EndUndoOld \/ UndoMark \/ Unmark \/ Cleanup

Next == PullStep \/ Kill \/ \E n \in Name : Edit(n)

Spec == Init /\ [][Next]_vars

\* The pull goes on as long as it is not killed.
FairSpec == Spec /\ WF_vars(PullStep)

-----------------------------------------------------------------------------
TypeOK ==
  /\ root \in [Name -> Content]
  /\ newDir \in [Name -> Content]
  /\ backup \in [Name -> Content]
  /\ stage \in BOOLEAN /\ marker \in BOOLEAN /\ broken \in BOOLEAN
  /\ log \in {"old", "new"}
  /\ pc \in PC
  /\ movedOld \subseteq OldEntries /\ movedNew \subseteq NewEntries
  /\ edits \subseteq Name

\* The recovery of docs/client.md:107: what is in the backup is put back, an
\* old entry that is not there never left, and the rest came with the pull.
RestoreOld ==
  [n \in Name |-> IF backup[n] # "none" THEN backup[n]
                  ELSE IF n \in OldEntries THEN root[n] ELSE "none"]

\* What the user has: the working directory, or, behind a marker and the old
\* log, what recovery makes of it.
Recovered == IF marker /\ log = "old" THEN RestoreOld ELSE root

\* Behind a marker, wherever the pull was killed and whatever part of its
\* rollback failed, the old snapshot can be put together again from the root
\* and the backup by their names alone, or else, when the log is new, the new
\* snapshot is complete.
Recoverable ==
  marker => Recovered = IF log = "old" THEN OldFiles ELSE NewFiles

\* Without a marker the working directory is that of the log, but for the
\* user's own edits: nothing half-done ever goes unmarked.
UnmarkedIsConsistent ==
  ~ marker =>
    \/ log = "new" /\ root = NewFiles
    \/ /\ log = "old"
       /\ \A n \in Name : root[n] = IF n \in edits THEN "edited" ELSE OldFiles[n]

\* What the user edited before the swap began is still in place, however the
\* pull ends ("never replaces uncommitted files", pull.go:17).
EditsSurvive ==
  \A n \in edits : root[n] = "edited"

\* The directory that the marker names exists as long as the marker does.
MarkerHasBackup == marker => stage

\* What the command reports is what happened.
ResultTruthful ==
  /\ result = "ok" => log = "new" /\ ~ marker
  /\ result \in {"refused", "failed"} => log = "old" /\ ~ marker
  /\ result = "restored, marker remains" => log = "old" /\ root = OldFiles
  /\ result = "completed, marker remains" => log = "new" /\ root = NewFiles

\* A pull ends, rollbacks of rollbacks included.
Ends == <>(pc \in {"done", "dead"})

\* The swap is atomic up to recovery.
Atomic == INSTANCE AtomicCheckout WITH tip <- log, files <- Recovered

\* Killed or rolled back at any step, the pull has either happened or not.
ImplementsAtomic == Atomic!AtomicSpec
=============================================================================
