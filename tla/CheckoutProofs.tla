----------------------------- MODULE CheckoutProofs -----------------------------
(***************************************************************************)
(* Proofs about module Checkout, for every set of entries: wherever a pull *)
(* stops, the working directory is the old snapshot, the new one, or can   *)
(* be put back; and, seen through that recovery, it is AtomicCheckout.     *)
(***************************************************************************)
EXTENDS Checkout, TLAPS

\* What is known while nothing has been touched yet.
BeforeSwap ==
  /\ \A n \in Name : root[n] = IF n \in edits THEN "edited" ELSE OldFiles[n]
  /\ \A n \in Name : backup[n] = "none"
  /\ ~ marker /\ log = "old" /\ ~ broken
  /\ movedOld = {} /\ movedNew = {}
  /\ pc \in {"staged", "checked"} =>
       stage /\ \A n \in Name : newDir[n] = NewFiles[n]
  /\ pc = "checked" => edits = {}

\* While the old entries move out, and then while the new ones move in.
MovingOld ==
  /\ movedNew = {}
  /\ \A n \in Name : newDir[n] = NewFiles[n]
  /\ \A n \in Name : root[n] = IF n \in movedOld THEN "none" ELSE OldFiles[n]
  /\ \A n \in Name : backup[n] = IF n \in movedOld THEN "old" ELSE "none"

MovingNew ==
  /\ movedOld = OldEntries
  /\ \A n \in Name : root[n] = IF n \in movedNew THEN "new" ELSE "none"
  /\ \A n \in Name : newDir[n] = IF n \in movedNew THEN "none" ELSE NewFiles[n]
  /\ \A n \in Name : backup[n] = OldFiles[n]
  /\ pc = "publish" => movedNew = NewEntries

\* While they move back: new entries go only from names whose old entry, if
\* there is one, is in the backup; and unless an error was remembered, what
\* has been handled is as it was.
UndoingNew ==
  /\ \A n \in movedNew : n \in OldEntries => n \in movedOld
  /\ \A n \in Name : backup[n] = IF n \in movedOld THEN "old" ELSE "none"
  /\ \A n \in OldEntries \ movedOld : root[n] = "old"
  /\ ~ broken => \A n \in Name :
       n \notin movedNew /\ n \notin OldEntries \ movedOld => root[n] = "none"

UndoingOld ==
  /\ movedNew = {}
  /\ \A n \in movedOld : backup[n] = "old"
  /\ ~ broken => \A n \in Name :
       /\ n \in movedOld => root[n] = "none"
       /\ n \notin movedOld => root[n] = OldFiles[n] /\ backup[n] = "none"

\* Behind a marker and the old log, every old entry is in the backup or, never
\* moved or moved back, in the root.
OldIsThere ==
  \A n \in Name :
    /\ backup[n] \in {"none", OldFiles[n]}
    /\ n \in OldEntries /\ backup[n] = "none" => root[n] = "old"

Swapping == {"moveOld", "moveNew", "publish", "undoNew", "undoOld", "undoMark"}

PhaseInv ==
  /\ pc \in {"begin", "fetch", "staged", "checked"} => BeforeSwap
  /\ pc \in Swapping => marker /\ log = "old"
  /\ pc \in {"moveOld", "moveNew", "publish"} => ~ broken
  /\ pc = "moveOld" => MovingOld
  /\ pc \in {"moveNew", "publish"} => MovingNew
  /\ pc = "undoNew" => UndoingNew
  /\ pc = "undoOld" => UndoingOld
  /\ pc = "undoMark" => \A n \in Name : root[n] = OldFiles[n]
  /\ pc = "unmark" => marker /\ log = "new"
  /\ pc = "cleanup" => ~ marker

\* What holds at any step, and so also where the pull was killed.
AnywhereInv ==
  /\ marker => stage /\ edits = {}
  /\ marker /\ log = "old" => OldIsThere
  /\ log = "new" => edits = {} /\ \A n \in Name : root[n] = NewFiles[n]
  /\ ~ marker /\ log = "old" =>
       \A n \in Name : root[n] = IF n \in edits THEN "edited" ELSE OldFiles[n]
  /\ result # "none" => pc \in {"cleanup", "done", "dead"}

Inv == TypeOK /\ PhaseInv /\ AnywhereInv /\ ResultTruthful

\* An old snapshot that is all there is what recovery restores.
LEMMA RestoreIsOld == TypeOK /\ OldIsThere => RestoreOld = OldFiles
  BY EntriesAssumption DEF TypeOK, OldIsThere, RestoreOld, OldFiles, Content

\* The invariant above is inductive: it holds initially and every step of the
\* pull, of its failures, of a kill and of the editor preserves it.
THEOREM InvHolds == Spec => []Inv
<1>1. Init => Inv
  BY EntriesAssumption DEF Init, Inv, TypeOK, PhaseInv, AnywhereInv, BeforeSwap,
    ResultTruthful, OldFiles, Nothing, Content, PC, Swapping
<1>2. Inv /\ [Next]_vars => Inv'
  <2> SUFFICES ASSUME Inv, [Next]_vars PROVE Inv'
    OBVIOUS
  <2>0. root \in [Name -> Content] /\ newDir \in [Name -> Content] /\ backup \in [Name -> Content]
    BY DEF Inv, TypeOK
  <2> USE EntriesAssumption DEF Inv, TypeOK, PhaseInv, AnywhereInv, ResultTruthful,
        Swapping, OldIsThere, OldFiles, NewFiles, Content, PC, dirs, moves
  <2>1. CASE FirstCheck
    BY <2>1 DEF FirstCheck, Clean, BeforeSwap
  <2>2. CASE Stage
    BY <2>2 DEF Stage, BeforeSwap
  <2>3. CASE SecondCheck
    BY <2>3 DEF SecondCheck, Clean, BeforeSwap
  <2>4. CASE FailEarly
    BY <2>4 DEF FailEarly, BeforeSwap
  <2>5. CASE WriteMarker
    BY <2>5 DEF WriteMarker, BeforeSwap, MovingOld
  <2>6. ASSUME NEW n \in Name, MoveOld(n) PROVE Inv'
    <3>1. /\ pc = "moveOld" /\ pc' = pc /\ n \in OldEntries /\ n \notin movedOld
          /\ movedOld' = movedOld \union {n}
          /\ marker /\ log = "old" /\ edits = {} /\ result = "none"
          /\ UNCHANGED <<newDir, stage, marker, log, movedNew, broken, result, edits>>
      BY <2>6 DEF MoveOld
    <3>2. \A m \in Name : /\ root'[m] = IF m = n THEN "none" ELSE root[m]
                         /\ backup'[m] = IF m = n THEN "old" ELSE backup[m]
      <4>1. root[n] = "old"
        BY <3>1 DEF MovingOld
      <4> QED
        BY ONLY <2>0, <2>6, <4>1 DEF MoveOld
    <3>3. root' \in [Name -> Content] /\ backup' \in [Name -> Content]
      BY <2>6 DEF MoveOld
    <3>4. TypeOK'
      BY <3>1, <3>3
    <3>5. MovingOld' /\ OldIsThere'
      BY <3>1, <3>2 DEF MovingOld
    <3> QED
      BY <3>1, <3>4, <3>5
  <2>7. CASE EndOld
    BY <2>7 DEF EndOld, MovingOld, MovingNew
  <2>8. ASSUME NEW n \in Name, MoveNew(n) PROVE Inv'
    <3>1. /\ pc = "moveNew" /\ pc' = pc /\ n \in NewEntries /\ n \notin movedNew
          /\ movedNew' = movedNew \union {n}
          /\ marker /\ log = "old" /\ edits = {} /\ result = "none"
          /\ UNCHANGED <<backup, stage, marker, log, movedOld, broken, result, edits>>
      BY <2>8 DEF MoveNew
    <3>2. \A m \in Name : /\ root'[m] = IF m = n THEN "new" ELSE root[m]
                         /\ newDir'[m] = IF m = n THEN "none" ELSE newDir[m]
      <4>1. newDir[n] = "new"
        BY <3>1 DEF MovingNew
      <4> QED
        BY ONLY <2>0, <2>8, <4>1 DEF MoveNew
    <3>3. root' \in [Name -> Content] /\ newDir' \in [Name -> Content]
      BY <2>8 DEF MoveNew
    <3>4. TypeOK'
      BY <3>1, <3>3
    <3>5. MovingNew' /\ OldIsThere'
      BY <3>1, <3>2 DEF MovingNew
    <3> QED
      BY <3>1, <3>4, <3>5
  <2>9. CASE EndNew
    BY <2>9 DEF EndNew, MovingNew
  <2>10. CASE PublishLog
    BY <2>10 DEF PublishLog, MovingNew
  <2>11. CASE FailLate
    BY <2>11 DEF FailLate, MovingOld, MovingNew, UndoingNew
  <2>12. ASSUME NEW n \in Name, UndoNew(n) PROVE Inv'
    <3>1. /\ pc = "undoNew" /\ pc' = pc /\ n \in movedNew
          /\ movedNew' = movedNew \ {n}
          /\ marker /\ log = "old" /\ edits = {} /\ result = "none"
          /\ UNCHANGED <<backup, stage, marker, log, movedOld, result, edits>>
      BY <2>12 DEF UndoNew
    <3>2. \/ /\ \A m \in Name : root'[m] = IF m = n THEN "none" ELSE root[m]
             /\ UNCHANGED broken
          \/ broken' /\ UNCHANGED root
      BY ONLY <2>0, <2>12 DEF UndoNew
    <3>3. root' \in [Name -> Content] /\ newDir' \in [Name -> Content]
      BY <2>12 DEF UndoNew
    <3>4. TypeOK'
      BY <3>1, <3>2, <3>3
    <3>5. n \in OldEntries => n \in movedOld
      BY <3>1 DEF UndoingNew
    <3>6. UndoingNew'
      BY <3>1, <3>2, <3>5 DEF UndoingNew
    <3>7. OldIsThere'
      BY <3>1, <3>2, <3>5 DEF UndoingNew
    <3> QED
      BY <3>1, <3>4, <3>6, <3>7
  <2>13. CASE EndUndoNew
    BY <2>13 DEF EndUndoNew, UndoingNew, UndoingOld
  <2>14. ASSUME NEW n \in Name, UndoOld(n) PROVE Inv'
    <3>1. /\ pc = "undoOld" /\ pc' = pc /\ n \in movedOld /\ n \in OldEntries
          /\ movedOld' = movedOld \ {n}
          /\ marker /\ log = "old" /\ edits = {} /\ result = "none"
          /\ backup[n] = "old"
          /\ UNCHANGED <<newDir, stage, marker, log, movedNew, result, edits>>
      BY <2>14 DEF UndoOld, UndoingOld
    <3>2. \/ /\ root' = [root EXCEPT ![n] = backup[n]]
             /\ backup' = [backup EXCEPT ![n] = "none"]
             /\ UNCHANGED broken
          \/ broken' = TRUE /\ UNCHANGED <<backup, root>>
      BY ONLY <2>14, Zenon DEF UndoOld
    <3>3. /\ root' \in [Name -> Content] /\ backup' \in [Name -> Content]
          /\ \/ /\ \A m \in Name : /\ root'[m] = IF m = n THEN "old" ELSE root[m]
                                  /\ backup'[m] = IF m = n THEN "none" ELSE backup[m]
                /\ UNCHANGED broken
             \/ broken' = TRUE /\ UNCHANGED <<backup, root>>
      <4>1. CASE /\ root' = [root EXCEPT ![n] = backup[n]]
                 /\ backup' = [backup EXCEPT ![n] = "none"]
                 /\ UNCHANGED broken
        BY ONLY <2>0, <3>1, <4>1
      <4>2. CASE broken' = TRUE /\ UNCHANGED <<backup, root>>
        BY ONLY <2>0, <4>2
      <4> QED
        BY ONLY <3>2, <4>1, <4>2, Zenon
    <3>4. TypeOK'
      BY <3>1, <3>3
    <3>5. UndoingOld'
      BY <3>1, <3>3 DEF UndoingOld
    <3>6. OldIsThere'
      BY <3>1, <3>3
    <3> QED
      BY <3>1, <3>4, <3>5, <3>6
  <2>15. CASE EndUndoOld
    BY <2>15 DEF EndUndoOld, UndoingOld
  <2>16. CASE UndoMark
    BY <2>16 DEF UndoMark
  <2>17. CASE Unmark
    BY <2>17 DEF Unmark
  <2>18. CASE Cleanup
    BY <2>18 DEF Cleanup, Nothing
  <2>19. CASE Kill
    BY <2>19 DEF Kill
  <2>20. ASSUME NEW n \in Name, Edit(n) PROVE Inv'
    <3>1. /\ pc \in {"begin", "fetch", "staged"} /\ edits' = edits \union {n}
          /\ UNCHANGED <<newDir, backup, stage, marker, log, pc, moves, result>>
      BY <2>20 DEF Edit
    <3>2. \A m \in Name : root'[m] = IF m = n THEN "edited" ELSE root[m]
      BY <2>20 DEF Edit
    <3>3. root' \in [Name -> Content]
      BY <2>20 DEF Edit
    <3>4. TypeOK'
      BY <3>1, <3>3
    <3>5. BeforeSwap'
      <4>1. BeforeSwap /\ pc' = pc /\ pc # "checked"
        BY <3>1
      <4> QED
        BY ONLY <3>1, <3>2, <4>1 DEF BeforeSwap, moves
    <3> QED
      BY <3>1, <3>4, <3>5 DEF BeforeSwap
  <2>21. CASE UNCHANGED vars
    <3>1. TypeOK'
      BY <2>21 DEF vars
    <3>2. BeforeSwap' = BeforeSwap
      BY <2>21 DEF vars, BeforeSwap
    <3>3. MovingOld' = MovingOld /\ MovingNew' = MovingNew
      BY <2>21 DEF vars, MovingOld, MovingNew
    <3>4. UndoingNew' = UndoingNew /\ UndoingOld' = UndoingOld
      BY <2>21 DEF vars, UndoingNew, UndoingOld
    <3> QED
      BY <2>21, <3>1, <3>2, <3>3, <3>4 DEF vars
  <2> QED
    BY <2>1, <2>2, <2>3, <2>4, <2>5, <2>6, <2>7, <2>8, <2>9, <2>10, <2>11, <2>12,
      <2>13, <2>14, <2>15, <2>16, <2>17, <2>18, <2>19, <2>20, <2>21 DEF Next, PullStep
<1> QED
  BY <1>1, <1>2, PTL DEF Spec

\* Every variable keeps its type.
THEOREM TypeCorrect == Spec => []TypeOK
<1>1. Inv => TypeOK
  BY DEF Inv
<1> QED
  BY <1>1, InvHolds, PTL

\* The staging directory, with the backup, exists as long as the marker that
\* names it.
THEOREM MarkerHasBackupHolds == Spec => []MarkerHasBackup
<1>1. Inv => MarkerHasBackup
  BY DEF Inv, AnywhereInv, MarkerHasBackup
<1> QED
  BY <1>1, InvHolds, PTL

\* Wherever a pull is killed and whatever part of its rollback fails, the
\* marker leads to a complete old snapshot or stands beside a complete new one.
THEOREM RecoverableHolds == Spec => []Recoverable
<1>1. Inv => Recoverable
  <2> SUFFICES ASSUME Inv, marker PROVE Recovered = IF log = "old" THEN OldFiles ELSE NewFiles
    BY DEF Recoverable
  <2>1. CASE log = "old"
    BY <2>1, RestoreIsOld DEF Inv, AnywhereInv, Recovered
  <2>2. CASE log = "new"
    BY <2>2 DEF Inv, AnywhereInv, Recovered, TypeOK, NewFiles
  <2> QED
    BY <2>1, <2>2 DEF Inv, TypeOK
<1> QED
  BY <1>1, InvHolds, PTL

\* Nothing half-done goes unmarked: without a marker the files are those of
\* the log's last commit, but for the user's edits.
THEOREM UnmarkedIsConsistentHolds == Spec => []UnmarkedIsConsistent
<1>1. Inv => UnmarkedIsConsistent
  BY DEF Inv, AnywhereInv, UnmarkedIsConsistent, TypeOK, NewFiles
<1> QED
  BY <1>1, InvHolds, PTL

\* A file the user changed before the swap began is where the user left it.
THEOREM EditsSurviveHolds == Spec => []EditsSurvive
<1>1. Inv => EditsSurvive
  BY DEF Inv, AnywhereInv, EditsSurvive, TypeOK
<1> QED
  BY <1>1, InvHolds, PTL

\* The command's message is true: "ok" means replaced and unmarked, an error
\* without recovery advice means untouched.
THEOREM ResultTruthfulHolds == Spec => []ResultTruthful
<1>1. Inv => ResultTruthful
  BY DEF Inv
<1> QED
  BY <1>1, InvHolds, PTL

-----------------------------------------------------------------------------
\* With the marker and the old log, recovery gives the old snapshot in the
\* state before a step and in the state after it, whatever moved in between.
LEMMA StepImplements == Inv /\ Inv' /\ [Next]_vars => [Atomic!AtomicNext]_<<log, Recovered>>
<1> SUFFICES ASSUME Inv, Inv', [Next]_vars
             PROVE  [Atomic!AtomicNext]_<<log, Recovered>>
  OBVIOUS
<1>1. marker /\ log = "old" => Recovered = OldFiles
  BY RestoreIsOld DEF Inv, AnywhereInv, Recovered
<1>2. (marker /\ log = "old" => Recovered = OldFiles)'
  <2>1. (TypeOK /\ OldIsThere)' => (RestoreOld = OldFiles)'
    BY RestoreIsOld, PTL
  <2> QED
    BY <2>1 DEF Inv, AnywhereInv, Recovered
<1>3. OldFiles' = OldFiles /\ NewFiles' = NewFiles
  BY DEF OldFiles, NewFiles
<1>4. ~ (marker /\ log = "old") => Recovered = root
  BY DEF Recovered
<1>5. (~ (marker /\ log = "old") => Recovered = root)'
  BY DEF Recovered
<1>6. ASSUME UNCHANGED <<root, marker, log>>, UNCHANGED backup PROVE UNCHANGED <<log, Recovered>>
  BY <1>6 DEF Recovered, RestoreOld
<1>7. ASSUME marker, marker', log = "old", log' = "old" PROVE UNCHANGED <<log, Recovered>>
  BY <1>1, <1>2, <1>3, <1>7
<1>8. CASE FirstCheck \/ SecondCheck \/ FailEarly \/ EndOld \/ EndNew \/ FailLate
           \/ EndUndoNew \/ EndUndoOld \/ Kill
  BY <1>6, <1>8 DEF FirstCheck, SecondCheck, FailEarly, EndOld, EndNew, FailLate,
    EndUndoNew, EndUndoOld, Kill, dirs
<1>9. CASE Stage
  BY <1>6, <1>9 DEF Stage
<1>10. CASE WriteMarker
  <2>1. root = OldFiles
    BY <1>10, EntriesAssumption DEF WriteMarker, Inv, TypeOK, PhaseInv, BeforeSwap, OldFiles
  <2> QED
    BY <1>2, <1>3, <1>4, <1>10, <2>1 DEF WriteMarker, Inv, PhaseInv, BeforeSwap
<1>11. ASSUME NEW n \in Name, MoveOld(n) \/ MoveNew(n) \/ UndoNew(n) \/ UndoOld(n)
       PROVE  UNCHANGED <<log, Recovered>>
  BY <1>7, <1>11 DEF MoveOld, MoveNew, UndoNew, UndoOld, Inv, PhaseInv, Swapping
<1>12. CASE PublishLog
  <2>1. log = "old" /\ marker /\ log' = "new"
    BY <1>12 DEF PublishLog, Inv, PhaseInv, Swapping
  <2>2. root' = NewFiles
    BY <2>1, <1>3 DEF Inv, AnywhereInv, TypeOK, NewFiles
  <2>3. Atomic!Swap
    BY <2>1, <2>2, <1>1, <1>5 DEF Atomic!Swap, Atomic!OldFiles, Atomic!NewFiles, OldFiles, NewFiles
  <2> QED
    BY <2>3 DEF Atomic!AtomicNext
<1>13. CASE UndoMark
  <2>1. root = OldFiles /\ log = "old" /\ marker
    BY <1>13, EntriesAssumption DEF UndoMark, Inv, TypeOK, PhaseInv, OldFiles, Swapping
  <2> QED
    BY <1>13, <2>1, <1>1, <1>2, <1>3, <1>5 DEF UndoMark, dirs
<1>14. CASE Unmark
  BY <1>14, <1>4, <1>5 DEF Unmark, dirs, Inv, PhaseInv
<1>15. CASE Cleanup
  BY <1>15, <1>4, <1>5 DEF Cleanup, Inv, PhaseInv
<1>16. ASSUME NEW n \in Name, Edit(n) PROVE Atomic!AtomicNext
  <2>1. log = "old" /\ ~ marker /\ log' = "old" /\ ~ marker'
    BY <1>16 DEF Edit, Inv, PhaseInv, BeforeSwap
  <2>2. Atomic!EditFile(n)
    BY <1>16, <2>1, <1>4, <1>5 DEF Edit, Atomic!EditFile
  <2> QED
    BY <2>2 DEF Atomic!AtomicNext
<1>17. CASE UNCHANGED vars
  BY <1>6, <1>17 DEF vars
<1> QED
  BY <1>8, <1>9, <1>10, <1>11, <1>12, <1>13, <1>14, <1>15, <1>16, <1>17 DEF Next, PullStep

\* Seen through recovery, a pull swaps log and files in one step, and only
\* over an unedited old snapshot.
THEOREM Implementation == Spec => ImplementsAtomic
<1>1. Init => Atomic!AtomicInit
  BY DEF Init, Atomic!AtomicInit, Atomic!OldFiles, OldFiles, Recovered
<1> QED
  BY <1>1, InvHolds, StepImplements, PTL DEF Spec, ImplementsAtomic, Atomic!AtomicSpec,
    Atomic!checkoutVars
=============================================================================
