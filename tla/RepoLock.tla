------------------------------- MODULE RepoLock -------------------------------
(***************************************************************************)
(* The operation lock of a client repository: the file .ssc/commit.lock    *)
(* that commit, branch, revert, push, pull and remote commands create      *)
(* (src/core/lock.go), and the .ssc/sync-pending marker by which a pull    *)
(* keeps them out (src/remote/pull.go).  Commands are processes: they      *)
(* refuse instead of waiting, they can be killed, and a fatal error in the *)
(* snapshot code ends the process without its deferred calls               *)
(* (utils.Exit).                                                           *)
(***************************************************************************)
EXTENDS Naturals, FiniteSets

CONSTANTS
  Process,    \* the commands that may run at once
  NoProcess,  \* commit.lock does not exist
  MaxRuns     \* bound: how many commands are started altogether

ASSUME ProcessAssumption == NoProcess \notin Process
ASSUME RunsAssumption == MaxRuns \in Nat

VARIABLES
  lock,     \* the process that created commit.lock, or NoProcess
  marker,   \* sync-pending exists
  at,       \* at[p]: how far command p is
  runs,     \* how many commands were started
  killed,   \* history: a command was killed
  exited,   \* history: a command ended through utils.Exit under the lock
  trespass, \* history: a command entered past the marker of another
  halfway   \* history: a swap was left half done and not yet recovered

lockVars == <<lock, marker, at, runs, killed, exited, trespass, halfway>>

\* "absent": not running; "looked": no marker was seen; "working": holds the
\* lock; "applying": a pull between writing and removing its marker;
\* "leaving": about to remove the lock.
Stages == {"absent", "looked", "working", "applying", "leaving"}

Running(p) == at[p] # "absent"
Inside(p) == at[p] \in {"working", "applying", "leaving"}

LockInit ==
  /\ lock = NoProcess
  /\ marker = FALSE
  /\ at = [p \in Process |-> "absent"]
  /\ runs = 0
  /\ killed = FALSE
  /\ exited = FALSE
  /\ trespass = FALSE
  /\ halfway = FALSE

-----------------------------------------------------------------------------
\* A command starts, and LockRepository finds no marker.
Look(p) ==
  /\ at[p] = "absent"
  /\ runs < MaxRuns
  /\ runs' = runs + 1
  /\ ~ marker
  /\ at' = [at EXCEPT ![p] = "looked"]
  /\ UNCHANGED <<lock, marker, killed, exited, trespass, halfway>>

\* O_CREATE|O_EXCL succeeds.  The marker is not looked at again.
Create(p) ==
  /\ at[p] = "looked"
  /\ lock = NoProcess
  /\ lock' = p
  /\ at' = [at EXCEPT ![p] = "working"]
  /\ trespass' = (trespass \/ marker)
  /\ UNCHANGED <<marker, runs, killed, exited, halfway>>

\* Mutant: the refused command cleans up a lock that is not its own.
RefuseAndRemove(p) ==
  /\ at[p] = "looked"
  /\ lock # NoProcess
  /\ at' = [at EXCEPT ![p] = "absent"]
  /\ lock' = NoProcess
  /\ UNCHANGED <<marker, runs, killed, exited, trespass, halfway>>

\* The file exists: the command ends with "repository is locked".
Refuse(p) ==
  /\ at[p] = "looked"
  /\ lock # NoProcess
  /\ at' = [at EXCEPT ![p] = "absent"]
  /\ UNCHANGED <<lock, marker, runs, killed, exited, trespass, halfway>>

\* A pull has checked and staged everything and writes the marker.
WriteMarker(p) ==
  /\ at[p] = "working"
  /\ marker' = TRUE
  /\ at' = [at EXCEPT ![p] = "applying"]
  /\ UNCHANGED <<lock, runs, killed, exited, trespass, halfway>>

\* The pull, or its rollback, is complete and the marker is removed.
RemoveMarker(p) ==
  /\ at[p] = "applying"
  /\ marker' = FALSE
  /\ at' = [at EXCEPT ![p] = "leaving"]
  /\ UNCHANGED <<lock, runs, killed, exited, trespass, halfway>>

\* Mutant: the failed rollback gives up its marker.
DropMarker(p) ==
  /\ at[p] = "applying"
  /\ marker' \in BOOLEAN
  /\ at' = [at EXCEPT ![p] = "leaving"]
  /\ UNCHANGED <<lock, runs, killed, exited, trespass>>
  /\ halfway' = TRUE

\* Rollback fails, or the marker cannot be removed: it is kept.
KeepMarker(p) ==
  /\ at[p] = "applying"
  /\ at' = [at EXCEPT ![p] = "leaving"]
  /\ UNCHANGED <<lock, marker, runs, killed, exited, trespass>>
  /\ halfway' = TRUE

\* Mutant: one way out of the command does not unlock.
FinishLocked(p) ==
  /\ at[p] = "working"
  /\ at' = [at EXCEPT ![p] = "absent"]
  /\ UNCHANGED <<lock, marker, runs, killed, exited, trespass, halfway>>

\* The command has done its work, or returns an error.
Finish(p) ==
  /\ at[p] = "working"
  /\ at' = [at EXCEPT ![p] = "leaving"]
  /\ UNCHANGED <<lock, marker, runs, killed, exited, trespass, halfway>>

\* The deferred unlock: os.Remove of the path, whoever created it.
Unlock(p) ==
  /\ at[p] = "leaving"
  /\ lock' = NoProcess
  /\ at' = [at EXCEPT ![p] = "absent"]
  /\ UNCHANGED <<marker, runs, killed, exited, trespass, halfway>>

\* utils.Exit in CreateTree, createBlobs, CompressFile or GetFiles: os.Exit
\* skips the deferred unlock.
ExitInside(p) ==
  /\ at[p] = "working"
  /\ at' = [at EXCEPT ![p] = "absent"]
  /\ exited' = TRUE
  /\ UNCHANGED <<lock, marker, runs, killed, trespass, halfway>>

Kill(p) ==
  /\ Running(p)
  /\ at' = [at EXCEPT ![p] = "absent"]
  /\ killed' = TRUE
  /\ UNCHANGED <<lock, marker, runs, exited, trespass>>
  /\ halfway' = (halfway \/ at[p] = "applying")

\* The user, having made sure that no command runs and that checkout and
\* history agree, removes the marker and then the lock.
Recover ==
  /\ \A p \in Process : ~ Running(p)
  /\ IF marker
       THEN marker' = FALSE /\ halfway' = FALSE /\ UNCHANGED lock
       ELSE lock # NoProcess /\ lock' = NoProcess /\ UNCHANGED <<marker, halfway>>
  /\ UNCHANGED <<at, runs, killed, exited, trespass>>

LockNext ==
  \/ \E p \in Process :
       \/ Look(p) \/ Create(p) \/ Refuse(p)
       \/ WriteMarker(p) \/ RemoveMarker(p) \/ KeepMarker(p)
       \/ Finish(p) \/ Unlock(p) \/ ExitInside(p) \/ Kill(p)
  \/ Recover

LockSpec == LockInit /\ [][LockNext]_lockVars

-----------------------------------------------------------------------------
LockTypeOK ==
  /\ lock \in Process \union {NoProcess}
  /\ marker \in BOOLEAN
  /\ at \in [Process -> Stages]
  /\ runs \in 0..MaxRuns
  /\ killed \in BOOLEAN /\ exited \in BOOLEAN
  /\ trespass \in BOOLEAN /\ halfway \in BOOLEAN

\* At most one command is inside, and the lock file is there as long as it
\* is: a refusal, a kill or a stale lock never lets a second one in.
MutualExclusion ==
  /\ \A p \in Process : Inside(p) => lock = p
  /\ \A p, q \in Process : Inside(p) /\ Inside(q) => p = q

\* A swap that was left half done, by a kill at any moment or by a rollback
\* that failed, keeps its marker until the user recovers, as long as no
\* command slips in between its own two checks (MarkerRefuses).
HalfwayIsMarked ==
  halfway /\ ~ trespass => marker

\* A lock that nobody holds was left by a kill or by utils.Exit: every other
\* way out of every command, refusals included, leaves none behind.
StaleLockExplained ==
  (lock # NoProcess /\ \A p \in Process : ~ Running(p)) => killed \/ exited

\* docs/client.md:103: while sync-pending is there, "Further modifying
\* commands refuse to run".
MarkerRefuses == ~ trespass
=============================================================================
