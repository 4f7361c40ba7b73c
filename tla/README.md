# A TLA+ model of SuperSourceControl

`ssc` is a small version control system: a command-line client that keeps a
repository in `.ssc/`, and an HTTP server (`ssc serve`) that several clients push
to and pull from.  These modules model the parts of it that several actors, a
crash or a lost message can reach, check them with TLC on small instances, and
prove the most important results with TLAPS for all instances.  Paths below are
relative to `src/`.

## 1. The system

| Component | State | Operations | Talks to |
| --- | --- | --- | --- |
| Server store (`server/store.go`, `refs.go`, `refs_http.go`) | per repository: `objects/<hash>`, `refs.json`, a mutex | `PutObject`, `GetObject`, `ListRefs`, `UpdateRef` (compare-and-swap) | called by HTTP handlers, one goroutine each |
| HTTP pipeline (`server/http.go`, `auth.go`) | 32 slots, `closing`, count of active handlers, grants | authenticate, authorise, take a slot, dispatch | store, server process |
| Server process (`server/serve.go`) | `.server.lock`, listener | start, serve, shut down | handler, store |
| Object format (`core/object_wire.go`, `commit_format.go`) | none | `InspectObject`: digest and typed references of a blob, tree or commit | store and client |
| Graph walks (`server/refs.go` `validateGraph`, `remote/graph.go` `loadGraph`) | stack, map of objects met, two totals | decide whether a graph is complete and within limits | `UpdateRef`; push, pull, clone |
| Operation lock (`core/lock.go`) | `.ssc/commit.lock`, `.ssc/sync-pending` | `LockRepository`, unlock; manual recovery | every modifying command |
| Snapshots and commits (`core/objects.go`, `commit.go`, `hash-object.go`, `zlibutils`) | `.ssc/objects`, branch `commitlog` | commit, `hash-object -w` | lock; disk shared with every command |
| Push, pull, clone (`remote/`) | in memory: observed tip, graph | `Push`, `Pull`, `Clone` through `Client` (30 s timeout) | server by HTTP; lock; checkout |
| Pull checkout (`remote/pull.go` `applyPull`) | working directory, `tmp/pull-*/{new,backup}`, marker, `commitlog` | swap, roll back | user's editor, lock |
| Branches and switching (`core/branch.go`, `revert.go`) | `.ssc/branch`, `.ssc/branches/**` | create, switch, delete, revert | lock, working directory |
| Ancestry and log (`core/ancestry.go`, `log.go`) | none | `IsAncestor`, print | objects |
| Settings, `init`, `cat-file`, CLI, update | one JSON file; `.ssc/tmp` | read, change, print | disk |

What is hard in it:

- **Concurrency.**  Handlers share a store; clients share a branch and only see
  stale tips of it; client commands share a directory and refuse instead of
  waiting; `hash-object -w` and the user's editor take no lock at all.
- **Failure.**  A server or a command can be killed between any two file
  operations; renames, reads and the rollback of a pull can fail; `utils.Exit`
  ends a process past its deferred calls.
- **Delivery.**  A request or its answer may be lost, and a request may reach
  the server after its client gave up.
- **Order.**  Objects are uploaded in any order; the log, the commit object, the
  marker and `refs.json` must be written in the right one.
- **Limits.**  Two budgets are counted in two loops at different places.

What makes each part correct, in one line: the server never publishes an
incomplete graph and never loses an acknowledged update; a walk accepts exactly
the complete graphs within the limits; at most one modifying command works in a
repository; a commit never makes the history unreadable; a pull happens entirely
or not at all and never costs the user an edit; a push reported as a success
stays one; the data directory belongs to one process as long as any of its
handlers works; a branch never swallows another, and switching never passes a
mixture of files off as a branch's tip; ancestry is never denied for want of
links.  `PROJECT.json` lists the hazards line by line, each with the properties
that watch it or the reason why none does.

## 2. Modules

| Module | Models | Composed with |
| --- | --- | --- |
| `Objects` | object graph: kinds, typed references, limits; the reference definition of a complete graph | extended by all server and sync modules |
| `ObjectsProofs` | lemmas about reachability and totals | |
| `RefRegister` | **abstract**: objects are added, a branch moves in one step to a complete descendant | implemented by `ServerStore` and by `Sync` |
| `ServerStore` | handlers under the repository mutex, failures, kills | `INSTANCE RefRegister WITH stored <- Readable, tips <- refs` |
| `GraphWalk` | the loop of `validateGraph` and `loadGraph` | decides what `ServerStore` and `Sync` take as one step |
| `RepoLock` | lock and marker of a client repository | |
| `Snapshot` | file-level steps of commits and `hash-object -w` | opens up `Commit` of `Sync` |
| `AtomicCheckout` | **abstract**: files and tip change together | implemented by `Checkout` |
| `Checkout` | `applyPull` with rollback | opens up `PullPublish` of `Sync` |
| `Sync` | several clients pushing, pulling and cloning one branch | server is `RefRegister` again, `ImplementsRegister` |
| `ServerLifecycle` | lock file, shutdown, gate, wait group and slots of the server process | bounds the life of the handlers of `ServerStore` |
| `BranchMap` | **abstract**: a map from names to histories and an active name | implemented by `Branches` |
| `Branches` | `init`, create, switch, delete, revert and the branch side of commit, file by file | `INSTANCE BranchMap WITH history <- ..., active <- current`; `Snapshot` opens up its `CommitStart` |
| `Ancestry` | the loop of `IsAncestor` | reads what `Snapshot` stores |
| `*Proofs` | theorems about the module of that name; `RepositoryProofs` about `RepoLock`, `Snapshot` and `Ancestry` | |
| `MC*` | the instances that TLC checks | |

`Sync` stands on the others: its server steps are those that `ServerStore`
implements, its walks take one object at a time and may be cut off, and what a
client does on its own disk is atomic there because `Snapshot` and `Checkout`
show what happens in between.

### State and actions against the code

- **`ServerStore`.**  `objects[h]` is the content found under the file name `h`
  (so a wrong content under a name is expressible), `refs` is `refs.json`, `mu`
  the `sync.Mutex`, `snap[h]` the map `UpdateRef` read and will write back
  *whole*.  `Begin` is everything in `ServeHTTP` up to the store; `PutInvalid`
  and `PutObject` are `PutObject` before and under the mutex; `CompareRefs`,
  `Conflict`, `ValidateGraph`, `RejectGraph`, `PublishRefs` and `Acknowledge` are
  `UpdateRef` in the order of its statements; `Fail` is every error return
  before the rename; `Crash` kills the process and keeps the disk.  A handler's
  read of the objects is one step because nothing can remove an object.
- **`GraphWalk`.**  One action per turn of the loop and way out of it.
  `readable` is any subset of the objects; a read that fails although the object
  is there is `LoadFails`.  Server and client differ in where they test the
  limits, not in what they decide; `SeenWithinReferences`, a theorem, shows that the
  server's extra test of `len(seen)` is never the first to fire.  The totals of
  a graph count its references and its bytes, each with the object that holds
  it; `TotalsAreSums` checks that they are the sums that the loops keep.
- **`RepoLock`.**  `at[p]` is how far a command is.  `Look` and `Create` are the two halves of `LockRepository`;
  `WriteMarker`, `RemoveMarker` and `KeepMarker` are a pull's; `ExitInside` is
  `utils.Exit`; `Recover` is the manual procedure of `docs/client.md:102-114`,
  done when no command runs.
- **`Snapshot`.**  `disk[o]` is what the object file holds: nothing, raw bytes,
  compressed bytes, or a compression of compressed bytes.  `CompressFile`'s read
  and write are separate steps for blobs, since `hash-object -w` can come in
  between; a tree is only touched under the lock, and its compression is one
  step.  A commit object is named by the history it ends, which is what its
  parent links determine.  A tree is named by its set of blobs, and
  `KindAssumption` says that no tree has a blob's name, since the digest covers
  the kind (`core/objects.go:34`, `84`).
- **`Checkout`.**  `root`, `newDir` and `backup` give the content of each
  top-level entry; `movedOld` and `movedNew` are the code's slices (the order
  of the entries of one loop is left open).  Each rename, each of its failures,
  each undo and each failing undo is a step.  `Recovered` is what the recovery
  procedure makes of a killed pull.
- **`Sync`.**  `local[p]` and `log[p]` are a client's objects and branch log;
  `old[p]` is the lease of a push; `late` holds requests whose client gave up
  and which may still arrive, more than once.  What a pull or a clone appends is
  any list of `Listings`, the objects of the history once each and parents
  first; `graph.history`, which computes one of them, is `history` of
  `GraphWalk`, and `HistoryLists` checks it against `Lists` on a graph with a
  diamond.
- **`ServerLifecycle`.**  `pc[s]` follows `Run` from the creation of
  `.server.lock` through its deferred calls, which run in reverse order: the
  server is closed, the gate shut (`closing`), the handlers waited for
  (`active`), the lock removed.  `ShutdownReturns` is enabled with handlers still
  running, which is what the timeout of five seconds allows.  A handler is
  `accepted` once `net/http` has read its request, however long before it gets
  to the gate; `Answer` is every return before or without a slot, `GiveSlot`
  every return, or panic, with one.  `lockFile` names the process that created
  the file, though the code removes it by its path whoever that is.
- **`Branches`.**  `dirs` are the directories below `.ssc/branches`, `log[b]` the
  `commitlog` in one of them, `current` is `.ssc/branch`, `junk` says where a
  killed commit left the temporary file of `atomicWrite`, `disk` is the working
  directory, in which a path can be a file or a directory.  Each command reads
  what it needs in its first step, which is sound under the operation lock, and
  then does one file operation per step; any of them can be the last.
  `ioutil.WriteFile` truncates first, hence `KillCreate`, `InterruptPublish` and
  `InterruptFile`.  `touched` is a history variable: the user has edited, or a
  restoration did not end at the active tip.
- **`Ancestry`.**  One action per way through a turn of the loop.  `Parents` is
  where a commit really comes from, `Links` what it records: nothing, for a
  commit of format 1.

What the model of the branches shows besides its properties: `os.Mkdir` refuses a
directory that is there, and directories are never removed with their last
branch, so that a name that was once a namespace, or whose creation was killed,
cannot become a branch; a branch with a temporary file in it cannot be deleted;
and a directory where the target has a file blocks every switch to it
(`RestoreBlocked`) after files have been deleted, until the user removes the
directory.  The documentation admits that restoring can stop halfway
(`README.md:76-78`); none of these loses a history.

Left out of all of them: formatting, logging, contents beyond their identity,
and power loss (the documentation promises nothing about it).  A kill during
`ioutil.WriteFile` empties a file in `Branches` and never leaves half of one;
in `Snapshot` it does neither, and errors of it that `objects.go` ignores are
not modelled.

## 3. What the runs check

Passing runs (distinct states, approximately):

| Run | Instance | Shows |
| --- | --- | --- |
| `ServerStore` (560k) | 2 handlers, branches `main`, `dev`, `dev/x`, 6 objects, updates that fork, go back, are mistyped or too large; kills and failing disk operations | `RefsComplete`, `AckedSurvive`, `LeaseUsedOnce`, `NamesUnoccupied`, `NamespaceFree`, `ImplementsRegister`, and `Answered` under fairness |
| `GraphWalk` (16k) | 11 lists of roots, all 2^8 readable sets | `AcceptSound`, `IncompleteSound`, `LimitsExact`, `WalkEnds` |
| `RepoLock` (1k) | 3 commands, 6 starts | `MutualExclusion`, `HalfwayIsMarked`, `StaleLockExplained` |
| `Snapshot` (1.9 million) | 2 contents (4 trees), 3 commits | `HistoryReadable`, `TreeReadableAtPublish`, `ListedAreStored` |
| `Checkout` (1k) | one entry deleted, two replaced, one added | `Recoverable`, `UnmarkedIsConsistent`, `EditsSurvive`, `ResultTruthful`, `Ends`, `ImplementsAtomic` |
| `Sync` (242k) | 2 clients, 4 commits in 2 unrelated histories with a fork, one late request | `LocalComplete`, `LogIsHistory`, `LogAppendOnly`, `AckedSurvive`, `ImplementsRegister`, and `CommandsEnd` under fairness |
| `Branches` (1.4 million) | names `main`, `x`, `x/y`; a path that is a file or a directory, two others; 2 commits | `RestoreExact`, `UntouchedIsTip`, `NoNesting`, `ImplementsBranchMap` |
| `ServerLifecycle` (27k) | 2 processes, 3 handlers, 2 slots | `OneServer`, `WorkCovered`, `CountsExact`, and `StopEnds` under fairness |
| `Ancestry` (54k) | 6 commits with a fork, a merge and an unrelated root; 6 sets of legacy commits, all readable sets | `AnswerSound` |

Type invariants are theorems of every module; the runs of `Snapshot` and `Sync`
check theirs too.  For every property of these runs `PROJECT.json` names a mutant, a definition of the module changed the way a bug
would change the code, with which the property fails.

Violation runs, each a sentence of the documentation that the code does not keep:

| Run | Sentence | What happens |
| --- | --- | --- |
| `RepoLockMarker` | "Further modifying commands refuse to run" while `sync-pending` exists (`docs/client.md:103`) | `LockRepository` looks for the marker before it creates the lock and never again; a command that looked early starts on a half-swapped directory |
| `SnapshotLeftover` | commit writers "publish completed compressed objects before replacing the branch history index" (`README.md:119`) | a raw blob file left by a killed commit, or being written by `hash-object -w`, counts as the object (`core/objects.go:92`) and is published unreadable |
| `SnapshotRewrite` | "Existing objects are never rewritten." (`README.md:107`) | every commit of an unchanged tree, and every `hash-object -w`, writes the raw bytes over the compressed object first |

### Bounds, and why they are enough

- *Handlers, clients: 2.*  A race needs two; the mutex and the compare-and-swap
  treat all others alike.  The proofs of `ServerStoreProofs` drop the bound.
- *Objects.*  The graphs contain what a walk or an update can tell apart: a
  shared blob and tree, a fork, a merge over a limit, a mistyped reference,
  unrelated roots.  `MaxGraphObjects` and `MaxGraphBytes` are set so that one
  graph meets a limit exactly and another exceeds it by one.
- *`MaxRuns` = 6* (`RepoLock`): two commands that collide, a pull that leaves a
  marker, a recovery, and again.  `RepositoryProofs` drops it.
- *`MaxCommits` = 3* (`Snapshot`) bounds the commit objects on disk when a
  commit starts: a killed commit, one of the same tree, and one that shares a blob.
  `RepositoryProofs` drops it, and the bound on contents.
- *`MaxLate` = 1* (`Sync`): one request of a behaviour, an upload or an update, is
  given up by its client and then arrives at any time, any number of times, or
  never.  A late update is judged against the tip alone, so that others beside it
  change nothing in what it may do.  `SyncProofs` drops the bound, and those on
  clients and commits.
- *Names `x`, `x/y`, paths `a`, `a/b`* (`Branches`): one name in another is all
  that the rules for names compare, one path in another all that can obstruct a
  restoration.  *`MaxCommits` = 2*: a tip and another commit, on one branch or on
  two.  `BranchesProofs` drops all of these.
- *Slots: 2, handlers: 3* (`ServerLifecycle`): one handler finds every slot
  taken.  *Processes: 2*: one that runs and one that is started beside it or
  after it was killed.  `ServerLifecycleProofs` drops them.
- *Legacy sets* (`Ancestry`): none, roots, one or both sides of a fork, a merge.

Symmetry is used for commands and contents (`RepoLock`, `Snapshot`), and never in
a run that checks a liveness property.  Deadlock is checked except in
`GraphWalk`, `RepoLock`, `Snapshot`, `Checkout` and `Ancestry`, where the system
really ends or a bound stops it.

### Fairness

- `ServerStore`: weak fairness of a handler's own steps (a goroutine is
  scheduled) and strong fairness of taking the mutex (a `sync.Mutex` in
  starvation mode hands itself to the waiter).  Nothing obliges a client to send.
- `ServerLifecycle`: weak fairness of what `Run` does once it was told to stop
  (`Shutdown` has its timeout) and of each handler (goroutines are scheduled, and
  the operations of the store return, which `Answered` shows).  Nobody has to
  send a signal or to start a process.
- `GraphWalk`, `Checkout`: weak fairness of the one process.  Kills, failures and
  cancellation are never assumed to happen or not to happen.
- `Sync`: weak fairness of each running command, whose requests end by the 30 s
  timeout of the client (`remote/http.go:64`).  The server may never answer.

## 4. What is proved

Every safety invariant and every action property that a run checks is a theorem
for all values of the constants, and so are the four refinements
(`ServerStore` and `Sync` of `RefRegister`, `Checkout` of `AtomicCheckout`,
`Branches` of `BranchMap`).  Each proof follows the same path: an inductive
invariant that TLC checked on the run's instance first, one lemma per action,
and the published properties as consequences.

Assumptions are those of the modules: constants are well-typed, and digests
(twenty bytes) and the handlers that `ServerLifecycle` counts are finitely many;
nothing else needs to be finite.  `Objects` assumes that a digest names one
object, whose references its kind determines (`GraphAssumption`), and that no
object reaches itself (`AcyclicAssumption`: a digest cannot occur in what it is
the digest of); `Snapshot` that trees and blobs have different names
(`KindAssumption`).  TLC evaluates each of them on the runs of the modules that
state it.

- **`ObjectsProofs`.**  What the others use of graphs: reachability is the least
  closed set, it is transitive and antisymmetric, a complete graph stays complete
  when more can be read, and the totals of a set of objects are finite, grow
  with it, and grow by exactly what one more object holds (`TotalsAdd`).
- **`ServerStoreProofs`.**  `Inv` is inductive.  None of the published
  properties is so alone: that an update keeps the others' branches needs that
  the map a handler holds is still the one on disk (`SnapInv`), which needs the
  mutex (`MutexInv`); that acknowledged updates survive needs the same of
  updates that took effect and were not answered before a kill
  (`PublishedInv`), and that what was validated stays readable (`ValidInv`),
  which holds because an upload never changes a name that is taken.  From it:
  type correctness, `RefsComplete`, `NamespaceFree`, `NamesUnoccupied`,
  `AckedSurvive`, `LeaseUsedOnce`, `FastForwardOnly`, and that the handlers
  implement `RefRegister` (`Implementation`).  `MutexInvHolds` is the half of
  `Answered` that is a safety property: no return leaves the mutex behind.
- **`GraphWalkProofs`.**  `NothingForgotten` (roots and references of every
  object met are accepted or on the stack) and `NothingInvented` (whatever is
  met or stacked is reachable) make the walk sound in both directions, with any
  graph, roots and readable set: `AcceptSound`, `IncompleteSound`, and
  `SeenWithinReferences`.  `Counted` adds that the running counts are the totals
  of the objects met, from which `LimitsExact` follows in both directions: at the
  end what was met is what is wanted, and an object that breaks a limit is
  wanted together with all that was met.  `JudgesTip` says the same of a single
  tip in the words of `ServerStore`'s `ValidateGraph` and `RejectGraph`, which
  is why one step may stand for the loop there.  `TurnsBounded` is the half of
  `WalkEnds` that is a safety property: each turn takes one reference off the
  stack, so that no walk has more turns than the limit on references.
- **`RepositoryProofs`.**  Of the lock: `MutualExclusion`, `HalfwayIsMarked` and
  `StaleLockExplained` for any number of commands and runs.  Of commits: `Files`
  (a command compresses blobs of its own tree, `hash-object` only blobs, so that
  neither touches the file of a tree), `TreeWritten`
  and `CommitStored` (what a command has written by the time it publishes) give
  `ListedAreStored` and `TreeReadableAtPublish` under every kill and with
  `hash-object -w` at any moment.  `HistoryReadable` needs `Undisturbed`: as long
  as nothing was cut off, every blob that the log needs is compressed, the only
  raw blobs are those that the commit under way is going to compress
  (`BlobsCompressed`), and at its end all blobs of its tree are compressed
  (`TreeCovered`).  Of the search: as in `GraphWalkProofs`, nothing is forgotten
  and nothing invented; that legacy commits hide nothing from a "no" needs that
  the boundary flag is true exactly when a legacy commit was passed.
- **`SyncProofs`.**  `Inv` relates what each client has planned to what the server
  has: the tip that a pull or a clone downloads was complete on the server, and
  still is (`Target`); a pull has saved all that it has walked over, still starts
  from the tip of the log it will extend, and is on its way to a commit that is
  not in that log (`Pull`); there is no log before a clone is published
  (`Unborn`); and a log is the history of its last entry, whose graph is complete
  (`Log`).  From it: type correctness, `LocalComplete`, `LogIsHistory`, `AckedSurvive`, `LogAppendOnly`, that whatever is published can
  be fetched whole (`TipComplete`), that clients, network and server implement
  `RefRegister` (`Implementation`), and therefore that the published tip only
  moves to commits that know it (`TipMovesForward`).  The key lemmas are about lists:
  appending the commits of a new tip that the old one does not know to a list of
  those that it knows gives a list of all of them.
- **`CheckoutProofs`.**  `Inv` says for each phase which entries are where, and
  for every state that each old entry is in the root or the backup
  (`OldIsThere`), so that it survives kills.  From it every invariant of the
  run, and that the swap implements `AtomicCheckout` (`Implementation`).
- **`BranchesProofs`.**  What a command has read in its first step must still
  hold at its last (`CreateInv`, `DeleteInv`), every directory must lie in ones
  that are there (`DirsInv`), commits that are listed must exist (`IdsInv`), an
  active branch without commits must be alone (`FirstInv`), and a restoration
  must say for each path what it has done (`RestoreInv`).  Together with
  `TipInv`, the form of `UntouchedIsTip` that holds in the middle of a command,
  they are inductive; `FirstInv` is what `Implementation` needs of a repository's
  first commit.  `HistoriesKept` follows from the refinement: a step keeps what a
  branch has, in its place, or deletes a branch that is not active.
- **`ServerLifecycleProofs`.**  `Inv` adds to the counts that handlers live in
  processes that listen, that a gate stays shut, and that a drained process
  stays empty; `WorkCovered` follows from it by way of the count being zero.

Only model-checked: liveness (`Answered`, `WalkEnds`, `Ends`, `CommandsEnd`,
`StopEnds`), which is beyond the prover, but for the halves named above; and that
`history` of `GraphWalk` computes a listing, since it is a recursive function
over the graph and this prover cannot argue by induction over data.  `Sync` and
its proofs therefore rest on what `Lists` says and not on how the list is
computed.  `FastForwardOnly`, `SeenWithinReferences`, `MarkerHasBackup`,
`JudgesTip`, `TurnsBounded`, `HistoriesKept`, `TipComplete` and `TipMovesForward`
are proved and not among the properties of a run.

## 5. Not modelled

Not modelled because nothing can go wrong in them that a model would show:
printing (`log`, `cat-file`, `usage`), argument parsing, token lookup, the syntax
of names, headers and paths, URL checks, the update script.  In particular:

- *Settings.*  One file, read and rewritten whole without a lock: of two changes
  at a time one is lost.  The code shows it as plainly as a model would.
- *`cat-file`.*  Only its own output depends on the file it shares in `.ssc/tmp`.
- *Names that differ only in case.*  The server takes them, a clone refuses them
  (`remote/clone.go:14`), and no client can delete them.  Both rules are
  predicates on one list of names.
- *An editor during a swap or a restoration.*  `Edit` of `Checkout` stops at the
  second check, that of `Branches` at the start of a command, as
  `docs/client.md:97` asks of the user.
- *Several branches in one client of `Sync`*, the branch that a clone checks out,
  and legacy log entries in a pull.  The server's side of several branches is in
  `ServerStore`, the client's in `Branches`.
- *Half-written files* other than emptied ones, and write errors that
  `core/objects.go` ignores.

What would come next: two branches in one client of `Sync`, and the order in which
a clone publishes them; half-written object files in `Snapshot`; the settings.

## 6. Running it

    tlc -config Sync.cfg MCSync.tla        # any .cfg with the MC module of its name
    tlapm ServerStoreProofs.tla            # any *Proofs module
