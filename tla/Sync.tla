--------------------------------- MODULE Sync ---------------------------------
(***************************************************************************)
(* Client repositories that commit, push, pull and clone one branch of one *)
(* server repository (src/remote/push.go, pull.go, clone.go, http.go).     *)
(* The server is the register of RefRegister, which ServerStore is shown   *)
(* to implement.  A request may be lost, its answer may be lost, and it    *)
(* may still arrive after its client gave up, once or several times; a     *)
(* command can be killed at any step, and what it had downloaded stays.    *)
(* What a client does on its own disk is atomic here; modules Snapshot,    *)
(* Checkout and GraphWalk open up those steps.                             *)
(***************************************************************************)
EXTENDS Objects, SequencesExt

CONSTANTS
  Client,   \* the client repositories
  MaxLate   \* bound: how many requests are kept for a late arrival

ASSUME LateAssumption == MaxLate \in Nat

VARIABLES
  stored,  \* server: the objects that can be fetched
  tip,     \* server: the tip of the branch, or NoHash
  local,   \* local[p]: the objects that p can read
  log,     \* log[p]: the commitlog of the branch at p
  pc,      \* pc[p]: how far p's command is
  old,     \* old[p]: the tip p starts from: of the server, in a push; its
           \* own, in a pull or a clone
  next,    \* next[p]: the tip p wants to get to
  objs,    \* objs[p]: the objects left to upload, or those already walked
  late,    \* the requests that their clients have given up
  acked    \* history: the commits whose push was reported a success

vars == <<stored, tip, local, log, pc, old, next, objs, late, acked>>

server == <<stored, tip>>

PutRequest == [op : {"put"}, hash : Hash]
UpdateRequest == [op : {"update"}, old : Hash \union {NoHash}, new : Hash]

PC == {"absent", "idle", "pushRefs", "upload", "update",
       "pullRefs", "pullWalk", "cloneRefs", "cloneWalk"}

\* A client either has an initialised, empty repository or has none yet.
Init ==
  /\ stored = {}
  /\ tip = NoHash
  /\ local = [p \in Client |-> {}]
  /\ log = [p \in Client |-> <<>>]
  /\ pc \in [Client -> {"absent", "idle"}]
  /\ old = [p \in Client |-> NoHash]
  /\ next = [p \in Client |-> NoHash]
  /\ objs = [p \in Client |-> {}]
  /\ late = {}
  /\ acked = {}

-----------------------------------------------------------------------------
\* The tip of a branch log.
TipOf(l) == IF l = <<>> THEN NoHash ELSE Last(l)

\* A commit refers to its tree first and to its parents after it.
Parents(c) == Tail(Refs[c])

\* What graph.history may make of the commits S of a graph, in whatever order
\* it comes to unrelated ones.  The search itself is in GraphWalk.
Listings(S) == {l \in BoundedSeq(S, Cardinality(S)) : Lists(l, S)}

TreeOf(c) == Refs[c][1].hash

\* The command of p ends; the repository is "idle" or, after a clone that
\* failed, still "absent".
Leave(p, where) ==
  /\ pc' = [pc EXCEPT ![p] = where]
  /\ old' = [old EXCEPT ![p] = NoHash]
  /\ next' = [next EXCEPT ![p] = NoHash]
  /\ objs' = [objs EXCEPT ![p] = {}]

Home(p) == IF pc[p] \in {"cloneRefs", "cloneWalk"} THEN "absent" ELSE "idle"

Goto(p, where) == pc' = [pc EXCEPT ![p] = where]

\* Mutant: the commit does not name the tip as its parent.
CommitUnlinked(p) ==
  /\ pc[p] = "idle"
  /\ \E c \in Hash \ Range(log[p]) :
       /\ Kind[c] = "commit"
       /\ Parents(c) = <<>>
       /\ local' = [local EXCEPT ![p] = @ \union {c} \union Reach[TreeOf(c)]]
       /\ log' = [log EXCEPT ![p] = Append(@, c)]
  /\ UNCHANGED <<server, pc, old, next, objs, late, acked>>

\* createCommit: a commit of any tree that CreateTree can write, which lists
\* blobs only, and whose parent is the branch tip; the tip must be readable.
Commit(p) ==
  /\ pc[p] = "idle"
  /\ log[p] # <<>> => Last(log[p]) \in local[p]
  /\ \E c \in Hash :
       /\ Kind[c] = "commit"
       /\ TypedRefs(c) /\ TypedRefs(TreeOf(c))
       /\ Parents(c) = IF log[p] = <<>> THEN <<>>
                       ELSE <<[hash |-> Last(log[p]), type |-> "commit"]>>
       /\ local' = [local EXCEPT ![p] = @ \union {c} \union Reach[TreeOf(c)]]
       /\ log' = [log EXCEPT ![p] = Append(@, c)]
  /\ UNCHANGED <<server, pc, old, next, objs, late, acked>>

-----------------------------------------------------------------------------
\* Push locks the repository and reads its tip; there must be one.
PushBegin(p) ==
  /\ pc[p] = "idle"
  /\ log[p] # <<>>
  /\ next' = [next EXCEPT ![p] = Last(log[p])]
  /\ Goto(p, "pushRefs")
  /\ UNCHANGED <<server, local, log, old, objs, late, acked>>

\* The remote tip is read and the local graph loaded.  The tips are equal:
\* the push is a success.
PushNothing(p) ==
  /\ pc[p] = "pushRefs"
  /\ Complete(next[p], local[p])
  /\ tip = next[p]
  /\ acked' = acked \union {next[p]}
  /\ Leave(p, "idle")
  /\ UNCHANGED <<server, local, log, late>>

\* The remote tip is not among the tip's ancestors, or the local graph is
\* not complete.
PushRefused(p) ==
  /\ pc[p] = "pushRefs"
  /\ \/ ~ Complete(next[p], local[p])
     \/ tip # NoHash /\ tip \notin Commits(next[p])
  /\ Leave(p, "idle")
  /\ UNCHANGED <<server, local, log, late, acked>>

\* A fast-forward: the observed tip becomes the lease.
PushPlan(p) ==
  /\ pc[p] = "pushRefs"
  /\ Complete(next[p], local[p])
  /\ tip # next[p]
  /\ tip = NoHash \/ tip \in Commits(next[p])
  /\ old' = [old EXCEPT ![p] = tip]
  /\ objs' = [objs EXCEPT ![p] = Reach[next[p]]]
  /\ Goto(p, "upload")
  /\ UNCHANGED <<server, local, log, next, late, acked>>

\* HEAD says that the server has the object.
Skip(p, h) ==
  /\ pc[p] = "upload"
  /\ h \in objs[p] \cap stored
  /\ objs' = [objs EXCEPT ![p] = @ \ {h}]
  /\ UNCHANGED <<server, local, log, pc, old, next, late, acked>>

\* HEAD says 404, and the object is PUT.
Upload(p, h) ==
  /\ pc[p] = "upload"
  /\ h \in objs[p] \ stored
  /\ stored' = stored \union {h}
  /\ objs' = [objs EXCEPT ![p] = @ \ {h}]
  /\ UNCHANGED <<tip, local, log, pc, old, next, late, acked>>

\* HEAD says 404, and the PUT fails: it was done or it was not, or it is
\* still to arrive.  The push ends.
UploadUnheard(p, h) ==
  /\ pc[p] = "upload"
  /\ h \in objs[p] \ stored
  /\ \/ stored' = stored \union {h} /\ UNCHANGED late
     \/ /\ UNCHANGED stored
        /\ late' = late \union {[op |-> "put", hash |-> h]}
        /\ Cardinality(late') <= MaxLate
  /\ Leave(p, "idle")
  /\ UNCHANGED <<tip, local, log, acked>>

\* All uploads have succeeded; the update is sent.
Uploaded(p) ==
  /\ pc[p] = "upload"
  /\ objs[p] = {}
  /\ Goto(p, "update")
  /\ UNCHANGED <<server, local, log, old, next, objs, late, acked>>

-----------------------------------------------------------------------------
\* Mutant: the lease is not compared.
AcceptsAnyOld(o, n) ==
  /\ Complete(n, stored)
  /\ o # NoHash => o \in Commits(n)

\* The server's answer to an update (CompareRefs to PublishRefs in
\* ServerStore).
Accepts(o, n) ==
  /\ tip = o
  /\ Complete(n, stored)
  /\ o # NoHash => o \in Commits(n)

\* What the server does with an update.
Handle(o, n) == tip' = IF Accepts(o, n) THEN n ELSE tip

\* The update is answered: 200, or a conflict that is not tried again.
Updated(p) ==
  /\ pc[p] = "update"
  /\ Handle(old[p], next[p])
  /\ acked' = IF Accepts(old[p], next[p]) THEN acked \union {next[p]} ELSE acked
  /\ Leave(p, "idle")
  /\ UNCHANGED <<stored, local, log, late>>

\* Mutant: an update without an answer is taken for a success.
UpdateAssumed(p) ==
  /\ pc[p] = "update"
  /\ UNCHANGED tip
  /\ late' = late \union {[op |-> "update", old |-> old[p], new |-> next[p]]}
  /\ Cardinality(late') <= MaxLate
  /\ acked' = acked \union {next[p]}
  /\ Leave(p, "idle")
  /\ UNCHANGED <<stored, local, log>>

\* No answer arrives: the update was handled or lost, or is still to arrive.
UpdateUnheard(p) ==
  /\ pc[p] = "update"
  /\ \/ Handle(old[p], next[p]) /\ UNCHANGED late
     \/ /\ UNCHANGED tip
        /\ late' = late \union {[op |-> "update", old |-> old[p], new |-> next[p]]}
        /\ Cardinality(late') <= MaxLate
  /\ Leave(p, "idle")
  /\ UNCHANGED <<stored, local, log, acked>>

\* Mutant: the request is stored where its object should be.
ArriveLateWhole(m) ==
  /\ stored' = stored \union {m}
  /\ UNCHANGED <<tip, local, log, pc, old, next, objs, late, acked>>

\* A request arrives late, perhaps not for the last time.
ArriveLate(m) ==
  /\ \/ /\ m.op = "put"
        /\ stored' = stored \union {m.hash}
        /\ UNCHANGED tip
     \/ /\ m.op = "update"
        /\ Handle(m.old, m.new)
        /\ UNCHANGED stored
  /\ UNCHANGED <<local, log, pc, old, next, objs, late, acked>>

-----------------------------------------------------------------------------
\* Pull locks the repository and reads its tip.
PullBegin(p) ==
  /\ pc[p] = "idle"
  /\ old' = [old EXCEPT ![p] = TipOf(log[p])]
  /\ Goto(p, "pullRefs")
  /\ UNCHANGED <<server, local, log, next, objs, late, acked>>

\* The remote branch does not exist, or there is nothing new, or the local
\* graph cannot be loaded.
PullNothing(p) ==
  /\ pc[p] = "pullRefs"
  /\ \/ tip \in {NoHash, old[p]}
     \/ old[p] # NoHash /\ ~ Complete(old[p], local[p])
     \/ old[p] # NoHash /\ tip \in Commits(old[p])
  /\ Leave(p, "idle")
  /\ UNCHANGED <<server, local, log, late, acked>>

\* There is a new tip: the walk over its graph starts.
PullRefs(p) ==
  /\ pc[p] = "pullRefs"
  /\ tip # NoHash /\ tip # old[p]
  /\ old[p] # NoHash =>
       Complete(old[p], local[p]) /\ tip \notin Commits(old[p])
  /\ next' = [next EXCEPT ![p] = tip]
  /\ Goto(p, "pullWalk")
  /\ UNCHANGED <<server, local, log, old, objs, late, acked>>

\* What p's walk can come to next.
Frontier(p) ==
  ({next[p]} \union UNION {Children(x) : x \in objs[p]}) \ objs[p]

\* Mutant: an object that is there already ends this branch of the walk.
FetchStopsAtLocal(p, h) ==
  /\ pc[p] = "pullWalk"
  /\ h \in Frontier(p)
  /\ h \in local[p] \union stored
  /\ local' = [local EXCEPT ![p] = @ \union {h}]
  /\ objs' = [objs EXCEPT ![p] =
               @ \union {h} \union (IF h \in local[p] THEN Reach[h] ELSE {})]
  /\ UNCHANGED <<server, log, pc, old, next, late, acked>>

\* The walk reads an object that p has, or gets it and saves it at once.
Fetch(p, h) ==
  /\ pc[p] = "pullWalk"
  /\ h \in Frontier(p)
  /\ h \in local[p] \union stored
  /\ local' = [local EXCEPT ![p] = @ \union {h}]
  /\ objs' = [objs EXCEPT ![p] = @ \union {h}]
  /\ UNCHANGED <<server, log, pc, old, next, late, acked>>

\* Mutant: a pull that diverged starts over by itself.
PullDivergedRetries(p) ==
  /\ pc[p] = "pullWalk"
  /\ Frontier(p) = {}
  /\ old[p] # NoHash /\ old[p] \notin Commits(next[p])
  /\ Goto(p, "pullRefs")
  /\ objs' = [objs EXCEPT ![p] = {}]
  /\ UNCHANGED <<server, local, log, old, next, late, acked>>

\* The new tip does not descend from the local one.
PullDiverged(p) ==
  /\ pc[p] = "pullWalk"
  /\ Frontier(p) = {}
  /\ old[p] # NoHash /\ old[p] \notin Commits(next[p])
  /\ Leave(p, "idle")
  /\ UNCHANGED <<server, local, log, late, acked>>

\* Mutant: a pull that diverged takes the remote history instead of its own.
PullReplace(p) ==
  /\ pc[p] = "pullWalk"
  /\ Frontier(p) = {}
  /\ \E l \in Listings(Commits(next[p])) : log' = [log EXCEPT ![p] = l]
  /\ Leave(p, "idle")
  /\ UNCHANGED <<server, local, late, acked>>

\* The snapshot is swapped in and the log published: what is downloaded and
\* not known yet is appended, in an order of graph.history.
PullPublish(p) ==
  /\ pc[p] = "pullWalk"
  /\ Frontier(p) = {}
  /\ old[p] # NoHash => old[p] \in Commits(next[p])
  /\ \E l \in Listings(Commits(next[p]) \ Range(log[p])) :
       log' = [log EXCEPT ![p] = @ \o l]
  /\ Leave(p, "idle")
  /\ UNCHANGED <<server, local, late, acked>>

-----------------------------------------------------------------------------
\* Clone starts where there is no repository yet.
CloneBegin(p) ==
  /\ pc[p] = "absent"
  /\ Goto(p, "cloneRefs")
  /\ UNCHANGED <<server, local, log, old, next, objs, late, acked>>

\* The remote branches are read; a remote without any makes an empty clone.
CloneRefs(p) ==
  /\ pc[p] = "cloneRefs"
  /\ IF tip = NoHash
       THEN Leave(p, "idle")
       ELSE /\ next' = [next EXCEPT ![p] = tip]
            /\ Goto(p, "cloneWalk")
            /\ UNCHANGED <<old, objs>>
  /\ UNCHANGED <<server, local, log, late, acked>>

\* The walk keeps what it gets in memory.
CloneFetch(p, h) ==
  /\ pc[p] = "cloneWalk"
  /\ h \in Frontier(p) \cap stored
  /\ objs' = [objs EXCEPT ![p] = @ \union {h}]
  /\ UNCHANGED <<server, local, log, pc, old, next, late, acked>>

\* The staged repository, objects and history, is renamed into place.
ClonePublish(p) ==
  /\ pc[p] = "cloneWalk"
  /\ Frontier(p) = {}
  /\ local' = [local EXCEPT ![p] = objs[p]]
  /\ \E l \in Listings(Commits(next[p])) : log' = [log EXCEPT ![p] = l]
  /\ Leave(p, "idle")
  /\ UNCHANGED <<server, late, acked>>

\* A read fails, times out or is cancelled, the working directory of a pull
\* is not clean, or the process is killed.
Abandon(p) ==
  /\ pc[p] \notin {"absent", "idle"}
  /\ Leave(p, Home(p))
  /\ UNCHANGED <<server, local, log, late, acked>>

\* What a started command does.
Step(p) ==
  \/ PushNothing(p) \/ PushRefused(p) \/ PushPlan(p)
  \/ \E h \in Hash : Skip(p, h) \/ Upload(p, h) \/ UploadUnheard(p, h)
  \/ Uploaded(p) \/ Updated(p) \/ UpdateUnheard(p)
  \/ PullNothing(p) \/ PullRefs(p)
  \/ \E h \in Hash : Fetch(p, h) \/ CloneFetch(p, h)
  \/ PullDiverged(p) \/ PullPublish(p)
  \/ CloneRefs(p) \/ ClonePublish(p)
  \/ Abandon(p)

Next ==
  \/ \E p \in Client :
       Commit(p) \/ PushBegin(p) \/ PullBegin(p) \/ CloneBegin(p) \/ Step(p)
  \/ \E m \in late : ArriveLate(m)

Spec == Init /\ [][Next]_vars

(***************************************************************************)
(* A command that runs is scheduled, and no request waits for ever: the    *)
(* client's timeout of 30 seconds turns it into one of the failures above. *)
(***************************************************************************)
FairSpec == Spec /\ \A p \in Client : WF_vars(Step(p))

-----------------------------------------------------------------------------
TypeOK ==
  /\ stored \subseteq Hash
  /\ tip \in Hash \union {NoHash}
  /\ local \in [Client -> SUBSET Hash]
  /\ log \in [Client -> Seq(Hash)]
  /\ pc \in [Client -> PC]
  /\ old \in [Client -> Hash \union {NoHash}]
  /\ next \in [Client -> Hash \union {NoHash}]
  /\ objs \in [Client -> SUBSET Hash]
  /\ late \subseteq PutRequest \union UpdateRequest
  /\ acked \subseteq Hash

\* A branch log always ends with a commit whose whole graph the client has,
\* although an interrupted pull leaves commits without their trees and
\* parents among its objects (docs/client.md:88-91).
LocalComplete ==
  \A p \in Client : log[p] # <<>> => Complete(Last(log[p]), local[p])

\* A log made by commits, pulls and clones in any order lists exactly the
\* ancestors of its tip, parents first: pulling appends neither too much nor
\* too little to it.
LogIsHistory ==
  \A p \in Client : log[p] # <<>> => Lists(log[p], Commits(Last(log[p])))

\* Whatever other clients push meanwhile, no command takes a commit off a log
\* or puts one before another: a commit that is not pushed yet is never lost to
\* a pull of a history that diverged (Pull refuses it).
LogAppendOnly == [][\A p \in Client : IsPrefix(log[p], log'[p])]_vars

\* A push reported as a success stays one, whichever requests of its own or
\* of other clients arrive late or twice (docs/client.md:66-73).
AckedSurvive ==
  \A c \in acked : tip # NoHash /\ c \in Commits(tip)

\* The one branch of the register.
Register == INSTANCE RefRegister
  WITH Branch <- {"main"}, Under <- {}, tips <- [b \in {"main"} |-> tip]

\* Pushes, whatever is lost, repeated or late, only add objects and move the
\* branch forward to complete graphs.
ImplementsRegister == Register!RegisterSpec

\* Every command ends: an upload and a walk get somewhere with each step,
\* and no refusal starts the command again.
CommandsEnd ==
  \A p \in Client :
    pc[p] \notin {"absent", "idle"} ~> pc[p] \in {"absent", "idle"}
=============================================================================
