--------------------------- MODULE ServerLifecycle ---------------------------
(***************************************************************************)
(* The server process around the store: Run in src/server/serve.go, from   *)
(* the lock file of the data directory to its removal, and the gate, the   *)
(* count and the slots of the handlers in src/server/http.go.  Several     *)
(* processes may be started on one data directory, and killed; handlers    *)
(* are goroutines of the process whose connection they serve.              *)
(***************************************************************************)
EXTENDS Naturals, FiniteSets

CONSTANTS
  Server,    \* processes; one that ended may be started again
  Handler,   \* goroutines that net/http may run at a time
  MaxSlots,  \* cap(h.slots)
  NoServer

ASSUME LifecycleAssumption ==
  /\ IsFiniteSet(Handler)
  /\ MaxSlots \in Nat
  /\ NoServer \notin Server

VARIABLES
  lockFile,  \* the process whose number .server.lock holds
  pc,        \* how far Run has come in each process
  closing,   \* closing[s]: the gate of s is shut
  active,    \* active[s]: the count of the wait group
  slots,     \* slots[s]: the number of entries in the channel
  host,      \* the process a handler runs in
  phase      \* how far a handler has come

vars == <<lockFile, pc, closing, active, slots, host, phase>>

\* The stages of Run, in order.
Stages == {"absent", "starting", "serving", "shutdown", "closing", "closed",
           "waiting", "drained", "released"}

\* The stages from the creation of the lock file to its removal.
Holding == Stages \ {"absent", "released"}

\* The phases of a handler: "accepted" before the gate, "entered" once it is
\* counted, "working" with a slot, "leaving" when it has given the slot back.
Phases == {"none", "accepted", "entered", "working", "leaving"}

Counted == {"entered", "working", "leaving"}

InPhase(s, P) == {h \in Handler : host[h] = s /\ phase[h] \in P}

Init ==
  /\ lockFile = NoServer
  /\ pc = [s \in Server |-> "absent"]
  /\ closing = [s \in Server |-> FALSE]
  /\ active = [s \in Server |-> 0]
  /\ slots = [s \in Server |-> 0]
  /\ host = [h \in Handler |-> NoServer]
  /\ phase = [h \in Handler |-> "none"]

-----------------------------------------------------------------------------
(* The process *)

\* Run goes on from one stage to the next.
Goes(s, from, to) ==
  /\ pc[s] = from
  /\ pc' = [pc EXCEPT ![s] = to]

handlerVars == <<closing, active, slots, host, phase>>

\* Mutant: the removal is deferred before the creation can have failed.
StartRemoves(s) ==
  /\ pc[s] = "absent"
  /\ IF lockFile = NoServer
     THEN lockFile' = s /\ Goes(s, "absent", "starting")
     ELSE lockFile' = NoServer /\ UNCHANGED pc
  /\ UNCHANGED handlerVars

\* O_EXCL: the lock file must not exist.
Start(s) ==
  /\ lockFile = NoServer
  /\ lockFile' = s
  /\ Goes(s, "absent", "starting")
  /\ UNCHANGED handlerVars

\* The store, the handler or the listener cannot be made; the deferred
\* removal goes by the path, whoever wrote the file.
StartFails(s) ==
  /\ Goes(s, "starting", "absent")
  /\ lockFile' = NoServer
  /\ UNCHANGED handlerVars

\* A new handler with its gate open, and the listener.
Listen(s) ==
  /\ Goes(s, "starting", "serving")
  /\ closing' = [closing EXCEPT ![s] = FALSE]
  /\ active' = [active EXCEPT ![s] = 0]
  /\ slots' = [slots EXCEPT ![s] = 0]
  /\ UNCHANGED <<lockFile, host, phase>>

\* The context is cancelled by a signal.
Signal(s) ==
  /\ Goes(s, "serving", "shutdown")
  /\ UNCHANGED <<lockFile, handlerVars>>

\* The accept loop ends with an error, and Run returns.
ServeFails(s) ==
  /\ Goes(s, "serving", "closing")
  /\ UNCHANGED <<lockFile, handlerVars>>

\* Shutdown returns when no connection is active any more, or after five
\* seconds with handlers that still run.
ShutdownReturns(s) ==
  /\ Goes(s, "shutdown", "closing")
  /\ UNCHANGED <<lockFile, handlerVars>>

\* srv.Close: no connection delivers another request.
CloseServer(s) ==
  /\ Goes(s, "closing", "closed")
  /\ UNCHANGED <<lockFile, handlerVars>>

\* Mutant: the handlers are not waited for.
ShutGateOnly(s) ==
  /\ Goes(s, "closed", "drained")
  /\ closing' = [closing EXCEPT ![s] = TRUE]
  /\ UNCHANGED <<lockFile, active, slots, host, phase>>

\* closeAndWait, under stateMu.
ShutGate(s) ==
  /\ Goes(s, "closed", "waiting")
  /\ closing' = [closing EXCEPT ![s] = TRUE]
  /\ UNCHANGED <<lockFile, active, slots, host, phase>>

\* closeAndWait: active.Wait().
WaitActive(s) ==
  /\ active[s] = 0
  /\ Goes(s, "waiting", "drained")
  /\ UNCHANGED <<lockFile, handlerVars>>

RemoveLock(s) ==
  /\ Goes(s, "drained", "released")
  /\ lockFile' = NoServer
  /\ UNCHANGED handlerVars

\* The goroutines end with their process.
EndHandlers(s) ==
  /\ phase' = [h \in Handler |-> IF host[h] = s THEN "none" ELSE phase[h]]
  /\ host' = [h \in Handler |-> IF host[h] = s THEN NoServer ELSE host[h]]

\* Run has returned, and main after it.
Exit(s) ==
  /\ Goes(s, "released", "absent")
  /\ EndHandlers(s)
  /\ UNCHANGED <<lockFile, closing, active, slots>>

Kill(s) ==
  /\ pc[s] \in Holding
  /\ pc' = [pc EXCEPT ![s] = "absent"]
  /\ EndHandlers(s)
  /\ UNCHANGED <<lockFile, closing, active, slots>>

\* The administrator removes the lock file of a process that is gone.
Recover ==
  /\ lockFile # NoServer
  /\ pc[lockFile] = "absent"
  /\ lockFile' = NoServer
  /\ UNCHANGED <<pc, handlerVars>>

-----------------------------------------------------------------------------
(* The handlers *)

Moves(h, from, to) ==
  /\ phase[h] = from
  /\ phase' = [phase EXCEPT ![h] = to]
  /\ UNCHANGED <<lockFile, pc, closing>>

\* net/http has read a request of a connection that is not closed yet.
Arrive(h, s) ==
  /\ pc[s] \in {"serving", "shutdown", "closing"}
  /\ Moves(h, "none", "accepted")
  /\ host' = [host EXCEPT ![h] = s]
  /\ UNCHANGED <<active, slots>>

\* ServeHTTP under stateMu: the handler is counted while the gate is open.
Enter(h) ==
  /\ phase[h] = "accepted" /\ ~ closing[host[h]]
  /\ Moves(h, "accepted", "entered")
  /\ active' = [active EXCEPT ![host[h]] = @ + 1]
  /\ UNCHANGED <<host, slots>>

\* 503: the server is shutting down.
TurnAway(h) ==
  /\ phase[h] = "accepted" /\ closing[host[h]]
  /\ Moves(h, "accepted", "none")
  /\ host' = [host EXCEPT ![h] = NoServer]
  /\ UNCHANGED <<active, slots>>

\* A health check, a refused token, a wrong path, or 503 when every slot is
\* taken: nothing but the count to give back.
Answer(h) ==
  /\ Moves(h, "entered", "leaving")
  /\ UNCHANGED <<host, active, slots>>

TakeSlot(h) ==
  /\ phase[h] = "entered" /\ slots[host[h]] < MaxSlots
  /\ Moves(h, "entered", "working")
  /\ slots' = [slots EXCEPT ![host[h]] = @ + 1]
  /\ UNCHANGED <<host, active>>

\* Mutant: a handler that panics leaves its slot taken.
GiveSlotUnlessPanic(h) ==
  /\ Moves(h, "working", "leaving")
  /\ \E n \in {0, 1} : slots' = [slots EXCEPT ![host[h]] = @ - n]
  /\ UNCHANGED <<host, active>>

\* The operation of the store returns, or panics: the deferred calls run in
\* reverse order, the slot first.
GiveSlot(h) ==
  /\ Moves(h, "working", "leaving")
  /\ slots' = [slots EXCEPT ![host[h]] = @ - 1]
  /\ UNCHANGED <<host, active>>

\* Mutant: the count is not taken back.
LeaveCounted(h) ==
  /\ Moves(h, "leaving", "none")
  /\ host' = [host EXCEPT ![h] = NoServer]
  /\ UNCHANGED <<active, slots>>

\* active.Done().
Leave(h) ==
  /\ Moves(h, "leaving", "none")
  /\ active' = [active EXCEPT ![host[h]] = @ - 1]
  /\ host' = [host EXCEPT ![h] = NoServer]
  /\ UNCHANGED slots

-----------------------------------------------------------------------------
\* What Run does once it has been told to stop.
Stopping(s) ==
  \/ ShutdownReturns(s) \/ CloseServer(s) \/ ShutGate(s) \/ WaitActive(s)
  \/ RemoveLock(s) \/ Exit(s)

\* What a handler does on its own.
Work(h) ==
  Enter(h) \/ TurnAway(h) \/ Answer(h) \/ TakeSlot(h) \/ GiveSlot(h) \/ Leave(h)

Next ==
  \/ \E s \in Server :
       \/ Start(s) \/ StartFails(s) \/ Listen(s) \/ Signal(s) \/ ServeFails(s)
       \/ Stopping(s) \/ Kill(s)
  \/ Recover
  \/ \E h \in Handler : Work(h) \/ \E s \in Server : Arrive(h, s)

Spec == Init /\ [][Next]_vars

\* Goroutines are scheduled, Shutdown has its timeout of five seconds, and the
\* operations of the store return; nothing else has to happen.
FairSpec ==
  /\ Spec
  /\ \A s \in Server : WF_vars(Stopping(s))
  /\ \A h \in Handler : WF_vars(Work(h))

-----------------------------------------------------------------------------
TypeOK ==
  /\ lockFile \in Server \union {NoServer}
  /\ pc \in [Server -> Stages]
  /\ closing \in [Server -> BOOLEAN]
  /\ active \in [Server -> Nat]
  /\ slots \in [Server -> Nat]
  /\ host \in [Handler -> Server \union {NoServer}]
  /\ phase \in [Handler -> Phases]

\* At most one process is between the creation and the removal of the lock
\* file, and the file is its own: no process ever removes another's.
OneServer == \A s \in Server : pc[s] \in Holding => lockFile = s

\* docs/server.md: the server "finishes active handlers before releasing its
\* storage lock", however late a handler gets to the gate and whether or not
\* Shutdown timed out: the file names the process of every handler inside.
WorkCovered ==
  \A h \in Handler : phase[h] \in Counted => lockFile = host[h]

\* The wait group and the channel count exactly the handlers inside and those
\* at work: no slot is lost on any way out, and no more than MaxSlots work.
CountsExact ==
  \A s \in Server : pc[s] \in Holding \ {"starting"} =>
    /\ active[s] = Cardinality(InPhase(s, Counted))
    /\ slots[s] = Cardinality(InPhase(s, {"working"}))
    /\ slots[s] <= MaxSlots

\* A process told to stop comes to its end, whatever its handlers are doing.
StopEnds == \A s \in Server : pc[s] = "shutdown" ~> pc[s] = "absent"
=============================================================================
