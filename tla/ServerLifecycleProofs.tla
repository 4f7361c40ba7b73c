----------------------- MODULE ServerLifecycleProofs -----------------------
(***************************************************************************)
(* Proofs about module ServerLifecycle, for any number of processes,       *)
(* handlers and slots: one server at a time, no handler inside without the *)
(* lock file of its process, and exact counts.                             *)
(***************************************************************************)
EXTENDS ServerLifecycle, FiniteSetTheorems, TLAPS

\* The stages in which a process has its handler.
Running == Stages \ {"absent", "starting"}

\* Every handler runs in a process that has got as far as listening.
HostInv ==
  \A h \in Handler :
    /\ phase[h] = "none" <=> host[h] = NoServer
    /\ phase[h] # "none" => pc[host[h]] \in Running

\* The gate is shut before the count is waited for, and stays shut.
GateInv == \A s \in Server : pc[s] \in {"waiting", "drained", "released"} => closing[s]

\* CountsExact, up to the end of the process.
CountInv ==
  \A s \in Server : pc[s] \in Running =>
    /\ active[s] = Cardinality(InPhase(s, Counted))
    /\ slots[s] = Cardinality(InPhase(s, {"working"}))
    /\ slots[s] <= MaxSlots

\* Once drained, a process stays empty.
DrainInv == \A s \in Server : pc[s] \in {"drained", "released"} => active[s] = 0

Inv ==
  /\ TypeOK
  /\ OneServer
  /\ HostInv
  /\ GateInv
  /\ CountInv
  /\ DrainInv

-----------------------------------------------------------------------------
LEMMA CountFacts ==
  ASSUME NEW s, NEW P
  PROVE  IsFiniteSet(InPhase(s, P)) /\ Cardinality(InPhase(s, P)) \in Nat
<1>1. InPhase(s, P) \in SUBSET Handler
  BY DEF InPhase
<1>2. IsFiniteSet(InPhase(s, P))
  BY <1>1, FS_Subset, LifecycleAssumption
<1> QED
  BY <1>2, FS_CardinalityType

\* One handler more, and one less.
LEMMA Joins ==
  ASSUME NEW s, NEW P, NEW h, h \notin InPhase(s, P), NEW S, S = InPhase(s, P) \union {h}
  PROVE  Cardinality(S) = Cardinality(InPhase(s, P)) + 1
BY CountFacts, FS_AddElement

LEMMA Parts ==
  ASSUME NEW s, NEW P, NEW h, h \in InPhase(s, P), NEW S, S = InPhase(s, P) \ {h}
  PROVE  /\ Cardinality(S) = Cardinality(InPhase(s, P)) - 1
         /\ Cardinality(InPhase(s, P)) > 0
<1>1. /\ IsFiniteSet(S)
      /\ Cardinality(S) = Cardinality(InPhase(s, P)) - 1
  BY CountFacts, FS_RemoveElement
<1>2. Cardinality(S) \in Nat /\ Cardinality(InPhase(s, P)) \in Nat
  BY <1>1, FS_CardinalityType, CountFacts
<1> QED
  BY <1>1, <1>2

\* The handlers that a process has lost or not yet got.
LEMMA Emptied ==
  ASSUME NEW S, S = {}
  PROVE  Cardinality(S) = 0
BY FS_EmptySet

LEMMA StageFacts ==
  /\ Holding = {"starting", "serving", "shutdown", "closing", "closed",
                "waiting", "drained"}
  /\ Running = {"serving", "shutdown", "closing", "closed", "waiting",
                "drained", "released"}
BY DEF Holding, Running, Stages

LEMMA InitialInv == Init => Inv
BY StageFacts, LifecycleAssumption
DEF Init, Inv, TypeOK, OneServer, HostInv, GateInv, CountInv, DrainInv, Stages,
    Phases

\* What a step of a process other than the creation and the end of its handler
\* leaves alone.
LEMMA ProcessSteps ==
  ASSUME NEW s \in Server
  PROVE  Start(s) \/ StartFails(s) \/ Signal(s) \/ ServeFails(s)
         \/ ShutdownReturns(s) \/ CloseServer(s) \/ ShutGate(s)
         \/ WaitActive(s) \/ RemoveLock(s)
         => UNCHANGED <<active, slots, host, phase>>
BY DEF Start, StartFails, Signal, ServeFails, ShutdownReturns, CloseServer,
   ShutGate, WaitActive, RemoveLock, handlerVars

\* Only handlers that have been let in count.
LEMMA HostFacts ==
  ASSUME TypeOK, HostInv, NEW h \in Handler, phase[h] # "none"
  PROVE  host[h] \in Server /\ pc[host[h]] \in Running
BY DEF TypeOK, HostInv

-----------------------------------------------------------------------------
(* The counts, action by action *)

LEMMA CountStep == Inv /\ [Next]_vars => CountInv'
<1> SUFFICES ASSUME Inv, [Next]_vars PROVE CountInv'
  OBVIOUS
<1>0. TypeOK /\ HostInv /\ CountInv
  BY DEF Inv
\* Nobody moves, and no process starts to listen.
<1>1. CASE /\ UNCHANGED <<active, slots, host, phase>>
           /\ \A s \in Server : pc'[s] \in Running => pc[s] \in Running
  BY <1>0, <1>1 DEF CountInv, InPhase
<1>2. ASSUME NEW s \in Server,
             \/ Start(s) \/ StartFails(s) \/ Signal(s) \/ ServeFails(s)
             \/ ShutdownReturns(s) \/ CloseServer(s) \/ ShutGate(s)
             \/ WaitActive(s) \/ RemoveLock(s)
      PROVE  CountInv'
  <2>1. UNCHANGED <<active, slots, host, phase>>
    BY <1>2, ProcessSteps
  <2>2. \A t \in Server : pc'[t] \in Running => pc[t] \in Running
    BY <1>0, <1>2, StageFacts
    DEF Start, StartFails, Signal, ServeFails, ShutdownReturns, CloseServer,
        ShutGate, WaitActive, RemoveLock, Goes, TypeOK
  <2> QED
    BY <1>1, <2>1, <2>2
<1>3. ASSUME NEW s \in Server, Listen(s) PROVE CountInv'
  <2>1. /\ pc[s] = "starting" /\ pc' = [pc EXCEPT ![s] = "serving"]
        /\ active' = [active EXCEPT ![s] = 0] /\ slots' = [slots EXCEPT ![s] = 0]
        /\ UNCHANGED <<host, phase>>
    BY <1>3 DEF Listen, Goes
  <2>2. \A h \in Handler : host[h] # s
    BY <1>0, <2>1, StageFacts, LifecycleAssumption DEF HostInv
  <2>3. InPhase(s, Counted)' = {} /\ InPhase(s, {"working"})' = {}
    BY <2>1, <2>2 DEF InPhase
  <2>4. Cardinality(InPhase(s, Counted)') = 0 /\ Cardinality(InPhase(s, {"working"})') = 0
    BY <2>3, Emptied
  <2>5. ASSUME NEW t \in Server, t # s, pc'[t] \in Running
        PROVE  /\ active'[t] = Cardinality(InPhase(t, Counted)')
               /\ slots'[t] = Cardinality(InPhase(t, {"working"})')
               /\ slots'[t] <= MaxSlots
    BY <1>0, <2>1, <2>5 DEF CountInv, InPhase, TypeOK
  <2> QED
    BY <1>0, <2>1, <2>4, <2>5, LifecycleAssumption DEF CountInv, TypeOK
<1>4. ASSUME NEW s \in Server, Exit(s) \/ Kill(s) PROVE CountInv'
  <2>1. /\ pc' = [pc EXCEPT ![s] = "absent"]
        /\ UNCHANGED <<active, slots>> /\ EndHandlers(s)
    BY <1>4 DEF Exit, Kill, Goes
  <2>2. ASSUME NEW t \in Server, pc'[t] \in Running
        PROVE  t # s /\ pc[t] \in Running
    BY <1>0, <2>1, <2>2, StageFacts DEF TypeOK
  <2>3. ASSUME NEW t \in Server, t # s, NEW P
        PROVE  InPhase(t, P)' = InPhase(t, P)
    BY <1>0, <2>1, <2>3, LifecycleAssumption DEF InPhase, EndHandlers, TypeOK
  <2> QED
    BY <1>0, <2>1, <2>2, <2>3 DEF CountInv
<1>5. CASE Recover
  BY <1>1, <1>5 DEF Recover, handlerVars
<1>6. ASSUME NEW h \in Handler, NEW s \in Server, Arrive(h, s) PROVE CountInv'
  <2>1. /\ phase[h] = "none" /\ phase' = [phase EXCEPT ![h] = "accepted"]
        /\ host' = [host EXCEPT ![h] = s] /\ UNCHANGED <<active, slots, pc>>
    BY <1>6 DEF Arrive, Moves
  <2>2. ASSUME NEW t \in Server
        PROVE  /\ InPhase(t, Counted)' = InPhase(t, Counted)
               /\ InPhase(t, {"working"})' = InPhase(t, {"working"})
    BY <1>0, <2>1 DEF InPhase, Counted, TypeOK
  <2> QED
    BY <1>0, <2>1, <2>2 DEF CountInv
<1>7. ASSUME NEW h \in Handler, Enter(h) PROVE CountInv'
  <2> DEFINE s == host[h]
  <2>1. /\ phase[h] = "accepted" /\ phase' = [phase EXCEPT ![h] = "entered"]
        /\ active' = [active EXCEPT ![s] = @ + 1] /\ UNCHANGED <<host, slots, pc>>
    BY <1>7 DEF Enter, Moves
  <2>2. s \in Server
    BY <1>0, <2>1, HostFacts
  <2>3. /\ InPhase(s, Counted)' = InPhase(s, Counted) \union {h}
        /\ h \notin InPhase(s, Counted)
    BY <1>0, <2>1 DEF InPhase, Counted, TypeOK
  <2>4. Cardinality(InPhase(s, Counted)') = Cardinality(InPhase(s, Counted)) + 1
    BY <2>3, Joins
  <2>5. ASSUME NEW t \in Server
        PROVE  /\ t # s => InPhase(t, Counted)' = InPhase(t, Counted)
               /\ InPhase(t, {"working"})' = InPhase(t, {"working"})
    BY <1>0, <2>1 DEF InPhase, Counted, TypeOK
  <2> QED
    BY <1>0, <2>1, <2>2, <2>4, <2>5 DEF CountInv, TypeOK
<1>8. ASSUME NEW h \in Handler, TurnAway(h) \/ Answer(h) PROVE CountInv'
  <2>1. /\ UNCHANGED <<active, slots, pc>>
        /\ phase \in [Handler -> Phases] /\ host \in [Handler -> Server \union {NoServer}]
    BY <1>0, <1>8 DEF TurnAway, Answer, Moves, TypeOK
  <2>2. ASSUME NEW t \in Server
        PROVE  /\ InPhase(t, Counted)' = InPhase(t, Counted)
               /\ InPhase(t, {"working"})' = InPhase(t, {"working"})
    <3>1. CASE TurnAway(h)
      BY <2>1, <3>1, LifecycleAssumption DEF InPhase, Counted, TurnAway, Moves
    <3>2. CASE Answer(h)
      BY <2>1, <3>2 DEF InPhase, Counted, Answer, Moves
    <3> QED
      BY <1>8, <3>1, <3>2
  <2> QED
    BY <1>0, <2>1, <2>2 DEF CountInv
<1>9. ASSUME NEW h \in Handler, TakeSlot(h) PROVE CountInv'
  <2> DEFINE s == host[h]
  <2>1. /\ phase[h] = "entered" /\ phase' = [phase EXCEPT ![h] = "working"]
        /\ slots[s] < MaxSlots
        /\ slots' = [slots EXCEPT ![s] = @ + 1] /\ UNCHANGED <<host, active, pc>>
    BY <1>9 DEF TakeSlot, Moves
  <2>2. s \in Server
    BY <1>0, <2>1, HostFacts
  <2>3. /\ InPhase(s, {"working"})' = InPhase(s, {"working"}) \union {h}
        /\ h \notin InPhase(s, {"working"})
    BY <1>0, <2>1 DEF InPhase, TypeOK
  <2>4. Cardinality(InPhase(s, {"working"})') = Cardinality(InPhase(s, {"working"})) + 1
    BY <2>3, Joins
  <2>5. ASSUME NEW t \in Server
        PROVE  /\ InPhase(t, Counted)' = InPhase(t, Counted)
               /\ t # s => InPhase(t, {"working"})' = InPhase(t, {"working"})
    BY <1>0, <2>1 DEF InPhase, Counted, TypeOK
  <2> QED
    BY <1>0, <2>1, <2>2, <2>4, <2>5, LifecycleAssumption DEF CountInv, TypeOK
<1>10. ASSUME NEW h \in Handler, GiveSlot(h) PROVE CountInv'
  <2> DEFINE s == host[h]
  <2>1. /\ phase[h] = "working" /\ phase' = [phase EXCEPT ![h] = "leaving"]
        /\ slots' = [slots EXCEPT ![s] = @ - 1] /\ UNCHANGED <<host, active, pc>>
    BY <1>10 DEF GiveSlot, Moves
  <2>2. s \in Server
    BY <1>0, <2>1, HostFacts
  <2>3. /\ InPhase(s, {"working"})' = InPhase(s, {"working"}) \ {h}
        /\ h \in InPhase(s, {"working"})
    BY <1>0, <2>1 DEF InPhase, TypeOK
  <2>4. Cardinality(InPhase(s, {"working"})') = Cardinality(InPhase(s, {"working"})) - 1
    BY <2>3, Parts
  <2>5. ASSUME NEW t \in Server
        PROVE  /\ InPhase(t, Counted)' = InPhase(t, Counted)
               /\ t # s => InPhase(t, {"working"})' = InPhase(t, {"working"})
    BY <1>0, <2>1 DEF InPhase, Counted, TypeOK
  <2> QED
    BY <1>0, <2>1, <2>2, <2>4, <2>5, LifecycleAssumption DEF CountInv, TypeOK
<1>11. ASSUME NEW h \in Handler, Leave(h) PROVE CountInv'
  <2>1. PICK s \in Server : s = host[h]
    BY <1>0, <1>11, HostFacts DEF Leave, Moves
  <2>2. /\ phase[h] = "leaving" /\ phase' = [phase EXCEPT ![h] = "none"]
        /\ active' = [active EXCEPT ![s] = @ - 1]
        /\ host' = [host EXCEPT ![h] = NoServer] /\ UNCHANGED <<slots, pc>>
    BY <1>11, <2>1 DEF Leave, Moves
  <2>3. /\ InPhase(s, Counted)' = InPhase(s, Counted) \ {h}
        /\ h \in InPhase(s, Counted)
    BY <1>0, <2>1, <2>2, LifecycleAssumption DEF InPhase, Counted, TypeOK
  <2>4. Cardinality(InPhase(s, Counted)') = Cardinality(InPhase(s, Counted)) - 1
    BY <2>3, Parts
  <2>5. ASSUME NEW t \in Server
        PROVE  /\ t # s => InPhase(t, Counted)' = InPhase(t, Counted)
               /\ InPhase(t, {"working"})' = InPhase(t, {"working"})
    BY <1>0, <2>1, <2>2, LifecycleAssumption DEF InPhase, Counted, TypeOK
  <2> QED
    BY <1>0, <2>1, <2>2, <2>4, <2>5 DEF CountInv, TypeOK
<1>12. CASE UNCHANGED vars
  BY <1>1, <1>12 DEF vars
<1> QED
  BY <1>2, <1>3, <1>4, <1>5, <1>6, <1>7, <1>8, <1>9, <1>10, <1>11, <1>12
  DEF Next, Stopping, Work

-----------------------------------------------------------------------------
(* The other parts of the invariant *)

LEMMA TypeStep == Inv /\ [Next]_vars => TypeOK'
<1> SUFFICES ASSUME Inv, [Next]_vars PROVE TypeOK'
  OBVIOUS
<1> USE DEF TypeOK, Moves, Goes, handlerVars
<1>0. TypeOK /\ HostInv /\ CountInv
  BY DEF Inv
<1>1. ASSUME NEW s \in Server,
             \/ Start(s) \/ StartFails(s) \/ Signal(s) \/ ServeFails(s)
             \/ ShutdownReturns(s) \/ CloseServer(s) \/ ShutGate(s)
             \/ WaitActive(s) \/ RemoveLock(s)
      PROVE  TypeOK'
  <2>1. UNCHANGED <<active, slots, host, phase>>
    BY <1>1, ProcessSteps
  <2>2. lockFile' \in {lockFile, s, NoServer}
    BY <1>1
    DEF Start, StartFails, Signal, ServeFails, ShutdownReturns, CloseServer,
        ShutGate, WaitActive, RemoveLock
  <2>3. closing' \in [Server -> BOOLEAN]
    BY <1>0, <1>1
    DEF Start, StartFails, Signal, ServeFails, ShutdownReturns, CloseServer,
        ShutGate, WaitActive, RemoveLock
  <2>4. pc' \in [Server -> Stages]
    BY <1>0, <1>1
    DEF Start, StartFails, Signal, ServeFails, ShutdownReturns, CloseServer,
        ShutGate, WaitActive, RemoveLock, Stages
  <2> QED
    BY <1>0, <2>1, <2>2, <2>3, <2>4
<1>2. ASSUME NEW s \in Server, Listen(s) \/ Exit(s) \/ Kill(s) PROVE TypeOK'
  <2>1. CASE Listen(s)
    BY <1>0, <2>1 DEF Listen, Stages
  <2>2. CASE Exit(s) \/ Kill(s)
    <3>1. phase' \in [Handler -> Phases] /\ host' \in [Handler -> Server \union {NoServer}]
      BY <1>0, <2>2 DEF Exit, Kill, EndHandlers, Phases
    <3>2. pc' = [pc EXCEPT ![s] = "absent"] /\ UNCHANGED <<lockFile, closing, active, slots>>
      BY <2>2 DEF Exit, Kill
    <3> QED
      BY <1>0, <3>1, <3>2 DEF Stages
  <2> QED
    BY <1>2, <2>1, <2>2
<1>3. CASE Recover
  BY <1>0, <1>3 DEF Recover
<1>4. ASSUME NEW h \in Handler, NEW s \in Server, Arrive(h, s) PROVE TypeOK'
  BY <1>0, <1>4 DEF Arrive, Phases
<1>5. ASSUME NEW h \in Handler, Enter(h) \/ TurnAway(h) \/ Answer(h) \/ TakeSlot(h)
      PROVE  TypeOK'
  BY <1>0, <1>5 DEF Enter, TurnAway, Answer, TakeSlot, Phases
<1>6. ASSUME NEW h \in Handler, GiveSlot(h) PROVE TypeOK'
  <2>1. host[h] \in Server /\ pc[host[h]] \in Running
    BY <1>0, <1>6, HostFacts DEF GiveSlot
  <2>2. h \in InPhase(host[h], {"working"})
    BY <1>6 DEF GiveSlot, InPhase
  <2>3. Cardinality(InPhase(host[h], {"working"})) > 0
    BY <2>2, Parts
  <2>4. slots[host[h]] > 0 /\ slots[host[h]] \in Nat
    BY <1>0, <2>1, <2>3 DEF CountInv
  <2> QED
    BY <1>0, <1>6, <2>1, <2>4 DEF GiveSlot, Phases
<1>7. ASSUME NEW h \in Handler, Leave(h) PROVE TypeOK'
  <2>1. host[h] \in Server /\ pc[host[h]] \in Running
    BY <1>0, <1>7, HostFacts DEF Leave
  <2>2. h \in InPhase(host[h], Counted)
    BY <1>7 DEF Leave, InPhase, Counted
  <2>3. Cardinality(InPhase(host[h], Counted)) > 0
    BY <2>2, Parts
  <2>4. active[host[h]] > 0 /\ active[host[h]] \in Nat
    BY <1>0, <2>1, <2>3 DEF CountInv
  <2> QED
    BY <1>0, <1>7, <2>1, <2>4 DEF Leave, Phases
<1>8. CASE UNCHANGED vars
  BY <1>0, <1>8 DEF vars
<1> QED
  BY <1>1, <1>2, <1>3, <1>4, <1>5, <1>6, <1>7, <1>8 DEF Next, Stopping, Work

\* What every step of a handler leaves alone.
LEMMA HandlerSteps ==
  ASSUME NEW h \in Handler
  PROVE  /\ Work(h) => UNCHANGED <<lockFile, pc, closing>>
         /\ \A s \in Server : Arrive(h, s) => UNCHANGED <<lockFile, pc, closing>>
BY DEF Work, Enter, TurnAway, Answer, TakeSlot, GiveSlot, Leave, Arrive, Moves

LEMMA OneStep == Inv /\ [Next]_vars => OneServer'
<1> SUFFICES ASSUME Inv, [Next]_vars PROVE OneServer'
  OBVIOUS
<1> USE StageFacts DEF OneServer
<1>0. TypeOK /\ OneServer
  BY DEF Inv
<1>1. CASE UNCHANGED <<lockFile, pc>>
  BY <1>0, <1>1
<1>2. ASSUME NEW s \in Server, Start(s) \/ StartFails(s) \/ RemoveLock(s)
      PROVE  OneServer'
  BY <1>0, <1>2, LifecycleAssumption DEF Start, StartFails, RemoveLock, Goes, TypeOK
<1>3. ASSUME NEW s \in Server,
             \/ Listen(s) \/ Signal(s) \/ ServeFails(s) \/ ShutdownReturns(s)
             \/ CloseServer(s) \/ ShutGate(s) \/ WaitActive(s) \/ Exit(s) \/ Kill(s)
      PROVE  OneServer'
  BY <1>0, <1>3
  DEF Listen, Signal, ServeFails, ShutdownReturns, CloseServer, ShutGate,
      WaitActive, Exit, Kill, Goes, TypeOK
<1>4. CASE Recover
  BY <1>0, <1>4 DEF Recover, handlerVars
<1> QED
  BY <1>1, <1>2, <1>3, <1>4, HandlerSteps DEF Next, Stopping, vars

LEMMA HostStep == Inv /\ [Next]_vars => HostInv'
<1> SUFFICES ASSUME Inv, [Next]_vars PROVE HostInv'
  OBVIOUS
<1> USE StageFacts, LifecycleAssumption DEF HostInv, Goes, Moves
<1>0. TypeOK /\ HostInv
  BY DEF Inv
<1>1. ASSUME NEW s \in Server,
             \/ Start(s) \/ StartFails(s) \/ Signal(s) \/ ServeFails(s)
             \/ ShutdownReturns(s) \/ CloseServer(s) \/ ShutGate(s)
             \/ WaitActive(s) \/ RemoveLock(s)
      PROVE  HostInv'
  <2>1. UNCHANGED <<host, phase>>
    BY <1>1, ProcessSteps
  <2>2. \A t \in Server : pc[t] \in Running => pc'[t] \in Running
    BY <1>0, <1>1
    DEF Start, StartFails, Signal, ServeFails, ShutdownReturns, CloseServer,
        ShutGate, WaitActive, RemoveLock, TypeOK
  <2> QED
    BY <1>0, <2>1, <2>2 DEF TypeOK
<1>2. ASSUME NEW s \in Server, Listen(s) PROVE HostInv'
  BY <1>0, <1>2 DEF Listen, TypeOK
<1>3. ASSUME NEW s \in Server, Exit(s) \/ Kill(s) PROVE HostInv'
  BY <1>0, <1>3 DEF Exit, Kill, EndHandlers, TypeOK
<1>4. CASE Recover
  BY <1>0, <1>4 DEF Recover, handlerVars
<1>5. ASSUME NEW h \in Handler, NEW s \in Server, Arrive(h, s) PROVE HostInv'
  BY <1>0, <1>5 DEF Arrive, TypeOK
<1>6. ASSUME NEW h \in Handler, Work(h) PROVE HostInv'
  BY <1>0, <1>6
  DEF Work, Enter, TurnAway, Answer, TakeSlot, GiveSlot, Leave, TypeOK
<1>7. CASE UNCHANGED vars
  BY <1>0, <1>7 DEF vars
<1> QED
  BY <1>1, <1>2, <1>3, <1>4, <1>5, <1>6, <1>7 DEF Next, Stopping

LEMMA GateStep == Inv /\ [Next]_vars => GateInv'
<1> SUFFICES ASSUME Inv, [Next]_vars PROVE GateInv'
  OBVIOUS
<1> USE DEF GateInv
<1>0. TypeOK /\ GateInv
  BY DEF Inv
<1>1. CASE UNCHANGED <<pc, closing>>
  BY <1>0, <1>1
<1>2. ASSUME NEW s \in Server, Listen(s) \/ ShutGate(s) PROVE GateInv'
  BY <1>0, <1>2 DEF Listen, ShutGate, Goes, TypeOK
<1>3. ASSUME NEW s \in Server,
             \/ Start(s) \/ StartFails(s) \/ Signal(s) \/ ServeFails(s)
             \/ ShutdownReturns(s) \/ CloseServer(s) \/ WaitActive(s)
             \/ RemoveLock(s) \/ Exit(s) \/ Kill(s)
      PROVE  GateInv'
  BY <1>0, <1>3
  DEF Start, StartFails, Signal, ServeFails, ShutdownReturns, CloseServer,
      WaitActive, RemoveLock, Exit, Kill, Goes, handlerVars, TypeOK
<1> QED
  BY <1>1, <1>2, <1>3, HandlerSteps DEF Next, Stopping, Recover, handlerVars, vars

LEMMA DrainStep == Inv /\ [Next]_vars => DrainInv'
<1> SUFFICES ASSUME Inv, [Next]_vars PROVE DrainInv'
  OBVIOUS
<1> USE DEF DrainInv
<1>0. TypeOK /\ HostInv /\ GateInv /\ CountInv /\ DrainInv
  BY DEF Inv
<1>1. CASE UNCHANGED <<pc, active>>
  BY <1>0, <1>1
<1>2. ASSUME NEW s \in Server, Listen(s) PROVE DrainInv'
  BY <1>0, <1>2 DEF Listen, Goes, TypeOK
<1>3. ASSUME NEW s \in Server,
             \/ Start(s) \/ StartFails(s) \/ Signal(s) \/ ServeFails(s)
             \/ ShutdownReturns(s) \/ CloseServer(s) \/ ShutGate(s)
             \/ WaitActive(s) \/ RemoveLock(s) \/ Exit(s) \/ Kill(s)
      PROVE  DrainInv'
  BY <1>0, <1>3
  DEF Start, StartFails, Signal, ServeFails, ShutdownReturns, CloseServer,
      ShutGate, WaitActive, RemoveLock, Exit, Kill, Goes, handlerVars, TypeOK
\* Nobody enters behind the gate.
<1>4. ASSUME NEW h \in Handler, Enter(h) PROVE DrainInv'
  <2>1. host[h] \in Server /\ ~ closing[host[h]]
    BY <1>0, <1>4, HostFacts DEF Enter
  <2>2. pc[host[h]] \notin {"drained", "released"}
    BY <1>0, <2>1 DEF GateInv
  <2> QED
    BY <1>0, <1>4, <2>1, <2>2 DEF Enter, Moves, TypeOK
\* Who leaves was counted.
<1>5. ASSUME NEW h \in Handler, Leave(h) PROVE DrainInv'
  <2>1. host[h] \in Server /\ pc[host[h]] \in Running
    BY <1>0, <1>5, HostFacts DEF Leave, Moves
  <2>2. h \in InPhase(host[h], Counted)
    BY <1>5 DEF Leave, Moves, InPhase, Counted
  <2>3. Cardinality(InPhase(host[h], Counted)) > 0
    BY <2>2, Parts
  <2>4. active[host[h]] > 0
    BY <1>0, <2>1, <2>3 DEF CountInv
  <2>5. pc[host[h]] \notin {"drained", "released"}
    BY <1>0, <2>1, <2>4
  <2> QED
    BY <1>0, <1>5, <2>1, <2>5 DEF Leave, Moves, TypeOK
<1>6. ASSUME NEW h \in Handler, TurnAway(h) \/ Answer(h) \/ TakeSlot(h) \/ GiveSlot(h)
      PROVE  DrainInv'
  BY <1>1, <1>6 DEF TurnAway, Answer, TakeSlot, GiveSlot, Moves
<1>7. ASSUME NEW h \in Handler, NEW s \in Server, Arrive(h, s) PROVE DrainInv'
  BY <1>1, <1>7 DEF Arrive, Moves
<1> QED
  BY <1>1, <1>2, <1>3, <1>4, <1>5, <1>6, <1>7
  DEF Next, Stopping, Work, Recover, handlerVars, vars

-----------------------------------------------------------------------------
\* The invariant holds with any number of processes and handlers, through
\* failures, kills and recoveries.
THEOREM InvHolds == Spec => []Inv
<1>1. Inv /\ [Next]_vars => Inv'
  BY TypeStep, OneStep, HostStep, GateStep, CountStep, DrainStep DEF Inv
<1> QED
  BY InitialInv, <1>1, PTL DEF Spec

\* The variables keep their types: no count goes below zero.
THEOREM TypeCorrect == Spec => []TypeOK
BY InvHolds, PTL DEF Inv

\* The lock file belongs to the one process that runs the server.
THEOREM OneServerHolds == Spec => []OneServer
BY InvHolds, PTL DEF Inv

\* The lock file outlives every handler inside.
THEOREM WorkCoveredHolds == Spec => []WorkCovered
<1>1. Inv => WorkCovered
  <2> SUFFICES ASSUME Inv, NEW h \in Handler, phase[h] \in Counted
               PROVE  lockFile = host[h]
    BY DEF WorkCovered
  <2>1. TypeOK /\ OneServer /\ HostInv /\ CountInv /\ DrainInv
    BY DEF Inv
  <2>2. host[h] \in Server /\ pc[host[h]] \in Running
    BY <2>1, HostFacts DEF Counted
  <2>3. h \in InPhase(host[h], Counted)
    BY DEF InPhase
  <2>4. Cardinality(InPhase(host[h], Counted)) > 0
    BY <2>3, Parts
  <2>5. active[host[h]] > 0
    BY <2>1, <2>2, <2>4 DEF CountInv
  <2>6. pc[host[h]] \in Holding
    BY <2>1, <2>2, <2>5, StageFacts DEF DrainInv
  <2> QED
    BY <2>1, <2>2, <2>6 DEF OneServer
<1> QED
  BY InvHolds, <1>1, PTL

\* The counts are exact.
THEOREM CountsExactHolds == Spec => []CountsExact
<1>1. Inv => CountsExact
  BY StageFacts DEF Inv, CountInv, CountsExact
<1> QED
  BY InvHolds, <1>1, PTL
=============================================================================
