-------------------------- MODULE LaunchTaskProofs --------------------------
(***************************************************************************)
(* Theorems about LaunchTask for every recipe, budget and set of actors.   *)
(***************************************************************************)
EXTENDS LaunchTaskProps, TLAPS

-----------------------------------------------------------------------------
(* Control points.  An actor that holds the registry entry moves only from *)
(* one holding control point to the next.                                  *)

\* What a driver does between Register and Release.
DriverMove(d) == Work(d) \/ AgentEnds(d) \/ ShadowUpdateFails(d) \/ FinalizeFails(d)

\* A driver at work was holding the entry, and only its own control point
\* and no other actor's changes.
LEMMA DriverMoves ==
    ASSUME PCsOK, NEW d \in Drivers, DriverMove(d)
    PROVE  /\ pc[d] \in Holding
           /\ \E p \in DriverPCs : pc' = [pc EXCEPT ![d] = p]
           /\ UNCHANGED <<slot, cancelled, cpc, cloc, spc, sloc>>
<1> USE DEF Goto, At, Holding, DriverPCs, dbVars, taskVars, stepExtra, memVars, others, cVars, sVars
<1>1. CASE Load(d) BY <1>1 DEF Load
<1>2. CASE Start(d) BY <1>2 DEF Start, WriteTask
<1>3. CASE BeginRetry(d) BY <1>3 DEF BeginRetry
<1>4. CASE Drive(d) BY <1>4 DEF Drive, WriteTask, WriteStep, PCsOK
<1>5. CASE SetCurrent(d) BY <1>5 DEF SetCurrent
<1>6. CASE StepRunning(d) BY <1>6 DEF StepRunning, WriteStep
<1>7. CASE CancelTask(d) BY <1>7 DEF CancelTask, WriteTask
<1>8. CASE ClearCurrent(d) BY <1>8 DEF ClearCurrent
<1>9. CASE Complete(d) BY <1>9 DEF Complete, WriteTask
<1>10. CASE EnsureRun(d) BY <1>10 DEF EnsureRun
<1>11. CASE EnsureRunFails(d) BY <1>11 DEF EnsureRunFails
<1>12. CASE CacheRun(d) BY <1>12 DEF CacheRun
<1>13. CASE LinkRun(d) BY <1>13 DEF LinkRun
<1>14. CASE WritePhase(d) BY <1>14 DEF WritePhase
<1>15. CASE Spawn(d) BY <1>15 DEF Spawn
<1>16. CASE CancelArm(d) BY <1>16 DEF CancelArm
<1>17. CASE CancelShadow(d) BY <1>17 DEF CancelShadow
<1>18. CASE RecordLinks(d) BY <1>18 DEF RecordLinks
<1>19. CASE FinishStep(d) BY <1>19 DEF FinishStep, WriteStep
<1>20. CASE RouteHalt(d) BY <1>20 DEF RouteHalt
<1>21. CASE DecideResume(d) BY <1>21 DEF DecideResume
<1>22. CASE PersistResume(d) BY <1>22 DEF PersistResume
<1>23. CASE PersistPark(d) BY <1>23 DEF PersistPark
<1>24. CASE ParkStep(d) BY <1>24 DEF ParkStep, WriteStep
<1>25. CASE ParkTask(d) BY <1>25 DEF ParkTask, WriteTask
<1>26. CASE HaltStep(d) BY <1>26 DEF HaltStep, WriteStep
<1>27. CASE HaltTask(d) BY <1>27 DEF HaltTask, WriteTask
<1>28. CASE Finalize(d) BY <1>28 DEF Finalize
<1>29. CASE FinalWrite(d) BY <1>29 DEF FinalWrite
<1>30. CASE AgentEnds(d) BY <1>30 DEF AgentEnds
<1>31. CASE ShadowUpdateFails(d) BY <1>31 DEF ShadowUpdateFails
<1>32. CASE FinalizeFails(d) BY <1>32 DEF FinalizeFails
<1> QED
  BY <1>1, <1>2, <1>3, <1>4, <1>5, <1>6, <1>7, <1>8, <1>9, <1>10, <1>11, <1>12, <1>13, <1>14,
     <1>15, <1>16, <1>17, <1>18, <1>19, <1>20, <1>21, <1>22, <1>23, <1>24, <1>25, <1>26, <1>27,
     <1>28, <1>29, <1>30, <1>31, <1>32 DEF DriverMove, Work

\* What a cancel request does to the registry: nothing while it stays on its
\* side of the reservation, or it takes a free entry, or it gives its own back.
LEMMA CancelMoves ==
    ASSUME PCsOK, NEW c \in Cancellers, CancelRequest(c) \/ CancelStep(c) \/ CancelFault(c)
    PROVE  /\ UNCHANGED <<pc, spc>>
           /\ \E p \in CancelPCs :
                /\ cpc' = [cpc EXCEPT ![c] = p]
                /\ \/ slot' = slot /\ (p \in Reserving => cpc[c] \in Reserving)
                   \/ slot = Free /\ slot' = c
                   \/ cpc[c] \in Reserving /\ slot' = Free /\ p \notin Reserving
<1> USE DEF CGoto, Reserving, CancelPCs, memVars, dVars, sVars, cOthers
<1>1. CASE RequestCancel(c) BY <1>1 DEF RequestCancel
<1>2. CASE RequestCancelRun(c) BY <1>2 DEF RequestCancelRun
<1>3. CASE CancelRunFindStep(c)
  <2>1. cpc' = [cpc EXCEPT ![c] = "exec"] \/ cpc' = [cpc EXCEPT ![c] = "runWrite"]
    BY <1>3 DEF CancelRunFindStep
  <2> QED BY <1>3, <2>1 DEF CancelRunFindStep
<1>0. AfterCancel(c) \in CancelPCs \ Reserving BY DEF AfterCancel
<1>4. CASE CancelSignal(c) BY <1>4, <1>0 DEF CancelSignal, Leave
<1>5. CASE CancelReserve(c) BY <1>5 DEF CancelReserve
<1>6. CASE CancelLoad(c) BY <1>6 DEF CancelLoad
<1>7. CASE CancelOneStep(c) BY <1>7, PCsOK DEF CancelOneStep, PCsOK
<1>8. CASE CancelTaskRow(c) BY <1>8 DEF CancelTaskRow
<1>9. CASE CancelFinalize(c) BY <1>9 DEF CancelFinalize
<1>10. CASE CancelFinalWrite(c) BY <1>10 DEF CancelFinalWrite
<1>11. CASE CancelRelease(c) BY <1>11, <1>0 DEF CancelRelease, Leave
<1>12. CASE CancelRunRefresh(c) BY <1>12 DEF CancelRunRefresh
<1>13. CASE CancelRunWrite(c) BY <1>13 DEF CancelRunWrite
<1>14. CASE CancelOneStepFails(c) BY <1>14, PCsOK DEF CancelOneStepFails, PCsOK
<1>15. CASE CancelAbort(c) BY <1>15 DEF CancelAbort
<1> QED
  BY <1>1, <1>2, <1>3, <1>4, <1>5, <1>6, <1>7, <1>8, <1>9, <1>10, <1>11, <1>12, <1>13, <1>14, <1>15
  DEF CancelRequest, CancelStep, CancelFault

\* What the sweep does to the registry: nothing, or it takes a free entry
\* at the gate, or it gives its own back at the end.
Gated == {"reload", "failStep", "failTask"}

LEMMA SweepMoves ==
    ASSUME PCsOK,
           SweepStep \/ SweepFailStepFails \/ SweepAbort \/ \E r \in RunIds : SweepPick(r)
    PROVE  /\ UNCHANGED <<pc, cpc>> /\ spc' \in SweepPCs
           /\ \/ slot' = slot /\ (spc' \in Gated => spc \in Gated)
              \/ slot = Free /\ slot' = Sweeper
              \/ slot = Sweeper /\ slot' = Free /\ spc' \notin Gated
<1> USE DEF SweepPCs, Gated, memVars, dVars, cVars, sOthers
<1>1. CASE \E r \in RunIds : SweepPick(r) BY <1>1 DEF SweepPick
<1>2. CASE SweepClassify BY <1>2 DEF SweepClassify, SweepTo
<1>3. CASE SweepGate BY <1>3 DEF SweepGate
<1>4. CASE SweepReload BY <1>4 DEF SweepReload, SweepTo
<1>5. CASE SweepFailStep BY <1>5 DEF SweepFailStep
<1>6. CASE SweepFailTask BY <1>6 DEF SweepFailTask, SweepTo
<1>7. CASE SweepFinalize BY <1>7 DEF SweepFinalize
<1>8. CASE SweepFinalWrite BY <1>8 DEF SweepFinalWrite
<1>9. CASE SweepDone BY <1>9 DEF SweepDone
<1>10. CASE SweepFailStepFails BY <1>10 DEF SweepFailStepFails
<1>11. CASE SweepAbort BY <1>11 DEF SweepAbort
<1> QED
  BY <1>1, <1>2, <1>3, <1>4, <1>5, <1>6, <1>7, <1>8, <1>9, <1>10, <1>11 DEF SweepStep

-----------------------------------------------------------------------------
(* Mutual exclusion of the writers                                         *)

\* Nobody holds the registry entry, and every control point is known.
LEMMA ExclusiveInit == Init => PCsOK /\ Exclusive
BY DEF Init, PCsOK, Exclusive, Holding, Reserving, DriverPCs, CancelPCs, SweepPCs

\* Mutual exclusion is inductive together with the control points: whoever
\* takes the entry takes it free, and only its holder gives it back.
LEMMA ExclusiveStep == PCsOK /\ Exclusive /\ [Next]_vars => PCsOK' /\ Exclusive'
<1> SUFFICES ASSUME PCsOK, Exclusive, [Next]_vars PROVE PCsOK' /\ Exclusive'
  OBVIOUS
<1> USE ActorsAssumption
<1>1. CASE \E d \in Drivers : Register(d)
  <2>1. PICK d \in Drivers : Register(d) BY <1>1
  <2>2. slot = Free /\ slot' = d /\ pc' = [pc EXCEPT ![d] = "load"] /\ UNCHANGED <<cpc, spc>>
    BY <2>1 DEF Register, Goto, cVars, sVars
  <2> QED BY <2>2 DEF PCsOK, Exclusive, DriverPCs, Holding
<1>2. CASE \E d \in Drivers : DriverMove(d)
  <2>1. PICK d \in Drivers : DriverMove(d) BY <1>2
  <2>2. /\ pc[d] \in Holding /\ UNCHANGED <<slot, cpc, spc>>
        /\ \E p \in DriverPCs : pc' = [pc EXCEPT ![d] = p]
    BY <2>1, DriverMoves
  <2> QED BY <2>2 DEF PCsOK, Exclusive
<1>3. CASE \E d \in Drivers : RegisterRejected(d)
  <2>1. PICK d \in Drivers : RegisterRejected(d) BY <1>3
  <2>2. pc' = [pc EXCEPT ![d] = "idle"] /\ UNCHANGED <<slot, cpc, spc>>
    BY <2>1 DEF RegisterRejected, Goto, memVars, others, cVars, sVars
  <2> QED BY <2>2 DEF PCsOK, Exclusive, DriverPCs, Holding
<1>4. CASE \E d \in Drivers : Release(d) \/ Abort(d)
  <2>1. PICK d \in Drivers : Release(d) \/ Abort(d) BY <1>4
  <2>2. pc[d] \in Holding /\ slot' = Free /\ pc' = [pc EXCEPT ![d] = "idle"] /\ UNCHANGED <<cpc, spc>>
    BY <2>1 DEF Release, Abort, Unregister, At, Holding, others, cVars, sVars
  <2> QED BY <2>2 DEF PCsOK, Exclusive, DriverPCs, Holding
<1>5. CASE \E c \in Cancellers : CancelRequest(c) \/ CancelStep(c) \/ CancelFault(c)
  <2>1. PICK c \in Cancellers : CancelRequest(c) \/ CancelStep(c) \/ CancelFault(c) BY <1>5
  <2>2. PICK p \in CancelPCs :
          /\ cpc' = [cpc EXCEPT ![c] = p] /\ UNCHANGED <<pc, spc>>
          /\ \/ slot' = slot /\ (p \in Reserving => cpc[c] \in Reserving)
             \/ slot = Free /\ slot' = c
             \/ cpc[c] \in Reserving /\ slot' = Free /\ p \notin Reserving
    BY <2>1, CancelMoves
  <2> QED BY <2>2 DEF PCsOK, Exclusive
<1>6. CASE SweepStep \/ SweepFailStepFails \/ SweepAbort \/ \E r \in RunIds : SweepPick(r)
  <2>1. /\ UNCHANGED <<pc, cpc>> /\ spc' \in SweepPCs
        /\ \/ slot' = slot /\ (spc' \in Gated => spc \in Gated)
           \/ slot = Free /\ slot' = Sweeper
           \/ slot = Sweeper /\ slot' = Free /\ spc' \notin Gated
    BY <1>6, SweepMoves
  <2> QED BY <2>1 DEF PCsOK, Exclusive, Gated
<1>7. CASE Crash
  BY <1>7 DEF Crash, PCsOK, Exclusive, DriverPCs, CancelPCs, SweepPCs, Holding, Reserving
<1>8. CASE UNCHANGED vars
  BY <1>8 DEF vars, memVars, dVars, cVars, sVars, PCsOK, Exclusive
<1> QED
  BY <1>1, <1>2, <1>3, <1>4, <1>5, <1>6, <1>7, <1>8 DEF Next, DriverStep, DriverFault, DriverMove

\* At most one actor at a time is between registration and return, for any
\* number of drivers and cancellers, crashes and failures: what makes the
\* row-by-row writes of the executor, the cancel path and the sweep safe.
THEOREM ExclusiveHolds == Spec => []Exclusive
<1>1. PCsOK /\ Exclusive /\ [Next]_vars => (PCsOK /\ Exclusive)' BY ExclusiveStep
<1> QED BY ExclusiveInit, <1>1, PTL DEF Spec

-----------------------------------------------------------------------------
(* Types.  The one thing the type invariant needs beside itself: a driver  *)
(* between two writes of a step points at a step of the recipe.            *)

StepPCs == {"beginRetry", "setCurrent", "stepRunning", "ensure", "cache", "link", "phase", "spawn",
            "agent", "cancelShadow", "record", "finish", "route", "timedOut", "persistResume",
            "persistPark", "parkStep", "parkTask", "haltStep", "haltTask"}
StepPlaced == \A d \in Drivers : pc[d] \in StepPCs => loc[d].step \in Steps

\* Steps are natural numbers, and 0 is none of them.
LEMMA StepsAreNat == Steps \subseteq Nat /\ None \notin Steps
BY StepsAssumption DEF Steps, None

\* A driver's locals stay locals when fields get values of their type.
LEMMA FieldUpdates ==
    ASSUME NEW l \in Locals
    PROVE  /\ \A s \in Nat : [l EXCEPT !.step = s] \in Locals
           /\ \A t \in [Steps -> StepStatuses] : [l EXCEPT !.snap = t] \in Locals
           /\ \A r \in RunIds \cup {None} : [l EXCEPT !.run = r] \in Locals
           /\ \A o \in Outcomes : [l EXCEPT !.out = o] \in Locals
           /\ \A f \in RunTerminal : [l EXCEPT !.fin = f] \in Locals
           /\ \A t \in [Steps -> StepStatuses], s \in Nat : [l EXCEPT !.snap = t, !.step = s] \in Locals
           /\ \A s \in Nat, o \in Outcomes : [l EXCEPT !.step = s, !.out = o] \in Locals
           /\ \A r \in RunIds \cup {None}, o \in Outcomes : [l EXCEPT !.run = r, !.out = o] \in Locals
           /\ \A n \in Nat, b, c \in BOOLEAN : [l EXCEPT !.segs = n, !.prev = b, !.resume = c] \in Locals
           /\ \A n \in Nat, b, c \in BOOLEAN, o \in Outcomes :
                [l EXCEPT !.segs = n, !.prev = b, !.resume = c, !.out = o] \in Locals
BY DEF Locals

\* The resting outcome is an outcome, fresh locals are locals.
LEMMA RestingTypes == SpawnError \in Outcomes /\ NoLocals \in Locals /\ NoCancel \in CancelLocals /\ NoSweep \in SweepLocals
<1>1. SpawnError \in Outcomes BY DEF SpawnError, Outcomes
<1> QED BY <1>1 DEF NoLocals, Locals, NoCancel, CancelLocals, NoSweep, SweepLocals, StepStatuses, TaskStatuses,
                    RunTerminal, TaskTerminal

\* The locals of a driver keep their types.
LEMMA DriverLocals ==
    ASSUME TypeOK, StepPlaced, NEW d \in Drivers, DriverMove(d)
    PROVE  loc' \in [Drivers -> Locals]
<1> USE DEF Goto, At, dbVars, taskVars, stepExtra, memVars, others, cVars, sVars, bounds
<1>0. loc \in [Drivers -> Locals] /\ loc[d] \in Locals BY DEF TypeOK, LocalsOK
<1>a. /\ loc[d].step \in Nat /\ loc[d].segs \in Nat /\ loc[d].run \in RunIds \cup {None}
      /\ loc[d].out \in Outcomes
  BY <1>0 DEF Locals
<1>b. pc[d] \in StepPCs => loc[d].step \in Steps BY DEF StepPlaced
<1>1. CASE Load(d)
  <2>1. [loc[d] EXCEPT !.snap = stepStatus] \in Locals BY <1>0, FieldUpdates DEF TypeOK, RowsOK
  <2>2. currentStep # None => currentStep \in Nat BY StepsAreNat DEF TypeOK, RowsOK
  <2>3. currentStep # None => [loc[d] EXCEPT !.snap = stepStatus, !.step = currentStep] \in Locals
    BY <1>0, <2>2, FieldUpdates DEF TypeOK, RowsOK
  <2> QED BY <1>0, <1>1, <2>1, <2>3 DEF Load, RetryAllowed
<1>2. CASE BeginRetry(d)
  <2>1. loc[d].step \in Steps BY <1>2, <1>b DEF BeginRetry, StepPCs
  <2>2. resumeCount[loc[d].step] \in Nat /\ resumeKey[loc[d].step] \in BOOLEAN
    BY <2>1 DEF TypeOK, RowsOK
  <2>3. \A key \in {FALSE, resumeKey[loc[d].step]} :
          [loc[d] EXCEPT !.segs = resumeCount[loc[d].step], !.prev = FALSE, !.resume = key] \in Locals
    BY <1>0, <2>2, FieldUpdates
  <2> QED BY <1>0, <1>2, <2>3 DEF BeginRetry
<1>3. CASE Drive(d)
  <2>1. loc[d].step + 1 \in Nat BY <1>a
  <2>2. [loc[d] EXCEPT !.step = loc[d].step + 1] \in Locals BY <1>0, <2>1, FieldUpdates
  <2> QED BY <1>0, <1>3, <2>2 DEF Drive
<1>4. CASE StepRunning(d)
  <2>1. loc[d].step \in Steps BY <1>4, <1>b DEF StepRunning, StepPCs
  <2>2. resumeCount[loc[d].step] \in Nat BY <2>1 DEF TypeOK, RowsOK
  <2>3. [loc[d] EXCEPT !.segs = resumeCount[loc[d].step], !.prev = FALSE, !.resume = FALSE] \in Locals
    BY <1>0, <2>2, FieldUpdates
  <2> QED BY <1>0, <1>4, <2>3 DEF StepRunning
<1>5. CASE Complete(d) \/ ParkTask(d) \/ HaltTask(d)
  <2>1. \A f \in RunTerminal : [loc[d] EXCEPT !.fin = f] \in Locals BY <1>0, FieldUpdates
  <2> QED BY <1>0, <1>5, <2>1 DEF Complete, ParkTask, HaltTask, RunTerminal, TaskTerminal
<1>6. CASE EnsureRun(d) \/ CacheRun(d) \/ Finalize(d)
  <2>1. \A r \in RunIds \cup {None} : [loc[d] EXCEPT !.run = r] \in Locals BY <1>0, FieldUpdates
  <2>2. cacheRun \in RunIds \cup {None} BY DEF TypeOK, MemoryOK
  <2> QED BY <1>0, <1>a, <1>6, <2>1, <2>2 DEF EnsureRun, CacheRun, Finalize
<1>7. CASE EnsureRunFails(d)
  <2>1. [loc[d] EXCEPT !.run = None, !.out = SpawnError] \in Locals BY <1>0, RestingTypes, FieldUpdates
  <2> QED BY <1>0, <1>7, <2>1 DEF EnsureRunFails
<1>8. CASE Spawn(d) \/ AgentEnds(d) \/ ShadowUpdateFails(d)
  <2>1. \A o \in Outcomes : [loc[d] EXCEPT !.out = o] \in Locals BY <1>0, FieldUpdates
  <2> QED BY <1>0, <1>8, <2>1, RestingTypes DEF Spawn, AgentEnds, ShadowUpdateFails
<1>9. CASE FinishStep(d)
  <2>1. loc[d].step + 1 \in Nat BY <1>a
  <2>2. [loc[d] EXCEPT !.step = loc[d].step + 1, !.out = SpawnError] \in Locals
    BY <1>0, <2>1, RestingTypes, FieldUpdates
  <2> QED BY <1>0, <1>9, <2>2 DEF FinishStep
<1>10. CASE PersistResume(d)
  <2>1. loc[d].segs + 1 \in Nat BY <1>a
  <2>2. [loc[d] EXCEPT !.segs = loc[d].segs + 1, !.prev = TRUE, !.resume = TRUE, !.out = SpawnError] \in Locals
    BY <1>0, <2>1, RestingTypes, FieldUpdates
  <2> QED BY <1>0, <1>10, <2>2 DEF PersistResume
<1>11. CASE \/ Start(d) \/ SetCurrent(d) \/ CancelTask(d) \/ ClearCurrent(d) \/ LinkRun(d) \/ WritePhase(d)
            \/ CancelArm(d) \/ CancelShadow(d) \/ RecordLinks(d) \/ RouteHalt(d) \/ DecideResume(d)
            \/ PersistPark(d) \/ ParkStep(d) \/ HaltStep(d) \/ FinalWrite(d) \/ FinalizeFails(d)
  BY <1>0, <1>11 DEF Start, SetCurrent, CancelTask, ClearCurrent, LinkRun, WritePhase, CancelArm, CancelShadow,
     RecordLinks, RouteHalt, DecideResume, PersistPark, ParkStep, HaltStep, FinalWrite, FinalizeFails
<1> QED
  BY <1>1, <1>2, <1>3, <1>4, <1>5, <1>6, <1>7, <1>8, <1>9, <1>10, <1>11 DEF DriverMove, Work

\* The rows and the run cache keep their types under a driver's move.
LEMMA DriverRows ==
    ASSUME TypeOK, StepPlaced, NEW d \in Drivers, DriverMove(d)
    PROVE  RowsOK' /\ cacheRun' \in RunIds \cup {None}
<1> USE DEF Goto, At, dbVars, taskVars, stepExtra, memVars, RunTerminal
<1>0. RowsOK /\ cacheRun \in RunIds \cup {None} BY DEF TypeOK, MemoryOK
<1>a. /\ loc[d].step \in Nat /\ loc[d].segs \in Nat /\ loc[d].run \in RunIds \cup {None}
      /\ loc[d].out \in Outcomes /\ loc[d].fin \in RunTerminal
  BY DEF TypeOK, LocalsOK, Locals
<1>b. pc[d] \in StepPCs => loc[d].step \in Steps BY DEF StepPlaced
<1>c. /\ \A s \in TaskStatuses : s \in StepStatuses
      /\ \A s \in RunTerminal \cup {"Live"} : s \in RunStates
      /\ \A s \in RunTerminal \cup {"Running", "NeedsHuman"} : s \in TaskStatuses
  BY DEF StepStatuses, TaskStatuses, TaskTerminal, RunStates
<1>1. CASE Start(d) \/ CancelTask(d) \/ Complete(d) \/ ParkTask(d) \/ HaltTask(d)
  <2>1. taskStatus' \in TaskStatuses
    BY <1>0, <1>1, <1>c DEF Start, CancelTask, Complete, ParkTask, HaltTask, WriteTask, Disposition, RowsOK, TaskTerminal
  <2>2. UNCHANGED <<currentStep, stepStatus, stepLink, resumeCount, resumeKey, runState, cacheRun>>
    BY <1>1 DEF Start, CancelTask, Complete, ParkTask, HaltTask
  <2> QED BY <1>0, <2>1, <2>2 DEF RowsOK
<1>2. CASE StepRunning(d) \/ FinishStep(d) \/ ParkStep(d) \/ HaltStep(d)
  <2>1. stepStatus' \in [Steps -> StepStatuses]
    BY <1>0, <1>2, <1>c DEF StepRunning, FinishStep, ParkStep, HaltStep, WriteStep, Disposition, RowsOK, TaskTerminal
  <2>2. UNCHANGED <<taskStatus, currentStep, stepLink, resumeCount, resumeKey, runState, cacheRun>>
    BY <1>2 DEF StepRunning, FinishStep, ParkStep, HaltStep
  <2> QED BY <1>0, <2>1, <2>2 DEF RowsOK
<1>3. CASE BeginRetry(d)
  <2>1. loc[d].step \in Steps BY <1>3, <1>b DEF BeginRetry, StepPCs
  <2>2. taskStatus' \in TaskStatuses /\ currentStep' \in Steps \cup {None}
    BY <1>0, <1>3, <2>1, <1>c DEF BeginRetry, RowsOK
  <2>3. stepStatus' \in [Steps -> StepStatuses] BY <1>0, <1>3, <1>c DEF BeginRetry, RowsOK
  <2>4. UNCHANGED <<stepLink, resumeCount, resumeKey, runState, cacheRun>> BY <1>3 DEF BeginRetry
  <2> QED BY <1>0, <2>2, <2>3, <2>4 DEF RowsOK
<1>4. CASE Drive(d)
  <2>1. taskStatus' \in TaskStatuses BY <1>0, <1>4, <1>c DEF Drive, WriteTask, RowsOK
  <2>2. stepStatus' \in [Steps -> StepStatuses]
    BY <1>0, <1>4 DEF Drive, WriteStep, RowsOK, StepStatuses
  <2>3. UNCHANGED <<currentStep, stepLink, resumeCount, resumeKey, runState, cacheRun>> BY <1>4 DEF Drive
  <2> QED BY <1>0, <2>1, <2>2, <2>3 DEF RowsOK
<1>5. CASE SetCurrent(d) \/ ClearCurrent(d)
  <2>1. currentStep' \in Steps \cup {None}
    BY <1>0, <1>5, <1>b DEF SetCurrent, ClearCurrent, RowsOK, StepPCs
  <2>2. UNCHANGED <<taskStatus, stepStatus, stepLink, resumeCount, resumeKey, runState, cacheRun>>
    BY <1>5 DEF SetCurrent, ClearCurrent
  <2> QED BY <1>0, <2>1, <2>2 DEF RowsOK
<1>6. CASE EnsureRun(d) \/ WritePhase(d) \/ CancelShadow(d) \/ FinalWrite(d)
  <2>1. runState' \in [RunIds -> RunStates]
    BY <1>0, <1>6, <1>a, <1>c DEF EnsureRun, WritePhase, CancelShadow, FinalWrite, RowsOK, TaskTerminal
  <2>2. UNCHANGED <<taskStatus, currentStep, stepStatus, stepLink, resumeCount, resumeKey, cacheRun>>
    BY <1>6 DEF EnsureRun, WritePhase, CancelShadow, FinalWrite
  <2> QED BY <1>0, <2>1, <2>2 DEF RowsOK
<1>7. CASE LinkRun(d) \/ RecordLinks(d)
  <2>1. stepLink' \in [Steps -> RunIds \cup {None}]
    BY <1>0, <1>7, <1>a DEF LinkRun, RecordLinks, RowsOK
  <2>2. UNCHANGED <<taskStatus, currentStep, stepStatus, resumeCount, resumeKey, runState, cacheRun>>
    BY <1>7 DEF LinkRun, RecordLinks
  <2> QED BY <1>0, <2>1, <2>2 DEF RowsOK
<1>8. CASE PersistResume(d) \/ PersistPark(d)
  <2>1. loc[d].out.key \in BOOLEAN BY <1>a DEF Outcomes
  <2>2. resumeCount' \in [Steps -> Nat] BY <1>0, <1>8, <1>a DEF PersistResume, PersistPark, RowsOK
  <2>3. resumeKey' \in [Steps -> BOOLEAN] BY <1>0, <1>8, <2>1 DEF PersistResume, PersistPark, RowsOK
  <2>4. UNCHANGED <<taskStatus, currentStep, stepStatus, stepLink, runState, cacheRun>>
    BY <1>8 DEF PersistResume, PersistPark
  <2> QED BY <1>0, <2>2, <2>3, <2>4 DEF RowsOK
<1>9. CASE CacheRun(d)
  BY <1>0, <1>9, <1>a DEF CacheRun, RowsOK
<1>10. CASE \/ Load(d) \/ EnsureRunFails(d) \/ Spawn(d) \/ CancelArm(d) \/ RouteHalt(d) \/ DecideResume(d)
            \/ Finalize(d) \/ AgentEnds(d) \/ ShadowUpdateFails(d) \/ FinalizeFails(d)
  BY <1>0, <1>10 DEF Load, EnsureRunFails, Spawn, CancelArm, RouteHalt, DecideResume, Finalize, AgentEnds,
     ShadowUpdateFails, FinalizeFails, RowsOK
<1> QED
  BY <1>1, <1>2, <1>3, <1>4, <1>5, <1>6, <1>7, <1>8, <1>9, <1>10 DEF DriverMove, Work

\* A driver enters the steps' control points with a step in its hands.
LEMMA DriverPlaced ==
    ASSUME TypeOK, StepPlaced, NEW d \in Drivers, DriverMove(d)
    PROVE  StepPlaced'
<1> USE DEF Goto, At
<1>0. loc \in [Drivers -> Locals] /\ loc[d] \in Locals BY DEF TypeOK, LocalsOK
<1>a. /\ currentStep # None => currentStep \in Steps
      /\ pc[d] \in StepPCs => loc[d].step \in Steps
      /\ Enabled \subseteq Steps
  BY StepsAssumption DEF TypeOK, RowsOK, StepPlaced
<1>b. \A e \in Drivers : e # d => pc'[e] = pc[e]
  BY DriverMoves DEF TypeOK, PCsOK
<1>c. SUFFICES /\ \A e \in Drivers : e # d => loc'[e] = loc[e]
               /\ pc'[d] \in StepPCs => loc'[d].step \in Steps
  BY <1>b DEF StepPlaced
<1>d. \A p \in DriverPCs : pc' = [pc EXCEPT ![d] = p] => pc'[d] = p BY DEF TypeOK, PCsOK
<1> USE DEF Locals
<1>1. CASE Load(d)
  <2>1. pc'[d] \in {"start", "beginRetry", "release"} /\ (pc'[d] = "beginRetry" => currentStep # None)
    BY <1>1, <1>d DEF Load, RetryAllowed, DriverPCs, Holding
  <2>2. pc'[d] = "beginRetry" => loc' = [loc EXCEPT ![d].snap = stepStatus, ![d].step = currentStep]
    BY <1>1, <1>d DEF Load, DriverPCs, Holding
  <2>3. \A e \in Drivers : e # d => loc'[e] = loc[e] BY <1>0, <1>1 DEF Load
  <2>4. pc'[d] = "beginRetry" => loc'[d].step = currentStep BY <1>0, <2>2
  <2> QED BY <1>a, <2>1, <2>3, <2>4 DEF StepPCs
<1>2. CASE Drive(d)
  <2>1. \A e \in Drivers : e # d => loc'[e] = loc[e] BY <1>0, <1>2 DEF Drive
  <2>2. pc'[d] = "setCurrent" => loc[d].step \in Enabled /\ loc' = loc
    BY <1>2, <1>d DEF Drive, WriteTask, WriteStep, DriverPCs, Holding
  <2>3. pc'[d] \in {"clear", "drive", "release", "cancelTask", "setCurrent"}
    BY <1>2, <1>d DEF Drive, WriteTask, WriteStep, DriverPCs, Holding
  <2> QED BY <1>a, <2>1, <2>2, <2>3 DEF StepPCs
<1>3. CASE \/ BeginRetry(d) \/ StepRunning(d) \/ EnsureRun(d) \/ EnsureRunFails(d) \/ CacheRun(d)
           \/ Spawn(d) \/ AgentEnds(d) \/ ShadowUpdateFails(d) \/ PersistResume(d)
  <2>1. pc[d] \in StepPCs
    BY <1>3 DEF BeginRetry, StepRunning, EnsureRun, EnsureRunFails, CacheRun, Spawn, AgentEnds,
       ShadowUpdateFails, PersistResume, StepPCs
  <2>2. \A e \in Drivers : e # d => loc'[e] = loc[e]
    BY <1>0, <1>3 DEF BeginRetry, StepRunning, EnsureRun, EnsureRunFails, CacheRun, Spawn, AgentEnds,
       ShadowUpdateFails, PersistResume
  <2>3. CASE BeginRetry(d) \/ StepRunning(d) \/ EnsureRunFails(d)
    <3>1. loc'[d].step = loc[d].step BY <1>0, <2>3 DEF BeginRetry, StepRunning, EnsureRunFails
    <3> QED BY <1>a, <2>1, <2>2, <3>1
  <2>4. CASE EnsureRun(d) \/ CacheRun(d)
    <3>1. loc'[d].step = loc[d].step BY <1>0, <2>4 DEF EnsureRun, CacheRun
    <3> QED BY <1>a, <2>1, <2>2, <3>1
  <2>5. CASE Spawn(d) \/ AgentEnds(d) \/ ShadowUpdateFails(d) \/ PersistResume(d)
    <3>1. loc'[d].step = loc[d].step BY <1>0, <2>5 DEF Spawn, AgentEnds, ShadowUpdateFails, PersistResume
    <3> QED BY <1>a, <2>1, <2>2, <3>1
  <2> QED BY <1>3, <2>3, <2>4, <2>5
<1>4. CASE FinishStep(d) \/ Complete(d) \/ ParkTask(d) \/ HaltTask(d) \/ Finalize(d)
  <2>1. \A e \in Drivers : e # d => loc'[e] = loc[e]
    BY <1>0, <1>4 DEF FinishStep, Complete, ParkTask, HaltTask, Finalize
  <2>2. pc'[d] \in {"drive", "finalize", "finalWrite", "release"}
    BY <1>4, <1>d DEF FinishStep, Complete, ParkTask, HaltTask, Finalize, WriteTask, WriteStep, DriverPCs, Holding
  <2> QED BY <2>1, <2>2 DEF StepPCs
<1>5. CASE \/ SetCurrent(d) \/ LinkRun(d) \/ WritePhase(d) \/ CancelArm(d) \/ CancelShadow(d) \/ RecordLinks(d)
           \/ RouteHalt(d) \/ DecideResume(d) \/ PersistPark(d) \/ ParkStep(d) \/ HaltStep(d)
  <2>1. pc[d] \in StepPCs /\ loc' = loc
    BY <1>5 DEF SetCurrent, LinkRun, WritePhase, CancelArm, CancelShadow, RecordLinks, RouteHalt, DecideResume,
       PersistPark, ParkStep, HaltStep, StepPCs
  <2> QED BY <1>a, <2>1
<1>6. CASE Start(d) \/ CancelTask(d) \/ ClearCurrent(d) \/ FinalWrite(d) \/ FinalizeFails(d)
  <2>1. loc' = loc BY <1>6 DEF Start, CancelTask, ClearCurrent, FinalWrite, FinalizeFails
  <2>2. pc'[d] \in {"drive", "release", "complete"}
    BY <1>6, <1>d DEF Start, CancelTask, ClearCurrent, FinalWrite, FinalizeFails, WriteTask, DriverPCs, Holding
  <2> QED BY <2>1, <2>2 DEF StepPCs
<1> QED
  BY <1>1, <1>2, <1>3, <1>4, <1>5, <1>6 DEF DriverMove, Work

\* A cancel request's locals stay locals when fields get values of their type.
LEMMA CancelFieldUpdates ==
    ASSUME NEW l \in CancelLocals
    PROVE  /\ \A r \in RunIds \cup {None} : [l EXCEPT !.run = r] \in CancelLocals
           /\ \A t \in SUBSET Steps : [l EXCEPT !.todo = t] \in CancelLocals
           /\ \A r \in RunIds \cup {None} : [l EXCEPT !.shadow = r] \in CancelLocals
           /\ [l EXCEPT !.todo = {}, !.shadow = None] \in CancelLocals
BY DEF CancelLocals

\* A cancel request keeps every type.
LEMMA CancelTypes ==
    ASSUME TypeOK, StepPlaced, NEW c \in Cancellers, CancelRequest(c) \/ CancelStep(c) \/ CancelFault(c)
    PROVE  TypeOK' /\ StepPlaced'
<1> USE DEF CGoto, dbVars, taskVars, stepExtra, memVars, dVars, sVars, bounds, cOthers
<1>0. cloc \in [Cancellers -> CancelLocals] /\ cloc[c] \in CancelLocals BY DEF TypeOK, LocalsOK
<1>1. PCsOK'
  <2>1. UNCHANGED <<pc, spc>> /\ \E p \in CancelPCs : cpc' = [cpc EXCEPT ![c] = p] BY CancelMoves DEF TypeOK
  <2> QED BY <2>1 DEF TypeOK, PCsOK
<1>2. RowsOK'
  <2>1. CASE CancelOneStep(c)
    <3>1. stepStatus' \in [Steps -> StepStatuses]
      BY <2>1 DEF CancelOneStep, TypeOK, RowsOK, StepStatuses, TaskStatuses
    <3> QED BY <2>1, <3>1 DEF CancelOneStep, TypeOK, RowsOK
  <2>2. CASE CancelTaskRow(c)
    BY <2>2 DEF CancelTaskRow, TypeOK, RowsOK, TaskStatuses
  <2>3. CASE CancelFinalWrite(c) \/ CancelRunWrite(c)
    <3>1. runState' \in [RunIds -> RunStates]
      BY <2>3 DEF CancelFinalWrite, CancelRunWrite, TypeOK, RowsOK, RunStates
    <3> QED BY <2>3, <3>1 DEF CancelFinalWrite, CancelRunWrite, TypeOK, RowsOK
  <2>4. CASE UNCHANGED dbVars BY <2>4 DEF TypeOK, RowsOK
  <2>5. \/ CancelOneStep(c) \/ CancelTaskRow(c) \/ CancelFinalWrite(c) \/ CancelRunWrite(c) \/ UNCHANGED dbVars
    BY DEF CancelRequest, CancelStep, CancelFault, RequestCancel, RequestCancelRun, CancelRunFindStep, CancelSignal,
       CancelReserve, CancelLoad, CancelFinalize, CancelRelease, CancelRunRefresh, CancelOneStepFails, CancelAbort
  <2> QED BY <2>1, <2>2, <2>3, <2>4, <2>5
<1>3. MemoryOK'
  <2>1. slot' \in Drivers \cup Cancellers \cup {Sweeper, Free} BY CancelMoves DEF TypeOK, MemoryOK
  <2>2. cancelled' \in [Drivers -> BOOLEAN]
    <3>1. CASE CancelSignal(c)
      <4>1. \A d \in Drivers : (cancelled[d] \/ d = slot) \in BOOLEAN OBVIOUS
      <4> QED BY <3>1, <4>1 DEF CancelSignal
    <3>2. CASE UNCHANGED cancelled BY <3>2 DEF TypeOK, MemoryOK
    <3>3. CancelSignal(c) \/ UNCHANGED cancelled
      BY DEF CancelRequest, CancelStep, CancelFault, RequestCancel, RequestCancelRun, CancelRunFindStep, CancelReserve,
         CancelLoad, CancelOneStep, CancelTaskRow, CancelFinalize, CancelFinalWrite, CancelRelease, CancelRunRefresh,
         CancelRunWrite, CancelOneStepFails, CancelAbort
    <3> QED BY <3>1, <3>2, <3>3
  <2>3. cacheRun' = cacheRun
    BY DEF CancelRequest, CancelStep, CancelFault, RequestCancel, RequestCancelRun, CancelRunFindStep, CancelSignal,
       CancelReserve, CancelLoad, CancelOneStep, CancelTaskRow, CancelFinalize, CancelFinalWrite, CancelRelease,
       CancelRunRefresh, CancelRunWrite, CancelOneStepFails, CancelAbort
  <2> QED BY <2>1, <2>2, <2>3 DEF TypeOK, MemoryOK
<1>4. cloc' \in [Cancellers -> CancelLocals]
  <2>1. CASE RequestCancelRun(c) \/ CancelFinalize(c)
    <3>1. \A r \in RunIds : [cloc[c] EXCEPT !.run = r] \in CancelLocals /\ [cloc[c] EXCEPT !.shadow = r] \in CancelLocals
      BY <1>0, CancelFieldUpdates
    <3> QED BY <1>0, <2>1, <3>1 DEF RequestCancelRun, CancelFinalize
  <2>2. CASE CancelSignal(c) \/ CancelRelease(c)
    <3>1. [cloc[c] EXCEPT !.todo = {}, !.shadow = None] \in CancelLocals BY <1>0, CancelFieldUpdates
    <3> QED BY <1>0, <2>2, <3>1 DEF CancelSignal, CancelRelease, Leave
  <2>3. CASE CancelLoad(c)
    <3>1. [cloc[c] EXCEPT !.todo = {i \in Steps : stepStatus[i] \in Active}] \in CancelLocals
      BY <1>0, CancelFieldUpdates
    <3> QED BY <1>0, <2>3, <3>1 DEF CancelLoad
  <2>4. CASE CancelOneStep(c) \/ CancelOneStepFails(c)
    <3>1. \A i \in cloc[c].todo : cloc[c].todo \ {i} \in SUBSET Steps BY <1>0 DEF CancelLocals
    <3>2. \A i \in cloc[c].todo : [cloc[c] EXCEPT !.todo = cloc[c].todo \ {i}] \in CancelLocals
      BY <1>0, <3>1, CancelFieldUpdates
    <3> QED BY <1>0, <2>4, <3>2 DEF CancelOneStep, CancelOneStepFails
  <2>5. CASE CancelRunRefresh(c) \/ CancelRunWrite(c) \/ CancelAbort(c)
    BY <1>0, <2>5, RestingTypes DEF CancelRunRefresh, CancelRunWrite, CancelAbort
  <2>6. CASE UNCHANGED cloc BY <1>0, <2>6
  <2>7. CASE \/ RequestCancel(c) \/ CancelRunFindStep(c) \/ CancelReserve(c) \/ CancelTaskRow(c) \/ CancelFinalWrite(c)
    BY <2>6, <2>7 DEF RequestCancel, CancelRunFindStep, CancelReserve, CancelTaskRow, CancelFinalWrite
  <2> QED BY <2>1, <2>2, <2>3, <2>4, <2>5, <2>7 DEF CancelRequest, CancelStep, CancelFault
<1>5. UNCHANGED <<pc, loc, sloc, crashes, retries>> /\ faults' \in Nat /\ cancels' \in Nat
  <2> USE DEF TypeOK, BoundsOK
  <2>1. CASE CancelRequest(c) BY <2>1 DEF CancelRequest, RequestCancel, RequestCancelRun
  <2>2. CASE CancelFault(c) BY <2>2 DEF CancelFault, CancelOneStepFails, CancelAbort
  <2>3. CASE CancelStep(c)
    BY <2>3 DEF CancelStep, CancelRunFindStep, CancelSignal, CancelReserve, CancelLoad, CancelOneStep, CancelTaskRow,
       CancelFinalize, CancelFinalWrite, CancelRelease, CancelRunRefresh, CancelRunWrite
  <2> QED BY <2>1, <2>2, <2>3
<1> QED BY <1>1, <1>2, <1>3, <1>4, <1>5 DEF TypeOK, LocalsOK, BoundsOK, StepPlaced

\* The sweep keeps every type.
LEMMA SweepTypes ==
    ASSUME TypeOK, StepPlaced,
           SweepStep \/ SweepFailStepFails \/ SweepAbort \/ \E r \in RunIds : SweepPick(r)
    PROVE  TypeOK' /\ StepPlaced'
<1> USE DEF dbVars, taskVars, stepExtra, memVars, dVars, cVars, bounds, sOthers
<1>0. sloc \in SweepLocals /\ sloc.fin \in RunTerminal BY DEF TypeOK, LocalsOK, SweepLocals
<1>1. UNCHANGED <<pc, cpc>> /\ spc' \in SweepPCs /\ slot' \in {slot, Sweeper, Free}
  BY SweepMoves DEF TypeOK
<1>2. RowsOK'
  <2>1. CASE SweepFailStep
    <3>1. stepStatus' \in [Steps -> StepStatuses]
      BY <2>1 DEF SweepFailStep, TypeOK, RowsOK, StepStatuses, TaskStatuses
    <3> QED BY <2>1, <3>1 DEF SweepFailStep, TypeOK, RowsOK
  <2>2. CASE SweepFailTask
    BY <2>2 DEF SweepFailTask, TypeOK, RowsOK, TaskStatuses
  <2>3. CASE SweepFinalWrite
    <3>1. runState' \in [RunIds -> RunStates]
      BY <1>0, <2>3 DEF SweepFinalWrite, TypeOK, RowsOK, RunStates, RunTerminal, TaskTerminal
    <3> QED BY <2>3, <3>1 DEF SweepFinalWrite, TypeOK, RowsOK
  <2>4. CASE UNCHANGED dbVars BY <2>4 DEF TypeOK, RowsOK
  <2>5. SweepFailStep \/ SweepFailTask \/ SweepFinalWrite \/ UNCHANGED dbVars
    BY DEF SweepStep, SweepPick, SweepClassify, SweepGate, SweepReload, SweepFinalize, SweepDone, SweepFailStepFails,
       SweepAbort
  <2> QED BY <2>1, <2>2, <2>3, <2>4, <2>5
<1>3. UNCHANGED <<cancelled, cacheRun, loc, cloc, crashes, retries, cancels>> /\ faults' \in Nat
  BY DEF SweepStep, SweepPick, SweepClassify, SweepGate, SweepReload, SweepFailStep, SweepFailTask, SweepFinalize,
     SweepFinalWrite, SweepDone, SweepFailStepFails, SweepAbort, TypeOK, BoundsOK
<1>4. sloc' \in SweepLocals
  <2>1. \A f \in RunTerminal : [sloc EXCEPT !.fin = f] \in SweepLocals BY <1>0 DEF SweepLocals
  <2>2. CASE SweepClassify \/ SweepReload \/ SweepFailTask
    <3>1. CASE \E p \in SweepPCs, f \in RunTerminal : SweepTo(p, f) BY <2>1, <3>1 DEF SweepTo
    <3>2. CASE sloc' = [sloc EXCEPT !.step = currentStep]
      BY <1>0, <3>2 DEF SweepLocals, TypeOK, RowsOK
    <3>3. (\E p \in SweepPCs, f \in RunTerminal : SweepTo(p, f)) \/ sloc' = [sloc EXCEPT !.step = currentStep]
      BY <1>0, <2>2 DEF SweepClassify, SweepReload, SweepFailTask, SweepPCs, RunTerminal, TaskTerminal
    <3> QED BY <3>1, <3>2, <3>3
  <2>3. CASE SweepDone \/ \E r \in RunIds : SweepPick(r)
    <3>1. \A r \in RunIds : [NoSweep EXCEPT !.run = r] \in SweepLocals BY RestingTypes DEF SweepLocals
    <3> QED BY <2>3, <3>1, RestingTypes DEF SweepDone, SweepPick
  <2>4. CASE UNCHANGED sloc BY <1>0, <2>4
  <2> QED
    BY <2>2, <2>3, <2>4 DEF SweepStep, SweepGate, SweepFailStep, SweepFinalize, SweepFinalWrite,
       SweepFailStepFails, SweepAbort
<1> QED BY <1>1, <1>2, <1>3, <1>4 DEF TypeOK, PCsOK, MemoryOK, LocalsOK, BoundsOK, StepPlaced

\* The initial rows and memory are typed.
LEMMA TypeInit == Init => TypeOK /\ StepPlaced
<1> SUFFICES ASSUME Init PROVE TypeOK /\ StepPlaced
  OBVIOUS
<1>1. RowsOK BY DEF Init, RowsOK, TaskStatuses, StepStatuses, RunStates
<1>2. MemoryOK /\ PCsOK BY DEF Init, MemoryOK, PCsOK, DriverPCs, CancelPCs, SweepPCs
<1>3. LocalsOK /\ BoundsOK BY RestingTypes DEF Init, LocalsOK, BoundsOK
<1>4. StepPlaced BY DEF Init, StepPlaced, StepPCs
<1> QED BY <1>1, <1>2, <1>3, <1>4 DEF TypeOK

\* Every step keeps every type.
LEMMA TypeStep == TypeOK /\ StepPlaced /\ [Next]_vars => TypeOK' /\ StepPlaced'
<1> SUFFICES ASSUME TypeOK, StepPlaced, [Next]_vars PROVE TypeOK' /\ StepPlaced'
  OBVIOUS
<1> USE DEF dbVars, taskVars, stepExtra, memVars, cVars, sVars, bounds
<1>1. CASE \E d \in Drivers : DriverMove(d)
  <2>1. PICK d \in Drivers : DriverMove(d) BY <1>1
  <2>2. RowsOK' /\ cacheRun' \in RunIds \cup {None} BY <2>1, DriverRows
  <2>3. loc' \in [Drivers -> Locals] BY <2>1, DriverLocals
  <2>4. /\ UNCHANGED <<slot, cancelled, cpc, cloc, spc, sloc>>
        /\ \E p \in DriverPCs : pc' = [pc EXCEPT ![d] = p]
    BY <2>1, DriverMoves DEF TypeOK
  <2>5. UNCHANGED <<crashes, retries, cancels>> /\ faults' \in Nat
    <3>1. CASE Work(d)
      BY <3>1 DEF Work, Load, Start, BeginRetry, Drive, SetCurrent, StepRunning, CancelTask, ClearCurrent, Complete,
         EnsureRun, EnsureRunFails, CacheRun, LinkRun, WritePhase, Spawn, CancelArm, CancelShadow, RecordLinks,
         FinishStep, RouteHalt, DecideResume, PersistResume, PersistPark, ParkStep, ParkTask, HaltStep, HaltTask,
         Finalize, FinalWrite, others, TypeOK, BoundsOK
    <3>2. CASE AgentEnds(d) \/ ShadowUpdateFails(d) \/ FinalizeFails(d)
      BY <3>2 DEF AgentEnds, ShadowUpdateFails, FinalizeFails, others, TypeOK, BoundsOK
    <3> QED BY <2>1, <3>1, <3>2 DEF DriverMove
  <2>6. StepPlaced' BY <2>1, DriverPlaced
  <2> QED BY <2>2, <2>3, <2>4, <2>5, <2>6 DEF TypeOK, MemoryOK, PCsOK, LocalsOK, BoundsOK
<1>2. CASE \E d \in Drivers : Register(d) \/ RegisterRejected(d)
  <2>1. PICK d \in Drivers : Register(d) \/ RegisterRejected(d) BY <1>2
  <2>2. /\ slot' \in {slot, d} /\ UNCHANGED <<dbVars, cancelled, cacheRun, loc, cpc, cloc, spc, sloc, crashes, faults, cancels>>
        /\ pc' = [pc EXCEPT ![d] = "load"] \/ pc' = [pc EXCEPT ![d] = "idle"]
        /\ retries' \in Nat
    BY <2>1 DEF Register, RegisterRejected, Goto, others, TypeOK, BoundsOK
  <2>3. RowsOK' /\ BoundsOK' BY <2>2 DEF TypeOK, RowsOK, BoundsOK
  <2>4. StepPlaced' BY <2>2 DEF TypeOK, PCsOK, StepPlaced, StepPCs
  <2>5. PCsOK' BY <2>2 DEF TypeOK, PCsOK, DriverPCs, Holding
  <2> QED BY <2>2, <2>3, <2>4, <2>5 DEF TypeOK, MemoryOK, LocalsOK
<1>3. CASE \E d \in Drivers : Release(d) \/ Abort(d)
  <2>1. PICK d \in Drivers : Release(d) \/ Abort(d) BY <1>3
  <2>2. Unregister(d) /\ UNCHANGED <<dbVars, cacheRun, cpc, cloc, spc, sloc, crashes, retries, cancels>> /\ faults' \in Nat
    BY <2>1 DEF Release, Abort, others, TypeOK, BoundsOK
  <2>3. RowsOK' /\ BoundsOK' BY <2>2 DEF TypeOK, RowsOK, BoundsOK
  <2>4. MemoryOK' BY <2>2 DEF Unregister, TypeOK, MemoryOK
  <2>5. PCsOK' BY <2>2 DEF Unregister, TypeOK, PCsOK, DriverPCs
  <2>6. LocalsOK' BY <2>2, RestingTypes DEF Unregister, TypeOK, LocalsOK
  <2>7. StepPlaced'
    <3>1. \A e \in Drivers : e # d => pc'[e] = pc[e] /\ loc'[e] = loc[e]
      BY <2>2 DEF Unregister, TypeOK, PCsOK, LocalsOK
    <3>2. pc'[d] \notin StepPCs BY <2>2 DEF Unregister, TypeOK, PCsOK, StepPCs
    <3> QED BY <3>1, <3>2 DEF StepPlaced
  <2> QED BY <2>3, <2>4, <2>5, <2>6, <2>7 DEF TypeOK
<1>4. CASE \E c \in Cancellers : CancelRequest(c) \/ CancelStep(c) \/ CancelFault(c)
  BY <1>4, CancelTypes
<1>5. CASE SweepStep \/ SweepFailStepFails \/ SweepAbort \/ \E r \in RunIds : SweepPick(r)
  BY <1>5, SweepTypes
<1>6. CASE Crash
  <2>1. RowsOK' /\ BoundsOK' BY <1>6 DEF Crash, TypeOK, RowsOK, BoundsOK
  <2>2. MemoryOK' /\ PCsOK' BY <1>6 DEF Crash, MemoryOK, PCsOK, DriverPCs, CancelPCs, SweepPCs
  <2>3. LocalsOK' BY <1>6, RestingTypes DEF Crash, LocalsOK
  <2>4. StepPlaced' BY <1>6 DEF Crash, StepPlaced, StepPCs
  <2> QED BY <2>1, <2>2, <2>3, <2>4 DEF TypeOK
<1>7. CASE UNCHANGED vars
  BY <1>7 DEF vars, dVars, TypeOK, RowsOK, MemoryOK, PCsOK, LocalsOK, BoundsOK, StepPlaced
<1> QED
  BY <1>1, <1>2, <1>3, <1>4, <1>5, <1>6, <1>7 DEF Next, DriverStep, DriverFault, DriverMove

\* Every row, registry entry, control point and local holds a value of its
\* type, for every recipe, budget and set of actors.
THEOREM TypesHold == Spec => []TypeOK
<1>1. TypeOK /\ StepPlaced /\ [Next]_vars => (TypeOK /\ StepPlaced)' BY TypeStep
<1> QED BY TypeInit, <1>1, PTL DEF Spec

-----------------------------------------------------------------------------
(***************************************************************************)
(* What the rows of a launch task say, whoever writes them.  The argument  *)
(* has two layers.  The rows alone: every step of the system is a step of  *)
(* LaunchTaskContract on them, or leaves them alone (RowStep), and Rows is *)
(* an invariant of those steps.  The actors: a driver, a cancel request or *)
(* the sweep that stands between two of its own writes knows something of  *)
(* the rows (DriverPlace, CancelPlace, SweepPlace), and no other actor     *)
(* changes it meanwhile, because the registry entry is exclusive.  Ledger  *)
(* is the two together with the types; it is inductive.                    *)
(***************************************************************************)

\* update_step_status never fails on its own.  The cancel path and the sweep
\* log such a failure and go on, which is what leaves a step behind its task.
NoStepWrite == "stepWrite" \notin FaultKinds

\* What the rows say between any two writes.
Rows ==
    /\ Contract!RecipeOrder /\ Contract!ActiveIsCurrent
    /\ NoStepWrite => Contract!TerminalTaskSettled
    /\ taskStatus = "Pending" => currentStep = None /\ \A i \in Steps : stepStatus[i] = "Pending"
    /\ currentStep # None => Contract!Turn(currentStep)

\* Control points of a driver: in the loop over the steps, after it, and in a
\* step, first on the way to its agent and then with the outcome in hand.
LoopPCs == {"drive", "setCurrent", "stepRunning", "cancelTask"}
DonePCs == {"clear", "complete"}
StartPCs == {"ensure", "cache", "link", "phase", "spawn", "agent"}
InStepPCs == StartPCs \cup {"cancelShadow", "record", "finish", "route", "timedOut",
                            "persistResume", "persistPark", "parkStep", "haltStep"}
RunningPCs == LoopPCs \cup DonePCs \cup InStepPCs \cup {"parkTask", "haltTask"}

\* The steps from i on are Pending, on their rows and in the driver's snapshot.
Untouched(d, i) == \A j \in Steps : j >= i => loc[d].snap[j] = "Pending" /\ stepStatus[j] = "Pending"

\* What a driver knows of the rows at its control point.
DriverPlace(d) ==
    LET i == loc[d].step
    IN
    /\ pc[d] \in {"spawned", "idle", "load"} => i = 1
    /\ pc[d] = "start" => taskStatus = "Pending" /\ i = 1 /\ loc[d].snap = stepStatus
    /\ pc[d] = "beginRetry" => RetryAllowed /\ i = currentStep /\ loc[d].snap = stepStatus
    /\ pc[d] \in RunningPCs => taskStatus = "Running"
    /\ pc[d] \in LoopPCs => i \in 1 .. NumSteps + 1 /\ Contract!Turn(i) /\ Untouched(d, i)
    /\ pc[d] \in {"setCurrent", "stepRunning"} => i \in Enabled
    /\ pc[d] = "stepRunning" => currentStep = i
    /\ pc[d] \in DonePCs => \A j \in Steps : Contract!Settled(j)
    /\ pc[d] \in InStepPCs =>
         /\ currentStep = i /\ stepStatus[i] = "Running" /\ Untouched(d, i + 1)
         /\ loc[d].segs = resumeCount[i]
    /\ pc[d] \in StartPCs => (loc[d].resume => resumeKey[i])
    /\ pc[d] = "persistResume" => loc[d].segs < Budget[i]
    /\ pc[d] = "parkTask" => currentStep = i /\ stepStatus[i] = Disposition(d)
    /\ pc[d] = "haltTask" => currentStep = i /\ stepStatus[i] = "Cancelled"

\* A cancel request that holds the entry: the steps it has left to cancel are
\* active, and are all the active ones as long as step writes do not fail.
CancelPlace(c) ==
    /\ cpc[c] = "steps" =>
         /\ taskStatus \notin TaskTerminal
         /\ \A i \in cloc[c].todo : stepStatus[i] \in Active
         /\ NoStepWrite => \A i \in Steps : stepStatus[i] \in Active => i \in cloc[c].todo
    /\ cpc[c] \in {"finalize", "finalWrite", "release"} => taskStatus \in TaskTerminal

\* The sweep that holds the entry is about to fail the current step, then the task.
SweepPlace ==
    /\ spc \in {"failStep", "failTask"} => taskStatus \in {"Pending", "Running"}
    /\ spc = "failStep" => sloc.step = currentStep
    /\ spc = "failTask" /\ NoStepWrite => \A i \in Steps : stepStatus[i] \notin Active

\* Automatic resumes never pass the budget of their step.
WithinBudget == \A i \in Steps : resumeCount[i] <= Budget[i]

\* The rows, and what every actor knows of them.
Placed ==
    /\ Rows /\ WithinBudget /\ SweepPlace
    /\ \A d \in Drivers : DriverPlace(d)
    /\ \A c \in Cancellers : CancelPlace(c)

\* Undisturbed, a Running task has a driver at work on it ...
Executed == crashes + faults = 0 /\ taskStatus = "Running" => \E d \in Drivers : pc[d] \in RunningPCs
\* ... and a parked one can be retried, unless a cancel is at its steps.
Parked == taskStatus = "NeedsHuman" /\ crashes + faults = 0 /\ (\A c \in Cancellers : cpc[c] # "steps") => RetryAllowed

\* A run id names a row.
Exists(r) == r # None => runState[r] # "Absent"
\* So does every id that the cache or an actor holds.
RunsExist ==
    /\ Exists(cacheRun) /\ Exists(sloc.run)
    /\ \A d \in Drivers : Exists(loc[d].run)
    /\ \A c \in Cancellers : Exists(cloc[c].run) /\ Exists(cloc[c].shadow)
\* Undisturbed, at most one run exists: the cached one, or the one that a
\* driver has minted and not cached yet.
Minted ==
    crashes + faults = 0 =>
        \A r \in RunIds : runState[r] # "Absent" =>
            \/ cacheRun = r
            \/ cacheRun = None /\ \E d \in Drivers : pc[d] = "cache" /\ loc[d].run = r

-----------------------------------------------------------------------------
(* The rows alone.                                                         *)

\* A dead task whose steps were not settled: only after a failed step write.
LooseEnd ==
    \E s \in {"Failed", "Cancelled"} :
        /\ <<taskStatus, s>> \in TaskEdges /\ taskStatus' = s
        /\ UNCHANGED <<currentStep, stepStatus>>

\* A step of the rows.
RowStep ==
    \/ Contract!Next
    \/ ~NoStepWrite /\ LooseEnd
    \/ UNCHANGED taskVars

\* The contract speaks of the same steps and statuses.
LEMMA SameNames ==
    /\ Contract!Steps = Steps /\ Contract!None = None
    /\ Contract!TaskTerminal = TaskTerminal /\ Contract!Active = Active
    /\ Contract!TaskEdges = TaskEdges /\ Contract!StepEdges = StepEdges
BY DEF Contract!Steps, Steps, Contract!None, None, Contract!TaskTerminal, TaskTerminal, Contract!Active, Active,
   Contract!TaskEdges, TaskEdges, Contract!StepEdges, StepEdges

\* The edges of the two status machines, as a table.
LEMMA TaskEdgesAre ==
    \A s, t : <<s, t>> \in TaskEdges <=>
        \/ s = "Pending" /\ t \in {"Running", "Cancelled", "Failed"}
        \/ s = "Running" /\ t \in {"NeedsHuman", "Completed", "Failed", "Cancelled"}
        \/ s = "NeedsHuman" /\ t \in {"Running", "Cancelled", "Failed"}
BY DEF TaskEdges

\* The same for the steps of a task.
LEMMA StepEdgesAre ==
    \A s, t : <<s, t>> \in StepEdges <=>
        \/ s = "Pending" /\ t \in {"Running", "Skipped", "Cancelled", "Failed"}
        \/ s = "Running" /\ t \in {"Completed", "Failed", "NeedsHuman", "Cancelled"}
        \/ s = "NeedsHuman" /\ t \in {"Running", "Cancelled", "Failed"}
BY DEF StepEdges

\* Rows is an invariant of the rows alone: every step of the contract keeps it.
LEMMA RowsKept == ASSUME RowsOK, Rows, RowStep PROVE Rows'
<1> USE SameNames, TaskEdgesAre, StepEdgesAre, StepsAreNat
    DEF RowsOK, Rows, Contract!RecipeOrder, Contract!ActiveIsCurrent, Contract!TerminalTaskSettled,
        Contract!Turn, Contract!Settled, Active, TaskTerminal
<1>1. CASE Contract!StartTask BY <1>1 DEF Contract!StartTask
<1>2. CASE Contract!ParkTask BY <1>2 DEF Contract!ParkTask
<1>3. CASE Contract!Retry BY <1>3 DEF Contract!Retry
<1>4. CASE Contract!ClearCurrent BY <1>4 DEF Contract!ClearCurrent
<1>5. CASE Contract!CompleteTask BY <1>5 DEF Contract!CompleteTask
<1>6. ASSUME NEW i \in Steps, Contract!SkipStep(i) PROVE Rows' BY <1>6 DEF Contract!SkipStep
<1>7. ASSUME NEW i \in Steps, Contract!PointTo(i) PROVE Rows' BY <1>7 DEF Contract!PointTo
<1>8. ASSUME NEW i \in Steps, Contract!BeginStep(i) PROVE Rows' BY <1>8 DEF Contract!BeginStep
<1>9. ASSUME NEW i \in Steps, NEW s \in {"Completed", "NeedsHuman", "Failed", "Cancelled"}, Contract!SettleStep(i, s)
      PROVE  Rows'
  BY <1>9 DEF Contract!SettleStep
<1>10. ASSUME NEW s \in {"Failed", "Cancelled"}, Contract!EndTask(s) PROVE Rows' BY <1>10 DEF Contract!EndTask
<1>11. CASE ~NoStepWrite /\ LooseEnd BY <1>11 DEF LooseEnd
<1>12. CASE UNCHANGED taskVars BY <1>12 DEF taskVars
<1> QED
  BY <1>1, <1>2, <1>3, <1>4, <1>5, <1>6, <1>7, <1>8, <1>9, <1>10, <1>11, <1>12 DEF RowStep, Contract!Next

\* What a driver's move does to the rows, and where it leaves the driver.
DriverKeeps(d) ==
    /\ RowStep /\ WithinBudget' /\ DriverPlace(d)'
    /\ taskStatus' = "Running" => pc'[d] \in RunningPCs \/ (taskStatus = "Running" /\ pc[d] \notin RunningPCs)
    /\ taskStatus' = "NeedsHuman" => RetryAllowed' \/ UNCHANGED taskVars

\* The steps after a current step that is not settled are Pending.
LEMMA LaterPending ==
    ASSUME RowsOK, Rows, currentStep # None, ~Contract!Settled(currentStep), NEW j \in Steps, j > currentStep
    PROVE  stepStatus[j] = "Pending"
BY SameNames DEF RowsOK, Rows, Contract!RecipeOrder

\* A driver that goes to a control point is at it.
LEMMA ControlPoint ==
    ASSUME PCsOK, NEW d \in Drivers, NEW p, pc' = [pc EXCEPT ![d] = p]
    PROVE  pc'[d] = p
BY DEF PCsOK

\* Moves from one control point of a step in work to another.
LEMMA StepMovers ==
    ASSUME TypeOK, Placed, NEW d \in Drivers, pc[d] \in InStepPCs, NEW p \in InStepPCs,
           pc' = [pc EXCEPT ![d] = p], UNCHANGED <<taskVars, resumeCount, resumeKey>>,
           loc'[d].step = loc[d].step, loc'[d].snap = loc[d].snap, loc'[d].segs = loc[d].segs,
           p \in StartPCs => pc[d] \in StartPCs /\ loc'[d].resume = loc[d].resume,
           p = "persistResume" => loc[d].segs < Budget[loc[d].step]
    PROVE  DriverKeeps(d)
<1>1. pc'[d] = p BY ControlPoint DEF TypeOK
<1>2. pc'[d] \in InStepPCs /\ pc'[d] \in RunningPCs /\ pc[d] \in RunningPCs BY <1>1 DEF RunningPCs
<1>3. /\ pc'[d] \notin LoopPCs \cup DonePCs
      /\ pc'[d] \notin {"spawned", "idle", "load", "start", "beginRetry", "setCurrent", "stepRunning", "parkTask", "haltTask"}
  BY <1>2 DEF InStepPCs, StartPCs, LoopPCs, DonePCs
<1>4. DriverPlace(d) BY DEF Placed
<1>5. DriverPlace(d)'
  BY <1>1, <1>2, <1>3, <1>4 DEF DriverPlace, taskVars, Untouched
<1> QED BY <1>2, <1>5 DEF DriverKeeps, RowStep, Placed, WithinBudget, taskVars

\* A move that writes no status keeps what the driver knows of the rows.
LEMMA QuietKeeps ==
    ASSUME TypeOK, StepPlaced, Placed, NEW d \in Drivers,
           \/ EnsureRun(d) \/ EnsureRunFails(d) \/ CacheRun(d) \/ LinkRun(d) \/ WritePhase(d) \/ Spawn(d)
           \/ AgentEnds(d) \/ CancelArm(d) \/ CancelShadow(d) \/ RecordLinks(d) \/ RouteHalt(d)
           \/ DecideResume(d) \/ ShadowUpdateFails(d)
    PROVE  DriverKeeps(d)
<1> USE DEF Goto, At, InStepPCs, StartPCs, dbVars, taskVars, stepExtra
<1>0. loc \in [Drivers -> Locals] /\ DOMAIN loc[d] = DOMAIN NoLocals BY DEF TypeOK, LocalsOK, Locals, NoLocals
<1>1. CASE EnsureRun(d)
  <2>1. PICK r : loc' = [loc EXCEPT ![d].run = r] BY <1>1 DEF EnsureRun
  <2>2. PICK p \in {"link", "cache"} : pc' = [pc EXCEPT ![d] = p] BY <1>1 DEF EnsureRun
  <2> QED BY <1>0, <1>1, <2>1, <2>2, StepMovers DEF EnsureRun, NoLocals
<1>2. CASE EnsureRunFails(d) BY <1>0, <1>2, StepMovers DEF EnsureRunFails, NoLocals
<1>3. CASE CacheRun(d) BY <1>0, <1>3, StepMovers DEF CacheRun, NoLocals
<1>4. CASE LinkRun(d) BY <1>0, <1>4, StepMovers DEF LinkRun, NoLocals
<1>5. CASE WritePhase(d) BY <1>0, <1>5, StepMovers DEF WritePhase, NoLocals
<1>6. CASE Spawn(d) BY <1>0, <1>6, StepMovers DEF Spawn, NoLocals
<1>7. CASE AgentEnds(d) BY <1>0, <1>7, StepMovers DEF AgentEnds, NoLocals
<1>8. CASE CancelArm(d) BY <1>0, <1>8, StepMovers DEF CancelArm, NoLocals
<1>9. CASE CancelShadow(d) BY <1>0, <1>9, StepMovers DEF CancelShadow, NoLocals
<1>10. CASE RecordLinks(d) BY <1>0, <1>10, StepMovers DEF RecordLinks, NoLocals
<1>11. CASE RouteHalt(d) BY <1>0, <1>11, StepMovers DEF RouteHalt, NoLocals
<1>12. CASE DecideResume(d) BY <1>0, <1>12, StepMovers DEF DecideResume, MayResume, NoLocals
<1>13. CASE ShadowUpdateFails(d) BY <1>0, <1>13, StepMovers DEF ShadowUpdateFails, NoLocals
<1> QED BY <1>1, <1>2, <1>3, <1>4, <1>5, <1>6, <1>7, <1>8, <1>9, <1>10, <1>11, <1>12, <1>13

\* The loop over the steps, from the snapshot to the end of the recipe.
LEMMA LoopKeeps ==
    ASSUME TypeOK, StepPlaced, Placed, NEW d \in Drivers,
           \/ Load(d) \/ Start(d) \/ Drive(d) \/ SetCurrent(d) \/ StepRunning(d) \/ CancelTask(d)
           \/ ClearCurrent(d) \/ Complete(d)
    PROVE  DriverKeeps(d)
<1> USE StepsAreNat DEF Goto, At, dbVars, taskVars, stepExtra, DriverPlace, Untouched
<1> DEFINE i == loc[d].step
<1>0. /\ loc \in [Drivers -> Locals] /\ DOMAIN loc[d] = DOMAIN NoLocals /\ DriverPlace(d) /\ RowsOK /\ Rows
      /\ i \in Nat /\ loc[d].snap \in [Steps -> StepStatuses]
  BY DEF TypeOK, LocalsOK, Locals, NoLocals, Placed
<1>p. \A p : pc' = [pc EXCEPT ![d] = p] => pc'[d] = p BY ControlPoint DEF TypeOK
<1>n. NumSteps \in Nat /\ Steps = 1 .. NumSteps /\ Enabled \subseteq Steps BY StepsAssumption DEF Steps
<1>w. WithinBudget /\ (UNCHANGED resumeCount => WithinBudget') BY DEF Placed, WithinBudget
<1> USE DEF RunningPCs, LoopPCs, DonePCs, InStepPCs, StartPCs
<1>1. CASE Load(d)
  <2>1. UNCHANGED <<taskVars, resumeCount>> BY <1>1 DEF Load
  <2>2. CASE d = Runner /\ taskStatus = "Pending"
    <3>1. pc'[d] = "start" /\ pc[d] = "load" BY <1>1, <1>p, <2>2 DEF Load
    <3>2. loc'[d].step = 1 /\ loc'[d].snap = stepStatus BY <1>0, <1>1, <2>2, <3>1 DEF Load, NoLocals
    <3>3. DriverPlace(d)' BY <2>1, <2>2, <3>1, <3>2
    <3> QED BY <1>w, <2>1, <2>2, <3>1, <3>3 DEF DriverKeeps, RowStep
  <2>3. CASE d # Runner /\ RetryAllowed
    <3>1. pc'[d] = "beginRetry" /\ pc[d] = "load" BY <1>1, <1>p, <2>3 DEF Load
    <3>2. loc'[d].step = currentStep /\ loc'[d].snap = stepStatus BY <1>0, <1>1, <2>3, <3>1 DEF Load, NoLocals
    <3>3. DriverPlace(d)' BY <2>1, <2>3, <3>1, <3>2 DEF RetryAllowed
    <3> QED BY <1>w, <2>1, <2>3, <3>1, <3>3 DEF DriverKeeps, RowStep
  <2>4. CASE pc' = [pc EXCEPT ![d] = "release"] /\ pc[d] = "load"
    <3>1. pc'[d] = "release" BY <1>p, <2>4
    <3> QED BY <1>w, <2>1, <2>4, <3>1 DEF DriverKeeps, RowStep
  <2> QED BY <1>1, <2>2, <2>3, <2>4 DEF Load
<1>2. CASE Start(d)
  <2>1. pc[d] = "start" /\ taskStatus = "Pending" /\ loc' = loc BY <1>0, <1>2 DEF Start
  <2>2. taskStatus' = "Running" /\ pc'[d] = "drive" /\ UNCHANGED <<currentStep, stepStatus, resumeCount>>
    BY <1>2, <1>p, <2>1, TaskEdgesAre DEF Start, WriteTask
  <2>3. \A j \in Steps : stepStatus[j] = "Pending" BY <1>0, <2>1 DEF Rows
  <2>4. DriverPlace(d)' BY <1>0, <1>n, <2>1, <2>2, <2>3, SameNames DEF Contract!Turn
  <2>5. Contract!StartTask BY <2>1, <2>2 DEF Contract!StartTask
  <2> QED BY <1>w, <2>2, <2>4, <2>5 DEF DriverKeeps, RowStep, Contract!Next
<1>3. CASE Drive(d)
  <2>1. pc[d] = "drive" /\ taskStatus = "Running" /\ UNCHANGED <<currentStep, resumeCount>>
    BY <1>0, <1>3 DEF Drive
  <2>2. CASE i > NumSteps
    <3>0. i \notin Steps BY <1>0, <1>n, <2>2
    <3>1. pc' = [pc EXCEPT ![d] = "clear"] /\ UNCHANGED <<taskVars, loc>> BY <1>3, <1>n, <3>0 DEF Drive
    <3>4. pc'[d] = "clear" BY <1>p, <3>1
    <3>2. \A j \in Steps : Contract!Settled(j) BY <1>0, <1>n, <2>1, <2>2, SameNames DEF Contract!Turn
    <3>3. DriverPlace(d)' BY <2>1, <3>1, <3>4, <3>2 DEF Contract!Settled
    <3> QED BY <1>w, <2>1, <3>1, <3>4, <3>3 DEF DriverKeeps, RowStep
  <2>3. CASE i \in Steps \ Enabled
    <3>1. loc[d].snap[i] = "Pending" /\ stepStatus[i] = "Pending" BY <1>0, <1>n, <2>1, <2>3
    <3>a. /\ WriteStep(d, i, "Skipped", "drive") /\ taskStatus' = taskStatus
          /\ loc' = [loc EXCEPT ![d].step = i + 1]
      BY <1>3, <1>n, <2>3, <3>1 DEF Drive, StepTerminal, Active
    <3>2. /\ stepStatus' = [stepStatus EXCEPT ![i] = "Skipped"] /\ taskStatus' = taskStatus /\ pc'[d] = "drive"
          /\ loc' = [loc EXCEPT ![d].step = i + 1]
      BY <1>p, <3>1, <3>a, StepEdgesAre DEF WriteStep
    <3>3. loc'[d].step = i + 1 /\ loc'[d].snap = loc[d].snap BY <1>0, <3>2 DEF NoLocals
    <3>b. \A j \in Steps : j < i => Contract!Settled(j) BY <1>0, <2>1, SameNames DEF Contract!Turn
    <3>c. \A j \in Steps : j < i + 1 => j < i \/ j = i BY <1>n, <2>3
    <3>4. \A j \in Steps : j < i + 1 => stepStatus'[j] \in {"Completed", "Skipped"}
      BY <1>0, <2>3, <3>2, <3>b, <3>c DEF Contract!Settled, RowsOK
    <3>5. \A j \in Steps : j >= i + 1 => loc[d].snap[j] = "Pending" /\ stepStatus'[j] = "Pending"
      BY <1>0, <1>n, <2>1, <2>3, <3>2 DEF RowsOK
    <3>6. DriverPlace(d)'
      BY <1>n, <2>1, <2>3, <3>2, <3>3, <3>4, <3>5, SameNames DEF Contract!Turn, Contract!Settled
    <3>7. Contract!SkipStep(i) BY <1>0, <2>1, <2>3, <3>1, <3>2 DEF Contract!SkipStep
    <3> QED BY <1>w, <2>1, <2>3, <3>2, <3>6, <3>7, SameNames DEF DriverKeeps, RowStep, Contract!Next
  <2>4. CASE i \in Enabled
    <3>1. loc[d].snap[i] = "Pending" BY <1>0, <1>n, <2>1, <2>4
    <3>a. /\ pc' = [pc EXCEPT ![d] = IF cancelled[d] THEN "cancelTask" ELSE "setCurrent"]
          /\ UNCHANGED <<taskVars, loc>>
      BY <1>3, <1>n, <2>4, <3>1 DEF Drive, StepTerminal, Active
    <3>2. pc'[d] \in {"cancelTask", "setCurrent"} /\ UNCHANGED <<taskVars, loc>>
      BY <1>p, <3>a
    <3>3. DriverPlace(d)' BY <1>0, <2>1, <2>4, <3>2 DEF Contract!Turn, Contract!Settled
    <3> QED BY <1>w, <2>1, <3>2, <3>3 DEF DriverKeeps, RowStep
  <2> QED BY <1>n, <1>0, <2>1, <2>2, <2>3, <2>4
<1>4. CASE SetCurrent(d)
  <2>1. /\ pc[d] = "setCurrent" /\ taskStatus = "Running" /\ i \in Enabled /\ stepStatus[i] = "Pending" /\ Contract!Turn(i)
    BY <1>0, <1>4, <1>n DEF SetCurrent
  <2>a. currentStep' = i /\ UNCHANGED <<taskStatus, stepStatus, resumeCount, loc>> /\ pc'[d] = "stepRunning"
    BY <1>4, <1>p DEF SetCurrent
  <2>2. DriverPlace(d)' BY <1>0, <2>1, <2>a DEF Contract!Turn, Contract!Settled
  <2>3. Contract!PointTo(i) BY <2>1, <2>a DEF Contract!PointTo
  <2> QED BY <1>n, <1>w, <2>1, <2>a, <2>2, <2>3, SameNames DEF DriverKeeps, RowStep, Contract!Next
<1>5. CASE StepRunning(d)
  <2>1. /\ pc[d] = "stepRunning" /\ taskStatus = "Running" /\ currentStep = i /\ i \in Enabled
        /\ stepStatus[i] = "Pending" /\ Contract!Turn(i)
    BY <1>0, <1>5, <1>n DEF StepRunning
  <2>2. /\ stepStatus' = [stepStatus EXCEPT ![i] = "Running"] /\ pc'[d] = "ensure"
        /\ UNCHANGED <<taskStatus, currentStep, resumeCount, resumeKey>>
    BY <1>5, <1>p, <2>1, StepEdgesAre DEF StepRunning, WriteStep
  <2>3. /\ loc'[d].step = i /\ loc'[d].snap = loc[d].snap /\ loc'[d].segs = resumeCount[i] /\ loc'[d].resume = FALSE
    BY <1>0, <1>5 DEF StepRunning, NoLocals
  <2>4. stepStatus'[i] = "Running" /\ \A j \in Steps : j >= i + 1 => stepStatus'[j] = "Pending" /\ loc[d].snap[j] = "Pending"
    BY <1>0, <1>n, <2>1, <2>2 DEF RowsOK
  <2>5. DriverPlace(d)' BY <2>1, <2>2, <2>3, <2>4
  <2>6. Contract!BeginStep(i) BY <2>1, <2>2 DEF Contract!BeginStep
  <2> QED BY <1>n, <1>w, <2>1, <2>2, <2>5, <2>6, SameNames DEF DriverKeeps, RowStep, Contract!Next
<1>6. CASE CancelTask(d)
  <2>1. /\ pc[d] = "cancelTask" /\ taskStatus = "Running" /\ Contract!Turn(i)
        /\ \A j \in Steps : j >= i => stepStatus[j] = "Pending"
    BY <1>0, <1>6 DEF CancelTask
  <2>2. taskStatus' = "Cancelled" /\ pc'[d] = "release" /\ UNCHANGED <<currentStep, stepStatus, resumeCount>>
    BY <1>6, <1>p, <2>1, TaskEdgesAre DEF CancelTask, WriteTask
  <2>3. \A j \in Steps : stepStatus[j] \notin Active
    BY <1>0, <1>n, <2>1, SameNames DEF Contract!Turn, Contract!Settled, Active
  <2>4. Contract!EndTask("Cancelled") BY <2>1, <2>2, <2>3, SameNames, TaskEdgesAre DEF Contract!EndTask
  <2> QED BY <1>w, <2>2, <2>4 DEF DriverKeeps, RowStep, Contract!Next
<1>7. CASE ClearCurrent(d)
  <2>1. /\ pc[d] = "clear" /\ taskStatus = "Running" /\ (\A j \in Steps : Contract!Settled(j))
        /\ currentStep' = None /\ pc'[d] = "complete" /\ UNCHANGED <<taskStatus, stepStatus, resumeCount>>
    BY <1>0, <1>7, <1>p DEF ClearCurrent
  <2>2. DriverPlace(d)' BY <2>1 DEF Contract!Settled
  <2>3. Contract!ClearCurrent BY <2>1, SameNames DEF Contract!ClearCurrent
  <2> QED BY <1>w, <2>1, <2>2, <2>3 DEF DriverKeeps, RowStep, Contract!Next
<1>8. CASE Complete(d)
  <2>1. pc[d] = "complete" /\ taskStatus = "Running" /\ \A j \in Steps : Contract!Settled(j)
    BY <1>0, <1>8 DEF Complete
  <2>2. taskStatus' = "Completed" /\ pc'[d] = "finalize" /\ UNCHANGED <<currentStep, stepStatus, resumeCount>>
    BY <1>8, <1>p, <2>1, TaskEdgesAre DEF Complete, WriteTask
  <2>3. Contract!CompleteTask BY <2>1, <2>2, SameNames DEF Contract!CompleteTask
  <2> QED BY <1>w, <2>2, <2>3 DEF DriverKeeps, RowStep, Contract!Next
<1> QED BY <1>1, <1>2, <1>3, <1>4, <1>5, <1>6, <1>7, <1>8

\* The writes of one step: its retry, its end, its resumes and its halts.
LEMMA WritesKeep ==
    ASSUME TypeOK, StepPlaced, Placed, NEW d \in Drivers,
           \/ BeginRetry(d) \/ FinishStep(d) \/ PersistResume(d) \/ PersistPark(d) \/ ParkStep(d) \/ ParkTask(d)
           \/ HaltStep(d) \/ HaltTask(d) \/ Finalize(d) \/ FinalWrite(d) \/ FinalizeFails(d)
    PROVE  DriverKeeps(d)
<1> USE StepsAreNat DEF Goto, At, dbVars, taskVars, stepExtra, DriverPlace, Untouched
<1> DEFINE i == loc[d].step
<1>0. /\ loc \in [Drivers -> Locals] /\ DOMAIN loc[d] = DOMAIN NoLocals /\ DriverPlace(d) /\ RowsOK /\ Rows
      /\ i \in Nat /\ loc[d].snap \in [Steps -> StepStatuses] /\ loc[d].segs \in Nat
      /\ pc[d] \in StepPCs => i \in Steps
  BY DEF TypeOK, LocalsOK, Locals, NoLocals, Placed, StepPlaced
<1>p. \A p : pc' = [pc EXCEPT ![d] = p] => pc'[d] = p BY ControlPoint DEF TypeOK
<1>n. NumSteps \in Nat /\ Steps = 1 .. NumSteps /\ Enabled \subseteq Steps BY StepsAssumption DEF Steps
<1>w. WithinBudget /\ (UNCHANGED resumeCount => WithinBudget') BY DEF Placed, WithinBudget
\* A step in work may take any of its ends.
<1>s. ASSUME pc[d] \in InStepPCs, NEW s \in {"Completed", "NeedsHuman", "Failed", "Cancelled"}, NEW p, WriteStep(d, i, s, p),
             UNCHANGED <<taskStatus, currentStep>>
      PROVE  /\ stepStatus' = [stepStatus EXCEPT ![i] = s] /\ pc'[d] = p /\ taskStatus = "Running" /\ currentStep = i
             /\ i \in Steps /\ Contract!Next
  <2>1. taskStatus = "Running" /\ currentStep = i /\ stepStatus[i] = "Running" /\ i \in Steps
    BY <1>0, <1>s DEF RunningPCs, InStepPCs, StartPCs, StepPCs
  <2>2. stepStatus' = [stepStatus EXCEPT ![i] = s] /\ pc'[d] = p BY <1>p, <1>s, <2>1, StepEdgesAre DEF WriteStep
  <2>3. Contract!SettleStep(i, s)
    BY <1>s, <2>1, <2>2, SameNames, StepEdgesAre DEF Contract!SettleStep, TaskTerminal
  <2> QED BY <2>1, <2>2, <2>3, SameNames DEF Contract!Next
<1>1. CASE BeginRetry(d)
  <2>1. /\ pc[d] = "beginRetry" /\ taskStatus = "NeedsHuman" /\ currentStep = i /\ stepStatus[i] = "NeedsHuman"
        /\ i # None /\ loc[d].snap = stepStatus
    BY <1>0, <1>1 DEF BeginRetry, RetryAllowed
  <2>2. /\ taskStatus' = "Running" /\ currentStep' = i /\ stepStatus' = [stepStatus EXCEPT ![i] = "Running"]
        /\ UNCHANGED <<resumeCount, resumeKey>>
    BY <1>1, <2>1, StepEdgesAre, TaskEdgesAre DEF BeginRetry
  <2>a. /\ pc' = [pc EXCEPT ![d] = "ensure"]
        /\ \E key \in {FALSE, resumeKey[i]} :
             loc' = [loc EXCEPT ![d] = [loc[d] EXCEPT !.segs = resumeCount[i], !.prev = FALSE, !.resume = key]]
    BY <1>0, <1>1, <2>1, StepEdgesAre, TaskEdgesAre DEF BeginRetry
  <2>b. PICK key \in {FALSE, resumeKey[i]} :
             loc' = [loc EXCEPT ![d] = [loc[d] EXCEPT !.segs = resumeCount[i], !.prev = FALSE, !.resume = key]]
    BY <2>a
  <2>3. /\ pc'[d] = "ensure" /\ loc'[d].step = i /\ loc'[d].snap = stepStatus /\ loc'[d].segs = resumeCount[i]
        /\ loc'[d].resume => resumeKey[i]
    BY <1>0, <1>p, <2>1, <2>a, <2>b DEF NoLocals
  <2>4. \A j \in Steps : j >= i + 1 => stepStatus[j] = "Pending"
    <3>1. ~Contract!Settled(currentStep) BY <2>1 DEF Contract!Settled
    <3>2. \A j \in Steps : j >= i + 1 => j > i BY <1>0, <1>n
    <3> QED BY <1>0, <2>1, <3>1, <3>2, LaterPending
  <2>5. stepStatus'[i] = "Running" /\ \A j \in Steps : j >= i + 1 => stepStatus'[j] = "Pending"
    BY <1>0, <1>n, <2>1, <2>2, <2>4 DEF RowsOK
  <2>6. DriverPlace(d)'
    BY <2>2, <2>3, <2>4, <2>5 DEF RunningPCs, LoopPCs, DonePCs, InStepPCs, StartPCs
  <2>7. Contract!Retry BY <2>1, <2>2, SameNames DEF Contract!Retry
  <2> QED
    BY <1>w, <2>2, <2>3, <2>6, <2>7 DEF DriverKeeps, RowStep, Contract!Next, RunningPCs, InStepPCs, StartPCs
<1>2. CASE FinishStep(d)
  <2>1. /\ pc[d] = "finish" /\ WriteStep(d, i, "Completed", "drive") /\ UNCHANGED <<taskStatus, currentStep, resumeCount>>
        /\ loc' = [loc EXCEPT ![d].step = i + 1, ![d].out = SpawnError]
    BY <1>0, <1>2 DEF FinishStep
  <2>2. /\ stepStatus' = [stepStatus EXCEPT ![i] = "Completed"] /\ pc'[d] = "drive" /\ taskStatus = "Running"
        /\ currentStep = i /\ i \in Steps /\ Contract!Next
    BY <1>s, <2>1 DEF InStepPCs
  <2>3. loc'[d].step = i + 1 /\ loc'[d].snap = loc[d].snap BY <1>0, <2>1 DEF NoLocals
  <2>4. \A j \in Steps : j < i + 1 => stepStatus'[j] \in {"Completed", "Skipped"}
    <3>1. \A j \in Steps : j < i => Contract!Settled(j) BY <1>0, <2>2, SameNames DEF Rows, Contract!Turn
    <3>2. \A j \in Steps : j < i + 1 => j < i \/ j = i BY <1>n, <2>2
    <3> QED BY <1>0, <2>2, <3>1, <3>2 DEF Contract!Settled, RowsOK
  <2>5. \A j \in Steps : j >= i + 1 => loc[d].snap[j] = "Pending" /\ stepStatus'[j] = "Pending"
    BY <1>0, <1>n, <2>1, <2>2 DEF RowsOK, InStepPCs
  <2>7. pc'[d] = "drive" /\ taskStatus' = "Running" /\ i + 1 \in 1 .. NumSteps + 1 BY <1>n, <2>1, <2>2
  <2>8. \A n : n = i + 1 => Contract!Turn(n)' BY <2>4, SameNames DEF Contract!Turn, Contract!Settled
  <2>6. DriverPlace(d)'
    BY <2>3, <2>5, <2>7, <2>8, SameNames DEF RunningPCs, LoopPCs, DonePCs, InStepPCs, StartPCs
  <2> QED BY <1>w, <2>1, <2>2, <2>6 DEF DriverKeeps, RowStep, RunningPCs, LoopPCs
<1>3. CASE PersistResume(d)
  <2>1. /\ pc[d] = "persistResume" /\ taskStatus = "Running" /\ currentStep = i /\ stepStatus[i] = "Running"
        /\ i \in Steps /\ loc[d].segs < Budget[i] /\ Untouched(d, i + 1)
    BY <1>0, <1>3 DEF PersistResume, RunningPCs, InStepPCs, StepPCs
  <2>2. /\ pc' = [pc EXCEPT ![d] = "ensure"] /\ UNCHANGED taskVars
        /\ resumeCount' = [resumeCount EXCEPT ![i] = loc[d].segs + 1]
        /\ resumeKey' = [resumeKey EXCEPT ![i] = TRUE]
        /\ loc' = [loc EXCEPT ![d] = [loc[d] EXCEPT !.segs = loc[d].segs + 1, !.prev = TRUE, !.resume = TRUE,
                                                    !.out = SpawnError]]
    BY <1>0, <1>3 DEF PersistResume
  <2>3. pc'[d] = "ensure" /\ loc'[d].step = i /\ loc'[d].snap = loc[d].snap /\ loc'[d].segs = loc[d].segs + 1
    <3>1. pc'[d] = "ensure" BY <1>p, <2>2
    <3>2. loc'[d] = [loc[d] EXCEPT !.segs = loc[d].segs + 1, !.prev = TRUE, !.resume = TRUE, !.out = SpawnError]
      BY <1>0, <2>2
    <3> QED BY <1>0, <3>1, <3>2 DEF NoLocals
  <2>4. resumeCount'[i] = loc[d].segs + 1 /\ resumeKey'[i] BY <1>0, <2>1, <2>2 DEF RowsOK
  <2>5. Budget[i] \in Nat BY <2>1, BudgetAssumption
  <2>6. WithinBudget' BY <1>0, <1>w, <2>1, <2>2, <2>4, <2>5 DEF WithinBudget, RowsOK
  <2>7. DriverPlace(d)'
    BY <2>1, <2>2, <2>3, <2>4 DEF RunningPCs, LoopPCs, DonePCs, InStepPCs, StartPCs
  <2> QED BY <2>1, <2>2, <2>3, <2>6, <2>7 DEF DriverKeeps, RowStep, RunningPCs, InStepPCs, StartPCs
<1>4. CASE PersistPark(d)
  <2>1. /\ pc[d] = "persistPark" /\ taskStatus = "Running" /\ currentStep = i /\ stepStatus[i] = "Running"
        /\ i \in Steps /\ Untouched(d, i + 1) /\ loc[d].segs = resumeCount[i]
    BY <1>0, <1>4 DEF PersistPark, RunningPCs, InStepPCs, StepPCs
  <2>2. /\ pc'[d] = "parkStep" /\ UNCHANGED <<taskVars, loc>>
        /\ resumeCount' = [resumeCount EXCEPT ![i] = loc[d].segs]
    BY <1>4, <1>p DEF PersistPark
  <2>3. resumeCount' = resumeCount BY <1>0, <2>1, <2>2 DEF RowsOK
  <2>4. DriverPlace(d)'
    BY <2>1, <2>2, <2>3 DEF RunningPCs, LoopPCs, DonePCs, InStepPCs, StartPCs
  <2> QED BY <1>w, <2>1, <2>2, <2>3, <2>4 DEF DriverKeeps, RowStep, RunningPCs, InStepPCs, StartPCs
<1>5. CASE ParkStep(d)
  <2>1. /\ pc[d] = "parkStep" /\ WriteStep(d, i, Disposition(d), "parkTask")
        /\ UNCHANGED <<taskStatus, currentStep, resumeCount, loc>>
    BY <1>5 DEF ParkStep
  <2>2. /\ stepStatus' = [stepStatus EXCEPT ![i] = Disposition(d)] /\ pc'[d] = "parkTask" /\ taskStatus = "Running"
        /\ currentStep = i /\ i \in Steps /\ Contract!Next
    BY <1>s, <2>1 DEF InStepPCs, Disposition
  <2>3. stepStatus'[i] = Disposition(d)' BY <1>0, <2>1, <2>2 DEF RowsOK, Disposition
  <2>4. DriverPlace(d)'
    BY <2>1, <2>2, <2>3 DEF RunningPCs, LoopPCs, DonePCs, InStepPCs, StartPCs
  <2> QED BY <1>w, <2>1, <2>2, <2>4 DEF DriverKeeps, RowStep, RunningPCs
<1>6. CASE ParkTask(d)
  <2>1. pc[d] = "parkTask" /\ taskStatus = "Running" /\ currentStep = i /\ stepStatus[i] = Disposition(d) /\ i \in Steps
    BY <1>0, <1>6 DEF ParkTask, RunningPCs, StepPCs
  <2>2. UNCHANGED <<currentStep, stepStatus, resumeCount>> BY <1>6 DEF ParkTask
  <2>3. CASE Disposition(d) = "Failed"
    <3>1. taskStatus' = "Failed" /\ pc'[d] = "finalize"
      BY <1>6, <1>p, <2>1, <2>3, TaskEdgesAre DEF ParkTask, WriteTask
    <3>2. \A j \in Steps : stepStatus[j] \notin Active
      BY <1>0, <2>1, <2>3, SameNames DEF Rows, Contract!ActiveIsCurrent, Active
    <3>3. Contract!EndTask("Failed") BY <2>1, <2>2, <3>1, <3>2, SameNames, TaskEdgesAre DEF Contract!EndTask
    <3>4. DriverPlace(d)' BY <3>1 DEF RunningPCs, LoopPCs, DonePCs, InStepPCs, StartPCs
    <3> QED BY <1>w, <2>2, <3>1, <3>3, <3>4 DEF DriverKeeps, RowStep, Contract!Next
  <2>4. CASE Disposition(d) = "NeedsHuman"
    <3>1. taskStatus' = "NeedsHuman" /\ pc'[d] = "release"
      BY <1>6, <1>p, <2>1, <2>4, TaskEdgesAre DEF ParkTask, WriteTask
    <3>2. Contract!ParkTask BY <2>1, <2>2, <2>4, <3>1, SameNames DEF Contract!ParkTask
    <3>3. RetryAllowed' BY <2>1, <2>2, <2>4, <3>1 DEF RetryAllowed
    <3>4. DriverPlace(d)' BY <3>1 DEF RunningPCs, LoopPCs, DonePCs, InStepPCs, StartPCs
    <3> QED BY <1>w, <2>2, <3>1, <3>2, <3>3, <3>4 DEF DriverKeeps, RowStep, Contract!Next
  <2> QED BY <2>3, <2>4 DEF Disposition
<1>7. CASE HaltStep(d)
  <2>1. /\ pc[d] = "haltStep" /\ WriteStep(d, i, "Cancelled", "haltTask")
        /\ UNCHANGED <<taskStatus, currentStep, resumeCount, loc>>
    BY <1>7 DEF HaltStep
  <2>2. /\ stepStatus' = [stepStatus EXCEPT ![i] = "Cancelled"] /\ pc'[d] = "haltTask" /\ taskStatus = "Running"
        /\ currentStep = i /\ i \in Steps /\ Contract!Next
    BY <1>s, <2>1 DEF InStepPCs
  <2>3. stepStatus'[i] = "Cancelled" BY <1>0, <2>2 DEF RowsOK
  <2>4. DriverPlace(d)'
    BY <2>1, <2>2, <2>3 DEF RunningPCs, LoopPCs, DonePCs, InStepPCs, StartPCs
  <2> QED BY <1>w, <2>1, <2>2, <2>4 DEF DriverKeeps, RowStep, RunningPCs
<1>8. CASE HaltTask(d)
  <2>1. pc[d] = "haltTask" /\ taskStatus = "Running" /\ currentStep = i /\ stepStatus[i] = "Cancelled" /\ i \in Steps
    BY <1>0, <1>8 DEF HaltTask, RunningPCs, StepPCs
  <2>2. taskStatus' = "Cancelled" /\ pc'[d] = "finalize" /\ UNCHANGED <<currentStep, stepStatus, resumeCount>>
    BY <1>8, <1>p, <2>1, TaskEdgesAre DEF HaltTask, WriteTask
  <2>3. \A j \in Steps : stepStatus[j] \notin Active
    BY <1>0, <2>1, SameNames DEF Rows, Contract!ActiveIsCurrent, Active
  <2>4. Contract!EndTask("Cancelled") BY <2>1, <2>2, <2>3, SameNames, TaskEdgesAre DEF Contract!EndTask
  <2>5. DriverPlace(d)' BY <2>2 DEF RunningPCs, LoopPCs, DonePCs, InStepPCs, StartPCs
  <2> QED BY <1>w, <2>2, <2>4, <2>5 DEF DriverKeeps, RowStep, Contract!Next
<1>9. CASE Finalize(d) \/ FinalWrite(d) \/ FinalizeFails(d)
  <2>1. pc[d] \in {"finalize", "finalWrite"} /\ UNCHANGED <<taskVars, resumeCount>>
    BY <1>9 DEF Finalize, FinalWrite, FinalizeFails
  <2>2. pc'[d] \in {"release", "finalWrite"} BY <1>9, <1>p DEF Finalize, FinalWrite, FinalizeFails
  <2>3. DriverPlace(d)' BY <2>2 DEF RunningPCs, LoopPCs, DonePCs, InStepPCs, StartPCs
  <2>4. pc[d] \notin RunningPCs BY <2>1 DEF RunningPCs, LoopPCs, DonePCs, InStepPCs, StartPCs
  <2> QED BY <1>w, <2>1, <2>3, <2>4 DEF DriverKeeps, RowStep
<1> QED BY <1>1, <1>2, <1>3, <1>4, <1>5, <1>6, <1>7, <1>8, <1>9

\* Whatever a driver does, it is a step of the rows and knows where it is after it.
LEMMA DriverMoveKeeps ==
    ASSUME TypeOK, StepPlaced, Placed, NEW d \in Drivers, DriverMove(d)
    PROVE  DriverKeeps(d)
BY QuietKeeps, LoopKeeps, WritesKeep DEF DriverMove, Work

\* A driver's move is its own: no other driver's control point or locals move.
LEMMA DriverFrame ==
    ASSUME TypeOK, NEW d \in Drivers, DriverMove(d), NEW o \in Drivers, o # d
    PROVE  pc'[o] = pc[o] /\ loc'[o] = loc[o]
<1>1. pc'[o] = pc[o] BY DriverMoves DEF TypeOK, PCsOK
<1>2. loc'[o] = loc[o]
  <2>0. loc \in [Drivers -> Locals] BY DEF TypeOK, LocalsOK
  <2>1. CASE Work(d)
    BY <2>0, <2>1 DEF Work, Load, Start, BeginRetry, Drive, SetCurrent, StepRunning, CancelTask, ClearCurrent, Complete,
       EnsureRun, EnsureRunFails, CacheRun, LinkRun, WritePhase, Spawn, CancelArm, CancelShadow, RecordLinks,
       FinishStep, RouteHalt, DecideResume, PersistResume, PersistPark, ParkStep, ParkTask, HaltStep, HaltTask,
       Finalize, FinalWrite
  <2>2. CASE AgentEnds(d) \/ ShadowUpdateFails(d) \/ FinalizeFails(d)
    BY <2>0, <2>2 DEF AgentEnds, ShadowUpdateFails, FinalizeFails
  <2> QED BY <2>1, <2>2 DEF DriverMove
<1> QED BY <1>1, <1>2

\* A driver that does not hold the registry entry is at rest.
LEMMA AtRest ==
    ASSUME TypeOK, NEW d \in Drivers, pc[d] \notin Holding
    PROVE  DriverPlace(d) <=> loc[d].step = 1
<1>1. pc[d] \in {"spawned", "idle"} BY DEF TypeOK, PCsOK, DriverPCs
<1> QED BY <1>1 DEF DriverPlace, RunningPCs, LoopPCs, DonePCs, InStepPCs, StartPCs

\* What is true of every driver stays true when another actor writes the
\* rows: it holds the entry, so no driver does.
LEMMA DriversUndisturbed ==
    ASSUME TypeOK, TypeOK', Exclusive, Placed, UNCHANGED <<pc, loc, resumeCount, resumeKey>>,
           UNCHANGED taskVars \/ slot \notin Drivers
    PROVE  WithinBudget' /\ \A d \in Drivers : DriverPlace(d)'
<1>1. WithinBudget' BY DEF Placed, WithinBudget
<1>2. CASE UNCHANGED taskVars
  <2> SUFFICES ASSUME NEW d \in Drivers PROVE DriverPlace(d)'
    BY <1>1
  <2> QED
    BY <1>2 DEF Placed, DriverPlace, taskVars, Untouched, RetryAllowed, Disposition, Contract!Turn, Contract!Settled
<1>3. CASE slot \notin Drivers
  <2> SUFFICES ASSUME NEW d \in Drivers PROVE DriverPlace(d)'
    BY <1>1
  <2>1. pc[d] \notin Holding BY <1>3 DEF Exclusive
  <2>2. loc[d].step = 1 BY <2>1, AtRest DEF Placed
  <2>3. pc'[d] \in {"spawned", "idle"} /\ loc'[d].step = 1 BY <2>1, <2>2 DEF TypeOK, PCsOK, DriverPCs
  <2> QED BY <2>3 DEF DriverPlace, RunningPCs, LoopPCs, DonePCs, InStepPCs, StartPCs
<1> QED BY <1>2, <1>3

\* What a cancel request does to the rows, and where it leaves the request.
CancelKeeps(c) ==
    /\ RowStep /\ CancelPlace(c)' /\ UNCHANGED <<pc, loc, spc, sloc, crashes, resumeCount, resumeKey>>
    /\ UNCHANGED taskVars \/ cpc[c] = "steps"
    /\ \A o \in Cancellers : o # c => cpc'[o] = cpc[o] /\ cloc'[o] = cloc[o]
    /\ faults' >= faults
    /\ taskStatus' = "Running" => taskStatus = "Running"
    /\ taskStatus' = "NeedsHuman" /\ faults' = faults /\ cpc'[c] # "steps" => UNCHANGED taskVars /\ cpc[c] # "steps"

\* A cancel request moves its own control point and locals, and no driver's
\* and not the sweep's.
LEMMA CancelFrame ==
    ASSUME TypeOK, NEW c \in Cancellers, CancelRequest(c) \/ CancelStep(c) \/ CancelFault(c)
    PROVE  /\ UNCHANGED <<pc, loc, spc, sloc, crashes, currentStep, resumeCount, resumeKey>>
           /\ faults' >= faults
           /\ \A o \in Cancellers : o # c => cpc'[o] = cpc[o] /\ cloc'[o] = cloc[o]
<1> USE DEF dbVars, taskVars, stepExtra, dVars, sVars, bounds, cOthers
<1>0. cloc \in [Cancellers -> CancelLocals] /\ cpc \in [Cancellers -> CancelPCs] /\ faults \in Nat
  BY DEF TypeOK, LocalsOK, PCsOK, BoundsOK
<1>1. \A o \in Cancellers : o # c => cpc'[o] = cpc[o] BY <1>0, CancelMoves DEF TypeOK
<1>2. CASE CancelRequest(c) BY <1>0, <1>1, <1>2 DEF CancelRequest, RequestCancel, RequestCancelRun
<1>3. CASE CancelFault(c) BY <1>0, <1>1, <1>3 DEF CancelFault, CancelOneStepFails, CancelAbort
<1>4. CASE CancelStep(c)
  <2>1. CASE CancelOneStep(c) BY <1>0, <1>1, <2>1 DEF CancelOneStep
  <2>2. CASE CancelSignal(c) \/ CancelRelease(c) BY <1>0, <1>1, <2>2 DEF CancelSignal, CancelRelease, Leave
  <2>3. CASE CancelFinalize(c) \/ CancelLoad(c) BY <1>0, <1>1, <2>3 DEF CancelFinalize, CancelLoad
  <2>4. CASE CancelRunFindStep(c) \/ CancelReserve(c) \/ CancelTaskRow(c) \/ CancelFinalWrite(c)
    BY <1>0, <1>1, <2>4 DEF CancelRunFindStep, CancelReserve, CancelTaskRow, CancelFinalWrite
  <2>5. CASE CancelRunRefresh(c) \/ CancelRunWrite(c) BY <1>0, <1>1, <2>5 DEF CancelRunRefresh, CancelRunWrite
  <2> QED BY <1>4, <2>1, <2>2, <2>3, <2>4, <2>5 DEF CancelStep
<1> QED BY <1>2, <1>3, <1>4

\* Whatever a cancel request does, it is a step of the rows and keeps its place.
LEMMA CancelActionKeeps ==
    ASSUME TypeOK, Placed, NEW c \in Cancellers, CancelRequest(c) \/ CancelStep(c) \/ CancelFault(c)
    PROVE  CancelKeeps(c)
<1> USE DEF CGoto, dbVars, taskVars, stepExtra, dVars, sVars, bounds, cOthers, Reserving
<1>0. /\ cloc \in [Cancellers -> CancelLocals] /\ cpc \in [Cancellers -> CancelPCs] /\ faults \in Nat
      /\ DOMAIN cloc[c] = DOMAIN NoCancel /\ CancelPlace(c) /\ RowsOK /\ Rows
  BY DEF TypeOK, LocalsOK, PCsOK, BoundsOK, CancelLocals, NoCancel, Placed
<1>f. /\ UNCHANGED <<pc, loc, spc, sloc, crashes, currentStep, resumeCount, resumeKey>> /\ faults' >= faults
      /\ \A o \in Cancellers : o # c => cpc'[o] = cpc[o] /\ cloc'[o] = cloc[o]
  BY CancelFrame
<1>p. \A p : cpc' = [cpc EXCEPT ![c] = p] => cpc'[c] = p BY <1>0
\* Everything that leaves the rows and the list of steps alone.
<1>q. ASSUME UNCHANGED taskVars, cpc[c] # "steps", cpc'[c] # "steps",
             cpc'[c] \in {"finalize", "finalWrite", "release"} => taskStatus \in TaskTerminal
      PROVE  CancelKeeps(c)
  <2>1. CancelPlace(c)' BY <1>q DEF CancelPlace
  <2> QED BY <1>f, <1>q, <2>1 DEF CancelKeeps, RowStep
<1>1. CASE RequestCancel(c) \/ RequestCancelRun(c)
  <2>1. cpc[c] = "idle" /\ cpc'[c] \in {"exec", "find"} /\ UNCHANGED taskVars
    BY <1>1, <1>p DEF RequestCancel, RequestCancelRun
  <2> QED BY <1>q, <2>1
<1>3. CASE CancelRunFindStep(c) \/ CancelReserve(c)
  <2>1. cpc[c] \in {"find", "exec"} /\ UNCHANGED taskVars BY <1>3 DEF CancelRunFindStep, CancelReserve
  <2>2. cpc'[c] \in {"exec", "runWrite", "load"} BY <1>3, <1>p DEF CancelRunFindStep, CancelReserve
  <2> QED BY <1>q, <2>1, <2>2
<1>4. CASE CancelSignal(c) \/ CancelRelease(c)
  <2>1. cpc[c] \in {"exec", "release"} /\ UNCHANGED taskVars BY <1>4 DEF CancelSignal, CancelRelease
  <2>2. cpc'[c] \in {"idle", "refresh"} BY <1>4, <1>p DEF CancelSignal, CancelRelease, Leave, AfterCancel
  <2> QED BY <1>q, <2>1, <2>2
<1>5. CASE CancelLoad(c)
  <2>0. cpc[c] = "load" /\ UNCHANGED <<taskVars, faults>> BY <1>5 DEF CancelLoad
  <2>1. CASE taskStatus \in TaskTerminal
    <3>1. cpc'[c] = "release" BY <1>5, <1>p, <2>1 DEF CancelLoad
    <3> QED BY <1>q, <2>0, <2>1, <3>1
  <2>2. CASE taskStatus \notin TaskTerminal
    <3>1. /\ cloc' = [cloc EXCEPT ![c].todo = {i \in Steps : stepStatus[i] \in Active}]
          /\ cpc'[c] = "steps"
      BY <1>5, <1>p, <2>2 DEF CancelLoad
    <3>2. cloc'[c].todo = {i \in Steps : stepStatus[i] \in Active} BY <1>0, <3>1 DEF NoCancel
    <3>3. CancelPlace(c)' BY <2>0, <2>2, <3>1, <3>2 DEF CancelPlace
    <3> QED BY <1>0, <1>f, <2>0, <3>1, <3>3 DEF CancelKeeps, RowStep
  <2> QED BY <2>1, <2>2
<1>6. CASE CancelOneStep(c)
  <2>1. cpc[c] = "steps" /\ cpc' = cpc BY <1>6 DEF CancelOneStep
  <2>2. PICK i \in cloc[c].todo :
           /\ stepStatus' = IF <<stepStatus[i], "Cancelled">> \in StepEdges
                            THEN [stepStatus EXCEPT ![i] = "Cancelled"] ELSE stepStatus
           /\ cloc' = [cloc EXCEPT ![c].todo = @ \ {i}]
    BY <1>6 DEF CancelOneStep
  <2>3. i \in Steps /\ stepStatus[i] \in Active /\ taskStatus \notin TaskTerminal
    BY <1>0, <2>1 DEF CancelPlace, CancelLocals
  <2>4. stepStatus' = [stepStatus EXCEPT ![i] = "Cancelled"] BY <2>2, <2>3, StepEdgesAre DEF Active
  <2>5. currentStep = i BY <1>0, <2>3, SameNames DEF Rows, Contract!ActiveIsCurrent
  <2>6. UNCHANGED <<taskStatus, currentStep, resumeCount, resumeKey, pc, loc, spc, sloc, crashes, faults>>
    BY <1>6 DEF CancelOneStep
  <2>7. Contract!SettleStep(i, "Cancelled")
    BY <2>3, <2>4, <2>5, <2>6, SameNames, StepEdgesAre DEF Contract!SettleStep, Active
  <2>8. cloc'[c].todo = cloc[c].todo \ {i} /\ \A o \in Cancellers : o # c => cloc'[o] = cloc[o]
    BY <1>0, <2>2 DEF NoCancel
  <2>9. stepStatus'[i] = "Cancelled" /\ \A j \in Steps : j # i => stepStatus'[j] = stepStatus[j]
    BY <1>0, <2>3, <2>4 DEF RowsOK
  <2>10. CancelPlace(c)'
    <3>1. \A j \in cloc[c].todo : j \in Steps /\ stepStatus[j] \in Active BY <1>0, <2>1 DEF CancelPlace, CancelLocals
    <3> QED BY <1>0, <2>1, <2>6, <2>8, <2>9, <3>1 DEF CancelPlace, Active
  <2> QED BY <2>1, <2>3, <2>6, <2>7, <2>8, <2>10, SameNames, <1>0 DEF CancelKeeps, RowStep, Contract!Next
<1>7. CASE CancelTaskRow(c)
  <2>1. cpc[c] = "steps" /\ cloc[c].todo = {} /\ taskStatus \notin TaskTerminal BY <1>0, <1>7 DEF CancelTaskRow, CancelPlace
  <2>2. /\ taskStatus' = "Cancelled" /\ <<taskStatus, "Cancelled">> \in TaskEdges
        /\ cpc' = [cpc EXCEPT ![c] = "finalize"]
    BY <1>0, <1>7, <2>1, TaskEdgesAre DEF CancelTaskRow, RowsOK, TaskStatuses, TaskTerminal
  <2>3. UNCHANGED <<currentStep, stepStatus, cloc, resumeCount, resumeKey, pc, loc, spc, sloc, crashes, faults>>
    BY <1>7 DEF CancelTaskRow
  <2>4. RowStep
    <3>1. CASE NoStepWrite
      <4>1. \A i \in Steps : stepStatus[i] \notin Active BY <1>0, <2>1, <3>1 DEF CancelPlace
      <4>2. Contract!EndTask("Cancelled") BY <2>2, <2>3, <4>1, SameNames DEF Contract!EndTask
      <4> QED BY <4>2 DEF RowStep, Contract!Next
    <3>2. CASE ~NoStepWrite BY <2>2, <2>3, <3>2 DEF RowStep, LooseEnd
    <3> QED BY <3>1, <3>2
  <2>5. cpc'[c] = "finalize" /\ \A o \in Cancellers : o # c => cpc'[o] = cpc[o] BY <1>0, <2>2
  <2>6. CancelPlace(c)' BY <2>2, <2>5 DEF CancelPlace, TaskTerminal
  <2> QED BY <1>0, <2>1, <2>2, <2>3, <2>4, <2>5, <2>6 DEF CancelKeeps
<1>8. CASE CancelFinalize(c) \/ CancelFinalWrite(c)
  <2>1. cpc[c] \in {"finalize", "finalWrite"} /\ UNCHANGED taskVars BY <1>8 DEF CancelFinalize, CancelFinalWrite
  <2>2. cpc'[c] \in {"finalWrite", "release"} BY <1>8, <1>p DEF CancelFinalize, CancelFinalWrite
  <2> QED BY <1>0, <1>q, <2>1, <2>2 DEF CancelPlace
<1>10. CASE CancelRunRefresh(c) \/ CancelRunWrite(c)
  <2>1. cpc[c] \in {"refresh", "runWrite"} /\ UNCHANGED taskVars BY <1>10 DEF CancelRunRefresh, CancelRunWrite
  <2>2. cpc'[c] \in {"runWrite", "idle"} BY <1>10, <1>p DEF CancelRunRefresh, CancelRunWrite
  <2> QED BY <1>q, <2>1, <2>2
<1>11. CASE CancelOneStepFails(c)
  <2>1. /\ cpc[c] = "steps" /\ ~NoStepWrite /\ faults' = faults + 1
        /\ UNCHANGED <<dbVars, pc, loc, cpc, spc, sloc, crashes>>
    BY <1>11 DEF CancelOneStepFails, NoStepWrite
  <2>2. PICK i \in cloc[c].todo : cloc' = [cloc EXCEPT ![c].todo = @ \ {i}] BY <1>11 DEF CancelOneStepFails
  <2>3. cloc'[c].todo = cloc[c].todo \ {i} /\ \A o \in Cancellers : o # c => cloc'[o] = cloc[o]
    BY <1>0, <2>2 DEF NoCancel
  <2>4. CancelPlace(c)' BY <1>0, <2>1, <2>3 DEF CancelPlace
  <2> QED BY <1>0, <2>1, <2>3, <2>4 DEF CancelKeeps, RowStep
<1>12. CASE CancelAbort(c)
  <2>1. /\ UNCHANGED <<dbVars, pc, loc, spc, sloc, crashes>> /\ faults' = faults + 1
        /\ cpc' = [cpc EXCEPT ![c] = "idle"] /\ cloc' = [cloc EXCEPT ![c] = NoCancel]
    BY <1>12 DEF CancelAbort
  <2>2. cpc'[c] = "idle" /\ \A o \in Cancellers : o # c => cpc'[o] = cpc[o] /\ cloc'[o] = cloc[o]
    BY <1>0, <2>1
  <2>3. CancelPlace(c)' BY <2>2 DEF CancelPlace
  <2> QED BY <1>0, <2>1, <2>2, <2>3 DEF CancelKeeps, RowStep
<1> QED
  BY <1>1, <1>3, <1>4, <1>5, <1>6, <1>7, <1>8, <1>10, <1>11, <1>12
  DEF CancelRequest, CancelStep, CancelFault

\* What the sweep does to the rows, and where it is left.
SweepKeeps ==
    /\ RowStep /\ SweepPlace' /\ UNCHANGED <<pc, loc, cpc, cloc, crashes, resumeCount, resumeKey>>
    /\ faults' >= faults
    /\ UNCHANGED taskVars \/ spc \in Gated
    /\ taskStatus' = "Running" => taskStatus = "Running"
    /\ taskStatus' = "NeedsHuman" => UNCHANGED taskVars

\* Whatever the sweep does, it is a step of the rows and keeps its place.
LEMMA SweepActionKeeps ==
    ASSUME TypeOK, Placed, SweepStep \/ SweepFailStepFails \/ SweepAbort \/ \E r \in RunIds : SweepPick(r)
    PROVE  SweepKeeps
<1> USE DEF dbVars, taskVars, stepExtra, dVars, cVars, bounds, sOthers
<1>0. /\ DOMAIN sloc = DOMAIN NoSweep /\ SweepPlace /\ RowsOK /\ Rows /\ faults \in Nat /\ sloc \in SweepLocals
  BY DEF TypeOK, LocalsOK, SweepLocals, NoSweep, Placed, BoundsOK
\* Everything that leaves the rows alone and does not reach the failing of an orphan.
<1>q. ASSUME UNCHANGED <<taskVars, resumeCount, resumeKey, pc, loc, cpc, cloc, crashes>>, faults' >= faults,
             spc' \notin {"failStep", "failTask"}
      PROVE  SweepKeeps
  BY <1>q DEF SweepKeeps, RowStep, SweepPlace
<1>1. CASE \E r \in RunIds : SweepPick(r) BY <1>0, <1>1, <1>q DEF SweepPick
<1>2. CASE SweepClassify BY <1>0, <1>2, <1>q DEF SweepClassify, SweepTo
<1>3. CASE SweepGate BY <1>0, <1>3, <1>q DEF SweepGate
<1>4. CASE SweepReload
  <2>0. UNCHANGED <<taskVars, resumeCount, resumeKey, pc, loc, cpc, cloc, crashes, faults>> /\ spc = "reload"
    BY <1>4 DEF SweepReload
  <2>1. CASE taskStatus \in {"Pending", "Running"}
    <3>1. spc' = "failStep" /\ sloc' = [sloc EXCEPT !.step = currentStep]
      BY <1>4, <2>1 DEF SweepReload, TaskTerminal
    <3>2. sloc'.step = currentStep BY <1>0, <3>1 DEF NoSweep
    <3>3. SweepPlace' BY <2>0, <2>1, <3>1, <3>2 DEF SweepPlace
    <3> QED BY <1>0, <2>0, <3>3 DEF SweepKeeps, RowStep
  <2>2. CASE taskStatus \notin {"Pending", "Running"}
    <3>1. spc' \in {"finalize", "done"} BY <1>4, <2>2 DEF SweepReload, SweepTo
    <3> QED BY <1>0, <1>q, <2>0, <3>1
  <2> QED BY <2>1, <2>2
<1>5. CASE SweepFailStep
  <2>1. /\ spc = "failStep" /\ spc' = "failTask" /\ taskStatus \in {"Pending", "Running"} /\ sloc.step = currentStep
        /\ UNCHANGED <<taskStatus, currentStep, sloc, resumeCount, resumeKey, pc, loc, cpc, cloc, crashes, faults>>
    BY <1>0, <1>5 DEF SweepFailStep, SweepPlace
  <2>2. CASE currentStep # None /\ <<stepStatus[currentStep], "Failed">> \in StepEdges
    <3>1. stepStatus' = [stepStatus EXCEPT ![currentStep] = "Failed"] BY <1>5, <2>1, <2>2 DEF SweepFailStep
    <3>2. currentStep \in Steps BY <1>0, <2>2 DEF RowsOK
    <3>3. Contract!SettleStep(currentStep, "Failed")
      BY <2>1, <2>2, <3>1, SameNames DEF Contract!SettleStep, TaskTerminal
    <3>4. \A i \in Steps : stepStatus'[i] \notin Active
      BY <1>0, <3>1, <3>2, SameNames DEF RowsOK, Rows, Contract!ActiveIsCurrent, Active
    <3>5. SweepPlace' BY <2>1, <3>4 DEF SweepPlace
    <3>6. RowStep BY <3>2, <3>3, SameNames DEF RowStep, Contract!Next
    <3> QED BY <1>0, <2>1, <3>5, <3>6 DEF SweepKeeps, Gated
  <2>3. CASE ~(currentStep # None /\ <<stepStatus[currentStep], "Failed">> \in StepEdges)
    <3>1. stepStatus' = stepStatus BY <1>5, <2>1, <2>3 DEF SweepFailStep
    <3>2. \A i \in Steps : stepStatus[i] \notin Active
      BY <1>0, <2>3, SameNames, StepsAreNat, StepEdgesAre DEF Rows, Contract!ActiveIsCurrent, Active
    <3>3. SweepPlace' BY <2>1, <3>1, <3>2 DEF SweepPlace
    <3> QED BY <1>0, <2>1, <3>1, <3>3 DEF SweepKeeps, RowStep
  <2> QED BY <2>2, <2>3
<1>6. CASE SweepFailTask
  <2>1. /\ spc = "failTask" /\ taskStatus \in {"Pending", "Running"}
        /\ NoStepWrite => \A i \in Steps : stepStatus[i] \notin Active
        /\ UNCHANGED <<currentStep, stepStatus, resumeCount, resumeKey, pc, loc, cpc, cloc, crashes, faults>>
    BY <1>0, <1>6 DEF SweepFailTask, SweepPlace
  <2>2. /\ taskStatus' = "Failed" /\ <<taskStatus, "Failed">> \in TaskEdges /\ spc' = "finalize"
    BY <1>6, <2>1, TaskEdgesAre DEF SweepFailTask, SweepTo
  <2>3. RowStep
    <3>1. CASE NoStepWrite
      <4>1. Contract!EndTask("Failed") BY <2>1, <2>2, <3>1, SameNames DEF Contract!EndTask
      <4> QED BY <4>1 DEF RowStep, Contract!Next
    <3>2. CASE ~NoStepWrite BY <2>1, <2>2, <3>2 DEF RowStep, LooseEnd
    <3> QED BY <3>1, <3>2
  <2>4. SweepPlace' BY <2>2 DEF SweepPlace
  <2> QED BY <1>0, <2>1, <2>2, <2>3, <2>4 DEF SweepKeeps, Gated
<1>7. CASE SweepFinalize \/ SweepFinalWrite \/ SweepDone \/ SweepAbort
  BY <1>0, <1>7, <1>q DEF SweepFinalize, SweepFinalWrite, SweepDone, SweepAbort
<1>8. CASE SweepFailStepFails
  <2>1. /\ spc = "failStep" /\ spc' = "failTask" /\ ~NoStepWrite /\ faults' = faults + 1
        /\ UNCHANGED <<taskVars, resumeCount, resumeKey, pc, loc, cpc, cloc, crashes>>
    BY <1>8 DEF SweepFailStepFails, NoStepWrite
  <2>2. SweepPlace' BY <1>0, <2>1 DEF SweepPlace
  <2> QED BY <1>0, <2>1, <2>2 DEF SweepKeeps, RowStep
<1> QED BY <1>1, <1>2, <1>3, <1>4, <1>5, <1>6, <1>7, <1>8 DEF SweepStep

-----------------------------------------------------------------------------
(* The inductive invariant                                                 *)

Ledger == TypeOK /\ StepPlaced /\ Exclusive /\ Placed

\* A task as POST /launch-tasks creates it.
LEMMA LedgerInit == Init => Ledger /\ Executed /\ Parked
<1> SUFFICES ASSUME Init PROVE Ledger /\ Executed /\ Parked
  OBVIOUS
<1>1. TypeOK /\ StepPlaced /\ Exclusive BY TypeInit, ExclusiveInit
<1>2. Rows
  BY SameNames DEF Init, Rows, Contract!RecipeOrder, Contract!ActiveIsCurrent, Contract!TerminalTaskSettled, Active,
     TaskTerminal
<1>3. WithinBudget BY BudgetAssumption DEF Init, WithinBudget
<1>4. SweepPlace BY DEF Init, SweepPlace
<1>5. \A d \in Drivers : DriverPlace(d)
  <2> SUFFICES ASSUME NEW d \in Drivers PROVE DriverPlace(d)
    OBVIOUS
  <2>1. pc[d] \in {"spawned", "idle"} /\ loc[d].step = 1 BY DEF Init, NoLocals
  <2> QED BY <2>1 DEF DriverPlace, RunningPCs, LoopPCs, DonePCs, InStepPCs, StartPCs
<1>6. \A c \in Cancellers : CancelPlace(c) BY DEF Init, CancelPlace
<1> QED BY <1>1, <1>2, <1>3, <1>4, <1>5, <1>6 DEF Ledger, Placed, Init, Executed, Parked

\* Every step is a step of the rows, and every actor stays in its place.
LEMMA LedgerStep == Ledger /\ [Next]_vars => Ledger' /\ RowStep
<1> SUFFICES ASSUME Ledger, [Next]_vars PROVE Placed' /\ RowStep
  BY TypeStep, ExclusiveStep DEF Ledger, TypeOK
<1>0. TypeOK /\ StepPlaced /\ Exclusive /\ Placed /\ TypeOK' /\ RowsOK BY TypeStep DEF Ledger, TypeOK
<1>r. RowStep => Rows' BY <1>0, RowsKept DEF Placed
<1>1. CASE \E d \in Drivers : DriverMove(d)
  <2>1. PICK d \in Drivers : DriverMove(d) BY <1>1
  <2>2. DriverKeeps(d) BY <1>0, <2>1, DriverMoveKeeps
  <2>3. pc[d] \in Holding /\ UNCHANGED <<slot, cancelled, cpc, cloc, spc, sloc>> BY <1>0, <2>1, DriverMoves DEF TypeOK
  <2>4. slot = d BY <1>0, <2>3 DEF Exclusive
  <2>5. \A o \in Drivers : o # d => DriverPlace(o)'
    <3> SUFFICES ASSUME NEW o \in Drivers, o # d PROVE DriverPlace(o)'
      OBVIOUS
    <3>1. pc[o] \notin Holding BY <1>0, <2>4 DEF Exclusive
    <3>2. loc[o].step = 1 BY <1>0, <3>1, AtRest DEF Placed
    <3>3. pc'[o] \in {"spawned", "idle"} /\ loc'[o].step = 1
      BY <1>0, <2>1, <3>1, <3>2, DriverFrame DEF TypeOK, PCsOK, DriverPCs
    <3> QED BY <3>3 DEF DriverPlace, RunningPCs, LoopPCs, DonePCs, InStepPCs, StartPCs
  <2>6. \A c \in Cancellers : CancelPlace(c)'
    BY <1>0, <2>3, <2>4, ActorsAssumption DEF Exclusive, CancelPlace, Reserving
  <2>7. SweepPlace' BY <1>0, <2>3, <2>4, ActorsAssumption DEF Exclusive, SweepPlace
  <2> QED BY <1>r, <2>2, <2>5, <2>6, <2>7 DEF Placed, DriverKeeps
<1>2. CASE \E d \in Drivers : Register(d) \/ RegisterRejected(d) \/ Release(d) \/ Abort(d)
  <2>1. PICK d \in Drivers : Register(d) \/ RegisterRejected(d) \/ Release(d) \/ Abort(d) BY <1>2
  <2> USE DEF dbVars, taskVars, stepExtra, others, cVars, sVars
  <2>2. UNCHANGED <<taskVars, resumeCount, resumeKey, cpc, cloc, spc, sloc>>
    BY <2>1 DEF Register, RegisterRejected, Release, Abort
  <2>3. \A o \in Drivers : o # d => pc'[o] = pc[o] /\ loc'[o] = loc[o]
    BY <1>0, <2>1 DEF Register, RegisterRejected, Release, Abort, Unregister, Goto, TypeOK, PCsOK, LocalsOK
  <2>4. pc'[d] \in {"load", "idle"} /\ loc'[d].step = 1
    <3>0. loc \in [Drivers -> Locals] /\ pc \in [Drivers -> DriverPCs] BY <1>0 DEF TypeOK, PCsOK, LocalsOK
    <3>1. CASE Register(d) \/ RegisterRejected(d)
      <4>1. pc[d] \in {"spawned", "idle"} /\ loc' = loc /\ pc'[d] \in {"load", "idle"}
        BY <3>0, <3>1 DEF Register, RegisterRejected, Goto, At
      <4> QED BY <1>0, <4>1 DEF Placed, DriverPlace
    <3>2. CASE Release(d) \/ Abort(d)
      BY <3>0, <3>2 DEF Release, Abort, Unregister, NoLocals
    <3> QED BY <2>1, <3>1, <3>2
  <2>5. DriverPlace(d)' BY <2>4 DEF DriverPlace, RunningPCs, LoopPCs, DonePCs, InStepPCs, StartPCs
  <2>6. \A o \in Drivers : o # d => DriverPlace(o)'
    BY <1>0, <2>2, <2>3 DEF Placed, DriverPlace, Untouched, RetryAllowed, Disposition, Contract!Turn, Contract!Settled
  <2>7. RowStep BY <2>2 DEF RowStep
  <2>8. WithinBudget' /\ SweepPlace' /\ \A c \in Cancellers : CancelPlace(c)'
    BY <1>0, <2>2 DEF Placed, WithinBudget, SweepPlace, CancelPlace
  <2> QED BY <1>r, <2>5, <2>6, <2>7, <2>8 DEF Placed
<1>3. CASE \E c \in Cancellers : CancelRequest(c) \/ CancelStep(c) \/ CancelFault(c)
  <2>1. PICK c \in Cancellers : CancelRequest(c) \/ CancelStep(c) \/ CancelFault(c) BY <1>3
  <2>2. CancelKeeps(c) BY <1>0, <2>1, CancelActionKeeps
  <2>3. cpc[c] = "steps" => slot = c BY <1>0 DEF Exclusive, Reserving
  <2>4. UNCHANGED taskVars \/ slot \notin Drivers BY <2>2, <2>3, ActorsAssumption DEF CancelKeeps
  <2>5. WithinBudget' /\ \A d \in Drivers : DriverPlace(d)' BY <1>0, <2>2, <2>4, DriversUndisturbed DEF CancelKeeps
  <2>6. \A o \in Cancellers : o # c => CancelPlace(o)'
    BY <1>0, <2>2, <2>3 DEF CancelKeeps, CancelPlace, Placed, taskVars, Exclusive, Reserving
  <2>7. SweepPlace' BY <1>0, <2>2, <2>3, ActorsAssumption DEF CancelKeeps, SweepPlace, Placed, taskVars, Exclusive
  <2> QED BY <1>r, <2>2, <2>5, <2>6, <2>7 DEF Placed, CancelKeeps
<1>4. CASE SweepStep \/ SweepFailStepFails \/ SweepAbort \/ \E r \in RunIds : SweepPick(r)
  <2>1. SweepKeeps BY <1>0, <1>4, SweepActionKeeps
  <2>2. spc \in Gated => slot = Sweeper BY <1>0 DEF Exclusive, Gated
  <2>3. UNCHANGED taskVars \/ slot \notin Drivers BY <2>1, <2>2, ActorsAssumption DEF SweepKeeps
  <2>4. WithinBudget' /\ \A d \in Drivers : DriverPlace(d)' BY <1>0, <2>1, <2>3, DriversUndisturbed DEF SweepKeeps
  <2>5. \A c \in Cancellers : CancelPlace(c)'
    BY <1>0, <2>1, <2>2, ActorsAssumption DEF SweepKeeps, CancelPlace, Placed, taskVars, Exclusive, Reserving
  <2> QED BY <1>r, <2>1, <2>4, <2>5 DEF Placed, SweepKeeps
<1>5. CASE Crash
  <2>1. UNCHANGED <<taskVars, resumeCount, resumeKey>> BY <1>5 DEF Crash, dbVars, stepExtra
  <2>2. spc' = "idle" /\ \A c \in Cancellers : cpc'[c] = "idle" BY <1>5 DEF Crash
  <2>3. \A d \in Drivers : pc'[d] = "idle" /\ loc'[d].step = 1 BY <1>5 DEF Crash, NoLocals
  <2>4. \A d \in Drivers : DriverPlace(d)'
    BY <2>3 DEF DriverPlace, RunningPCs, LoopPCs, DonePCs, InStepPCs, StartPCs
  <2>5. SweepPlace' /\ WithinBudget' /\ \A c \in Cancellers : CancelPlace(c)'
    BY <1>0, <2>1, <2>2 DEF SweepPlace, WithinBudget, CancelPlace, Placed
  <2> QED BY <1>r, <2>1, <2>4, <2>5 DEF Placed, RowStep
<1>6. CASE UNCHANGED vars
  <2>1. UNCHANGED <<taskVars, resumeCount, resumeKey, pc, loc, cpc, cloc, spc, sloc>>
    BY <1>6 DEF vars, dbVars, stepExtra, dVars, cVars, sVars
  <2>2. WithinBudget' /\ \A d \in Drivers : DriverPlace(d)' BY <1>0, <2>1, DriversUndisturbed
  <2>3. SweepPlace' /\ \A c \in Cancellers : CancelPlace(c)'
    BY <1>0, <2>1 DEF SweepPlace, CancelPlace, Placed, taskVars
  <2> QED BY <1>r, <2>1, <2>2, <2>3 DEF Placed, RowStep
<1> QED
  BY <1>1, <1>2, <1>3, <1>4, <1>5, <1>6 DEF Next, DriverStep, DriverFault, DriverMove

\* The inductive invariant: types, exclusion, the rows and the places of the
\* actors, under every interleaving, crash and failure.
THEOREM LedgerHolds == Spec => []Ledger
<1>1. Ledger /\ [Next]_vars => Ledger' BY LedgerStep
<1> QED BY LedgerInit, <1>1, PTL DEF Spec

\* ResumeAccounted: the resumes an agent's step has used are on its row before
\* the agent runs and never pass the budget, and a resumed session has its key.
THEOREM ResumeAccountedHolds == Spec => []ResumeAccounted
<1>1. Ledger => ResumeAccounted
  BY DEF Ledger, Placed, WithinBudget, ResumeAccounted, DriverPlace, InStepPCs, StartPCs
<1> QED BY <1>1, LedgerHolds, PTL

\* AgentMatchesRows: while an agent runs, task, current step and step say so.
THEOREM AgentMatchesRowsHolds == Spec => []AgentMatchesRows
<1>1. Ledger => AgentMatchesRows
  BY DEF Ledger, Placed, AgentMatchesRows, DriverPlace, InStepPCs, StartPCs, RunningPCs
<1> QED BY <1>1, LedgerHolds, PTL

\* No crash and no failure after the step: none before it.
LEMMA NoneBefore ==
    ASSUME NEW a \in Nat, NEW b \in Nat, NEW c \in Nat, c >= b
    PROVE  a + c = 0 => a + b = 0
OBVIOUS

\* A driver's move crashes nothing, and counts at most a failure.
LEMMA DriverBounds ==
    ASSUME TypeOK, NEW d \in Drivers, DriverMove(d)
    PROVE  crashes' = crashes /\ faults' >= faults
<1>0. faults \in Nat BY DEF TypeOK, BoundsOK
<1>1. CASE \/ Load(d) \/ Start(d) \/ BeginRetry(d) \/ Drive(d) \/ SetCurrent(d) \/ StepRunning(d) \/ CancelTask(d)
           \/ ClearCurrent(d) \/ Complete(d) \/ EnsureRun(d) \/ EnsureRunFails(d) \/ CacheRun(d) \/ LinkRun(d)
           \/ WritePhase(d)
  <2>1. UNCHANGED bounds
    BY <1>1 DEF Load, Start, BeginRetry, Drive, SetCurrent, StepRunning, CancelTask, ClearCurrent, Complete,
       EnsureRun, EnsureRunFails, CacheRun, LinkRun, WritePhase, others
  <2> QED BY <1>0, <2>1 DEF bounds
<1>2. CASE \/ Spawn(d) \/ CancelArm(d) \/ CancelShadow(d) \/ RecordLinks(d) \/ FinishStep(d) \/ RouteHalt(d)
           \/ DecideResume(d) \/ PersistResume(d) \/ PersistPark(d) \/ ParkStep(d) \/ ParkTask(d) \/ HaltStep(d)
           \/ HaltTask(d) \/ Finalize(d) \/ FinalWrite(d) \/ AgentEnds(d)
  <2>1. UNCHANGED bounds
    BY <1>2 DEF Spawn, CancelArm, CancelShadow, RecordLinks, FinishStep, RouteHalt, DecideResume, PersistResume,
       PersistPark, ParkStep, ParkTask, HaltStep, HaltTask, Finalize, FinalWrite, AgentEnds, others
  <2> QED BY <1>0, <2>1 DEF bounds
<1>3. CASE ShadowUpdateFails(d) \/ FinalizeFails(d) BY <1>0, <1>3 DEF ShadowUpdateFails, FinalizeFails
<1> QED BY <1>1, <1>2, <1>3 DEF DriverMove, Work

\* While nothing crashes or fails, a Running task has a driver at work on it
\* and a parked one can be retried.
LEMMA UndisturbedStep ==
    Ledger /\ Ledger' /\ Executed /\ Parked /\ [Next]_vars => Executed' /\ Parked'
<1> SUFFICES ASSUME Ledger, Ledger', Executed, Parked, [Next]_vars PROVE Executed' /\ Parked'
  OBVIOUS
<1>0. /\ TypeOK /\ StepPlaced /\ Exclusive /\ Placed /\ TypeOK'
      /\ crashes \in Nat /\ faults \in Nat /\ crashes' \in Nat /\ faults' \in Nat
  BY DEF Ledger, TypeOK, BoundsOK
<1>1. CASE \E d \in Drivers : DriverMove(d)
  <2>1. PICK d \in Drivers : DriverMove(d) BY <1>1
  <2>2. DriverKeeps(d) BY <1>0, <2>1, DriverMoveKeeps
  <2>3. cpc' = cpc BY <1>0, <2>1, DriverMoves DEF TypeOK
  <2>4. crashes' + faults' = 0 => crashes + faults = 0
    <3>1. crashes' = crashes /\ faults' >= faults BY <1>0, <2>1, DriverBounds
    <3> QED BY <1>0, <3>1, NoneBefore
  <2>5. Executed'
    <3> SUFFICES ASSUME crashes' + faults' = 0, taskStatus' = "Running" PROVE \E o \in Drivers : pc'[o] \in RunningPCs
      BY DEF Executed
    <3>1. CASE pc'[d] \in RunningPCs BY <3>1
    <3>2. CASE pc'[d] \notin RunningPCs
      <4>1. taskStatus = "Running" /\ pc[d] \notin RunningPCs BY <2>2, <3>2 DEF DriverKeeps
      <4>2. PICK o \in Drivers : pc[o] \in RunningPCs BY <2>4, <4>1 DEF Executed
      <4>3. pc'[o] = pc[o] BY <1>0, <2>1, <4>1, <4>2, DriverFrame
      <4> QED BY <4>2, <4>3
    <3> QED BY <3>1, <3>2
  <2>6. Parked' BY <2>2, <2>3, <2>4 DEF Parked, DriverKeeps, RetryAllowed, taskVars
  <2> QED BY <2>5, <2>6
<1>2. CASE \E d \in Drivers : Register(d) \/ RegisterRejected(d) \/ Release(d) \/ Abort(d)
  <2>1. PICK d \in Drivers : Register(d) \/ RegisterRejected(d) \/ Release(d) \/ Abort(d) BY <1>2
  <2> USE DEF dbVars, taskVars, stepExtra, others, cVars, sVars, bounds
  <2>2. UNCHANGED <<taskVars, cpc>> BY <2>1 DEF Register, RegisterRejected, Release, Abort
  <2>3. CASE Abort(d) BY <1>0, <2>3 DEF Abort, Executed, Parked
  <2>4. CASE Register(d) \/ RegisterRejected(d) \/ Release(d)
    <3>1. UNCHANGED <<crashes, faults>> BY <2>4 DEF Register, RegisterRejected, Release
    <3>2. pc[d] \notin RunningPCs
      BY <2>4 DEF Register, RegisterRejected, Release, At, RunningPCs, LoopPCs, DonePCs, InStepPCs, StartPCs
    <3>3. \A o \in Drivers : o # d => pc'[o] = pc[o]
      BY <1>0, <2>4 DEF Register, RegisterRejected, Release, Unregister, Goto, TypeOK, PCsOK
    <3> QED BY <2>2, <3>1, <3>2, <3>3 DEF Executed, Parked, RetryAllowed
  <2> QED BY <2>1, <2>3, <2>4
<1>3. CASE \E c \in Cancellers : CancelRequest(c) \/ CancelStep(c) \/ CancelFault(c)
  <2>1. PICK c \in Cancellers : CancelRequest(c) \/ CancelStep(c) \/ CancelFault(c) BY <1>3
  <2>2. CancelKeeps(c) BY <1>0, <2>1, CancelActionKeeps
  <2>3. Executed' BY <1>0, <2>2 DEF CancelKeeps, Executed
  <2>4. Parked'
    <3> SUFFICES ASSUME taskStatus' = "NeedsHuman", crashes' + faults' = 0, \A o \in Cancellers : cpc'[o] # "steps"
                 PROVE  RetryAllowed'
      BY DEF Parked
    <3>1. faults' = faults /\ crashes + faults = 0 BY <1>0, <2>2 DEF CancelKeeps
    <3>2. UNCHANGED taskVars /\ \A o \in Cancellers : cpc[o] # "steps" BY <2>2, <3>1 DEF CancelKeeps
    <3> QED BY <3>1, <3>2 DEF Parked, taskVars, RetryAllowed
  <2> QED BY <2>3, <2>4
<1>4. CASE SweepStep \/ SweepFailStepFails \/ SweepAbort \/ \E r \in RunIds : SweepPick(r)
  <2>1. SweepKeeps BY <1>0, <1>4, SweepActionKeeps
  <2>2. crashes' + faults' = 0 => crashes + faults = 0
    <3>1. crashes' = crashes /\ faults' >= faults BY <2>1 DEF SweepKeeps
    <3> QED BY <1>0, <3>1, NoneBefore
  <2>3. UNCHANGED <<pc, cpc>> BY <2>1 DEF SweepKeeps
  <2>4. Executed' BY <2>1, <2>2, <2>3 DEF SweepKeeps, Executed
  <2>5. Parked' BY <2>1, <2>2, <2>3 DEF SweepKeeps, Parked, RetryAllowed, taskVars
  <2> QED BY <2>4, <2>5
<1>5. CASE Crash BY <1>0, <1>5 DEF Crash, Executed, Parked
<1>6. CASE UNCHANGED vars
  BY <1>6 DEF vars, dbVars, taskVars, dVars, cVars, bounds, Executed, Parked, RetryAllowed
<1> QED
  BY <1>1, <1>2, <1>3, <1>4, <1>5, <1>6 DEF Next, DriverStep, DriverFault, DriverMove

\* Both hold of every behaviour.
LEMMA UndisturbedHolds == Spec => [](Executed /\ Parked)
<1>1. Ledger /\ [Next]_vars => Ledger' BY LedgerStep
<1>2. Ledger /\ Executed /\ Parked /\ [Next]_vars => (Ledger /\ Executed /\ Parked)' BY <1>1, UndisturbedStep
<1> QED BY LedgerInit, <1>2, PTL DEF Spec

\* RunningHasExecutor: without a crash or a failure, a Running task has a
\* driver in the registry, so the sweep takes no live task for an orphan.
THEOREM RunningHasExecutorHolds == Spec => []RunningHasExecutor
<1>1. Ledger /\ Executed => RunningHasExecutor
  <2> SUFFICES ASSUME Ledger, Executed, crashes + faults = 0, taskStatus = "Running" PROVE slot \in Drivers
    BY DEF RunningHasExecutor
  <2>1. PICK d \in Drivers : pc[d] \in RunningPCs BY DEF Executed
  <2>2. pc[d] \in Holding BY <2>1 DEF RunningPCs, LoopPCs, DonePCs, InStepPCs, StartPCs, Holding
  <2> QED BY <2>2 DEF Ledger, Exclusive
<1> QED BY <1>1, LedgerHolds, UndisturbedHolds, PTL

\* ParkedIsRetryable: without a crash or a failure, and with no cancel under
\* way, a parked task can be retried.
THEOREM ParkedIsRetryableHolds == Spec => []ParkedIsRetryable
<1>1. Ledger /\ Parked => ParkedIsRetryable
  BY DEF Ledger, Parked, ParkedIsRetryable, Exclusive, Reserving
<1> QED BY <1>1, LedgerHolds, UndisturbedHolds, PTL

\* RefinesContract: as long as no write of a step status fails on its own, the
\* rows behave as LaunchTaskContract says under every interleaving, crash and
\* other failure.
THEOREM ContractRefined == "stepWrite" \notin FaultKinds => (Spec => RefinesContract)
<1> SUFFICES ASSUME NoStepWrite PROVE Spec => Contract!Spec
  BY DEF NoStepWrite, RefinesContract
<1>1. Init => Contract!Init
  BY SameNames DEF Init, Contract!Init
<1>2. Ledger /\ [Next]_vars => [Contract!Next]_Contract!rows
  BY LedgerStep DEF RowStep, Contract!rows, taskVars
<1> QED BY <1>1, <1>2, LedgerHolds, PTL DEF Spec, Contract!Spec

\* The recipe runs in order and the active step is the current one, whatever
\* fails; and without a failed step write a dead task leaves no step active.
THEOREM RecipeInOrder ==
    Spec => [](Contract!RecipeOrder /\ Contract!ActiveIsCurrent /\ (NoStepWrite => Contract!TerminalTaskSettled))
<1>1. Ledger => Contract!RecipeOrder /\ Contract!ActiveIsCurrent /\ (NoStepWrite => Contract!TerminalTaskSettled)
  BY DEF Ledger, Placed, Rows
<1> QED BY <1>1, LedgerHolds, PTL

\* What is terminal stays as it is, whatever fails: task and step.
THEOREM TerminalStays == Spec => Contract!TerminalIsFinal
<1> DEFINE Final == /\ taskStatus \in TaskTerminal => taskStatus' = taskStatus
                    /\ \A i \in Steps : stepStatus[i] \in StepTerminal => stepStatus'[i] = stepStatus[i]
<1>1. ASSUME Ledger, RowStep PROVE Final
  <2> USE SameNames, TaskEdgesAre, StepEdgesAre, <1>1
      DEF Ledger, TypeOK, RowsOK, TaskTerminal, StepTerminal
  <2>1. CASE Contract!StartTask BY <2>1 DEF Contract!StartTask
  <2>2. CASE Contract!ParkTask BY <2>2 DEF Contract!ParkTask
  <2>3. CASE Contract!Retry BY <2>3 DEF Contract!Retry
  <2>4. CASE Contract!ClearCurrent BY <2>4 DEF Contract!ClearCurrent
  <2>5. CASE Contract!CompleteTask BY <2>5 DEF Contract!CompleteTask
  <2>6. ASSUME NEW i \in Steps, Contract!SkipStep(i) PROVE Final BY <2>6 DEF Contract!SkipStep
  <2>7. ASSUME NEW i \in Steps, Contract!PointTo(i) PROVE Final BY <2>7 DEF Contract!PointTo
  <2>8. ASSUME NEW i \in Steps, Contract!BeginStep(i) PROVE Final BY <2>8 DEF Contract!BeginStep
  <2>9. ASSUME NEW i \in Steps, NEW s \in {"Completed", "NeedsHuman", "Failed", "Cancelled"}, Contract!SettleStep(i, s)
        PROVE  Final
    BY <2>9 DEF Contract!SettleStep
  <2>10. ASSUME NEW s \in {"Failed", "Cancelled"}, Contract!EndTask(s) PROVE Final BY <2>10 DEF Contract!EndTask
  <2>11. CASE ~NoStepWrite /\ LooseEnd BY <2>11 DEF LooseEnd
  <2>12. CASE UNCHANGED taskVars BY <2>12 DEF taskVars
  <2> QED
    BY <2>1, <2>2, <2>3, <2>4, <2>5, <2>6, <2>7, <2>8, <2>9, <2>10, <2>11, <2>12 DEF RowStep, Contract!Next
<1>2. Ledger /\ [Next]_vars => [Final]_Contract!rows BY <1>1, LedgerStep
<1>3. Contract!TerminalIsFinal <=> [][Final]_Contract!rows
  BY SameNames DEF Contract!TerminalIsFinal, Contract!TaskTerminal, TaskTerminal, Contract!StepTerminal, StepTerminal,
     Contract!Steps, Steps
<1> QED BY <1>2, <1>3, LedgerHolds, PTL DEF Spec

-----------------------------------------------------------------------------
(* Runs: an id an actor holds names a row that exists, and rows stay.      *)

\* The same runs exist after the step, whatever states they are in.
SameRuns == \A r \in RunIds : (runState'[r] = "Absent") <=> (runState[r] = "Absent")
\* No run disappears.
RunsStay == \A r \in RunIds : runState[r] # "Absent" => runState'[r] # "Absent"

\* Overwriting the state of a run that exists, or of none, makes no run.
LEMMA RunWritten ==
    ASSUME TypeOK, NEW r \in RunIds \cup {None}, Exists(r), NEW s \in RunTerminal \cup {"Live"},
           runState' = [runState EXCEPT ![r] = s]
    PROVE  SameRuns
<1>1. runState \in [RunIds -> RunStates] /\ s # "Absent" BY DEF TypeOK, RowsOK, RunTerminal, TaskTerminal
<1>2. None \notin RunIds BY BoundsAssumption DEF RunIds, None
<1> QED BY <1>1, <1>2 DEF SameRuns, Exists

\* What a driver's move does to the runs: it leaves the set of them alone and
\* the cache too; or it caches the run it holds; or it mints one and holds it.
PlainRuns(d) == SameRuns /\ cacheRun' = cacheRun /\ pc[d] # "cache" /\ pc'[d] # "cache"
CachesRun(d) ==
    /\ SameRuns /\ pc[d] = "cache" /\ pc'[d] # "cache"
    /\ cacheRun' = IF cacheRun = None THEN loc[d].run ELSE cacheRun
MintsRun(d) ==
    /\ RunsStay /\ cacheRun = None /\ cacheRun' = None
    /\ pc[d] = "ensure" /\ pc'[d] = "cache"
    /\ \A r \in RunIds : runState'[r] # "Absent" => runState[r] # "Absent" \/ r = loc'[d].run

\* Every move of a driver is one of the three, and the ids it holds name runs.
LEMMA DriverRuns ==
    ASSUME TypeOK, TypeOK', RunsExist, NEW d \in Drivers, DriverMove(d)
    PROVE  /\ PlainRuns(d) \/ CachesRun(d) \/ MintsRun(d)
           /\ Exists(loc[d].run)' /\ Exists(cacheRun)'
<1> USE DEF Goto, At, dbVars, taskVars, stepExtra, memVars, others, bounds
<1>0. /\ loc \in [Drivers -> Locals] /\ pc \in [Drivers -> DriverPCs] /\ loc' \in [Drivers -> Locals]
      /\ loc[d] \in Locals /\ cacheRun \in RunIds \cup {None} /\ runState \in [RunIds -> RunStates]
      /\ cacheRun' \in RunIds \cup {None}
  BY DEF TypeOK, LocalsOK, PCsOK, RowsOK, MemoryOK
<1>a. DOMAIN loc[d] = {"step", "snap", "segs", "prev", "resume", "run", "out", "fin"}
      /\ loc[d].run \in RunIds \cup {None} /\ loc[d].fin \in RunTerminal
      /\ loc'[d].run \in RunIds \cup {None}
  BY <1>0 DEF Locals
<1>b. Exists(loc[d].run) /\ Exists(cacheRun) BY DEF RunsExist
<1>c. None \notin RunIds BY BoundsAssumption DEF RunIds, None
<1>d. ASSUME SameRuns, NEW r \in RunIds \cup {None}, Exists(r) PROVE r # None => runState'[r] # "Absent"
  BY <1>d DEF SameRuns, Exists
\* Every move but the two that write the cache or mint a run.
<1>q. ASSUME SameRuns, cacheRun' = cacheRun, pc[d] # "cache", pc'[d] # "cache",
             loc'[d].run = loc[d].run \/ loc'[d].run = cacheRun \/ loc'[d].run = None
                \/ runState[loc'[d].run] # "Absent"
      PROVE  PlainRuns(d) /\ Exists(loc[d].run)' /\ Exists(cacheRun)'
  BY <1>q, <1>a, <1>b, <1>c, <1>0 DEF SameRuns, PlainRuns, Exists
<1>s. runState' = runState => SameRuns BY DEF SameRuns
<1>1. CASE EnsureRun(d)
  <2>1. CASE cacheRun # None
    <3>1. loc'[d].run = cacheRun /\ runState' = runState /\ pc'[d] = "link" /\ pc[d] = "ensure" /\ cacheRun' = cacheRun
      BY <1>0, <1>a, <1>1, <2>1 DEF EnsureRun
    <3> QED BY <3>1, <1>q, <1>s
  <2>2. CASE cacheRun = None
    <3>1. PICK r \in RunIds : /\ runState[r] = "Absent" /\ runState' = [runState EXCEPT ![r] = "Live"]
                              /\ loc' = [loc EXCEPT ![d].run = r]
      BY <1>1, <2>2 DEF EnsureRun
    <3>2. loc'[d].run = r BY <3>1, <1>0, <1>a
    <3>3. pc[d] = "ensure" /\ pc'[d] = "cache" /\ cacheRun' = None BY <1>0, <1>1, <2>2 DEF EnsureRun
    <3>4. RunsStay /\ runState'[r] = "Live" /\ \A q \in RunIds : runState'[q] # "Absent" => runState[q] # "Absent" \/ q = r
      BY <3>1, <1>0 DEF RunsStay
    <3> QED BY <2>2, <3>2, <3>3, <3>4 DEF MintsRun, Exists
  <2> QED BY <2>1, <2>2
<1>2. CASE CacheRun(d)
  <2>1. /\ pc[d] = "cache" /\ pc'[d] = "link" /\ runState' = runState
        /\ cacheRun' = IF cacheRun = None THEN loc[d].run ELSE cacheRun
        /\ loc'[d].run = cacheRun'
    BY <1>0, <1>a, <1>2 DEF CacheRun
  <2> QED BY <2>1, <1>b DEF CachesRun, SameRuns, Exists
<1>3. CASE Finalize(d)
  <2>1. runState' = runState /\ cacheRun' = cacheRun /\ pc[d] # "cache" /\ pc'[d] # "cache"
    BY <1>0, <1>3 DEF Finalize
  <2>2. loc'[d].run = loc[d].run \/ runState[loc'[d].run] = "Live"
    BY <1>0, <1>a, <1>3 DEF Finalize
  <2> QED BY <2>1, <2>2, <1>q, <1>s
<1>4. CASE WritePhase(d) \/ CancelShadow(d) \/ FinalWrite(d)
  <2>1. \E s \in RunTerminal \cup {"Live"} : runState' = [runState EXCEPT ![loc[d].run] = s]
    BY <1>4, <1>a DEF WritePhase, CancelShadow, FinalWrite, RunTerminal, TaskTerminal
  <2>2. SameRuns BY <2>1, <1>a, <1>b, RunWritten
  <2>3. loc' = loc /\ cacheRun' = cacheRun /\ pc[d] # "cache" /\ pc'[d] # "cache"
    BY <1>0, <1>4 DEF WritePhase, CancelShadow, FinalWrite
  <2> QED BY <2>2, <2>3, <1>q
<1>5. CASE \/ Load(d) \/ Start(d) \/ BeginRetry(d) \/ Drive(d) \/ SetCurrent(d) \/ StepRunning(d) \/ CancelTask(d)
           \/ ClearCurrent(d) \/ Complete(d)
  <2>1. runState' = runState /\ cacheRun' = cacheRun
    BY <1>5 DEF Load, Start, BeginRetry, Drive, SetCurrent, StepRunning, CancelTask, ClearCurrent, Complete
  <2>2. pc[d] # "cache" /\ pc'[d] # "cache"
    BY <1>0, <1>5 DEF Load, Start, BeginRetry, Drive, SetCurrent, StepRunning, CancelTask, ClearCurrent, Complete,
       WriteTask, WriteStep
  <2>3. loc'[d].run = loc[d].run
    <3>1. CASE Load(d) \/ BeginRetry(d) \/ StepRunning(d)
      <4>1. CASE Load(d) BY <1>0, <1>a, <4>1 DEF Load
      <4>2. CASE BeginRetry(d)
        <5>1. \/ loc' = loc
              \/ \E key \in {FALSE, resumeKey[loc[d].step]} :
                   loc' = [loc EXCEPT ![d] = [loc[d] EXCEPT !.segs = resumeCount[loc[d].step], !.prev = FALSE, !.resume = key]]
          BY <4>2 DEF BeginRetry
        <5> QED BY <1>0, <1>a, <5>1
      <4>3. CASE StepRunning(d) BY <1>0, <1>a, <4>3 DEF StepRunning
      <4> QED BY <3>1, <4>1, <4>2, <4>3
    <3>2. CASE Drive(d) \/ Complete(d) BY <1>0, <1>a, <3>2 DEF Drive, Complete
    <3>3. CASE Start(d) \/ SetCurrent(d) \/ CancelTask(d) \/ ClearCurrent(d)
      BY <3>3 DEF Start, SetCurrent, CancelTask, ClearCurrent
    <3> QED BY <1>5, <3>1, <3>2, <3>3
  <2> QED BY <2>1, <2>2, <2>3, <1>q, <1>s
<1>6. CASE \/ EnsureRunFails(d) \/ LinkRun(d) \/ Spawn(d) \/ CancelArm(d) \/ RecordLinks(d) \/ FinishStep(d)
           \/ AgentEnds(d) \/ ShadowUpdateFails(d)
  <2>1. runState' = runState /\ cacheRun' = cacheRun
    BY <1>6 DEF EnsureRunFails, LinkRun, Spawn, CancelArm, RecordLinks, FinishStep, AgentEnds, ShadowUpdateFails
  <2>2. pc[d] # "cache" /\ pc'[d] # "cache"
    BY <1>0, <1>6 DEF EnsureRunFails, LinkRun, Spawn, CancelArm, RecordLinks, FinishStep, AgentEnds,
       ShadowUpdateFails, WriteStep
  <2>3. loc'[d].run = loc[d].run \/ loc'[d].run = None
    <3>1. CASE EnsureRunFails(d) BY <1>0, <1>a, <3>1 DEF EnsureRunFails
    <3>2. CASE FinishStep(d) BY <1>0, <1>a, <3>2 DEF FinishStep
    <3>3. CASE Spawn(d) \/ AgentEnds(d) \/ ShadowUpdateFails(d)
      BY <1>0, <1>a, <3>3 DEF Spawn, AgentEnds, ShadowUpdateFails
    <3>4. CASE LinkRun(d) \/ CancelArm(d) \/ RecordLinks(d) BY <3>4 DEF LinkRun, CancelArm, RecordLinks
    <3> QED BY <1>6, <3>1, <3>2, <3>3, <3>4
  <2> QED BY <2>1, <2>2, <2>3, <1>q, <1>s
<1>7. CASE \/ RouteHalt(d) \/ DecideResume(d) \/ PersistResume(d) \/ PersistPark(d) \/ ParkStep(d) \/ ParkTask(d)
           \/ HaltStep(d) \/ HaltTask(d) \/ FinalizeFails(d)
  <2>1. runState' = runState /\ cacheRun' = cacheRun
    BY <1>7 DEF RouteHalt, DecideResume, PersistResume, PersistPark, ParkStep, ParkTask, HaltStep, HaltTask, FinalizeFails
  <2>2. pc[d] # "cache" /\ pc'[d] # "cache"
    BY <1>0, <1>7 DEF RouteHalt, DecideResume, PersistResume, PersistPark, ParkStep, ParkTask, HaltStep, HaltTask,
       FinalizeFails, WriteTask, WriteStep
  <2>3. loc'[d].run = loc[d].run
    <3>1. CASE PersistResume(d) BY <1>0, <1>a, <3>1 DEF PersistResume
    <3>2. CASE ParkTask(d) \/ HaltTask(d) BY <1>0, <1>a, <3>2 DEF ParkTask, HaltTask
    <3>3. CASE \/ RouteHalt(d) \/ DecideResume(d) \/ PersistPark(d) \/ ParkStep(d) \/ HaltStep(d) \/ FinalizeFails(d)
      BY <3>3 DEF RouteHalt, DecideResume, PersistPark, ParkStep, HaltStep, FinalizeFails
    <3> QED BY <1>7, <3>1, <3>2, <3>3
  <2> QED BY <2>1, <2>2, <2>3, <1>q, <1>s
<1> QED BY <1>1, <1>2, <1>3, <1>4, <1>5, <1>6, <1>7 DEF DriverMove, Work

\* What a cancel request does to the runs: it makes none and touches no cache.
LEMMA CancelRuns ==
    ASSUME TypeOK, RunsExist, NEW c \in Cancellers, CancelRequest(c) \/ CancelStep(c) \/ CancelFault(c)
    PROVE  SameRuns /\ cacheRun' = cacheRun /\ Exists(cloc[c].run)' /\ Exists(cloc[c].shadow)'
<1> USE DEF CGoto, dbVars, taskVars, stepExtra, memVars
<1>0. /\ cloc \in [Cancellers -> CancelLocals] /\ runState \in [RunIds -> RunStates]
      /\ DOMAIN cloc[c] = {"run", "todo", "shadow"} /\ DOMAIN NoCancel = {"run", "todo", "shadow"}
      /\ cloc[c].run \in RunIds \cup {None} /\ cloc[c].shadow \in RunIds \cup {None}
      /\ NoCancel.run = None /\ NoCancel.shadow = None
  BY DEF TypeOK, LocalsOK, RowsOK, CancelLocals, NoCancel
<1>1. Exists(cloc[c].run) /\ Exists(cloc[c].shadow) BY DEF RunsExist
<1>2. None \notin RunIds BY BoundsAssumption DEF RunIds, None
<1> DEFINE HasRun(new, old) == \/ new = old \/ new = None \/ (new \in RunIds /\ runState[new] = "Live")
<1>q. SameRuns /\ HasRun(cloc'[c].run, cloc[c].run) /\ HasRun(cloc'[c].shadow, cloc[c].shadow)
        => Exists(cloc[c].run)' /\ Exists(cloc[c].shadow)'
  BY <1>0, <1>1, <1>2 DEF SameRuns, Exists
<1>s. runState' = runState => SameRuns BY DEF SameRuns
<1>3. CASE CancelRequest(c)
  <2>1. runState' = runState /\ cacheRun' = cacheRun BY <1>3 DEF CancelRequest, RequestCancel, RequestCancelRun
  <2>2. CASE RequestCancel(c) BY <1>0, <1>q, <1>s, <2>1, <2>2 DEF RequestCancel, Exists
  <2>3. CASE RequestCancelRun(c)
    <3>1. PICK r \in RunIds : runState[r] = "Live" /\ cloc' = [cloc EXCEPT ![c].run = r] BY <2>3 DEF RequestCancelRun
    <3>2. cloc'[c].run = r /\ cloc'[c].shadow = cloc[c].shadow BY <1>0, <3>1
    <3> QED BY <1>q, <1>s, <2>1, <3>1, <3>2 DEF Exists
  <2> QED BY <1>3, <2>2, <2>3 DEF CancelRequest
<1>4. CASE CancelFault(c)
  <2>1. runState' = runState /\ cacheRun' = cacheRun BY <1>4 DEF CancelFault, CancelOneStepFails, CancelAbort
  <2>2. (cloc'[c].run = cloc[c].run \/ cloc'[c].run = None) /\ (cloc'[c].shadow = cloc[c].shadow \/ cloc'[c].shadow = None)
    BY <1>0, <1>4 DEF CancelFault, CancelOneStepFails, CancelAbort
  <2> QED BY <1>q, <1>s, <2>1, <2>2 DEF Exists
<1>5. CASE CancelFinalWrite(c) \/ CancelRunWrite(c)
  <2>1. \/ runState' = [runState EXCEPT ![cloc[c].shadow] = "Cancelled"]
        \/ runState' = [runState EXCEPT ![cloc[c].run] = "Cancelled"]
    BY <1>5 DEF CancelFinalWrite, CancelRunWrite
  <2>2. SameRuns BY <1>0, <1>1, <2>1, RunWritten DEF RunTerminal, TaskTerminal
  <2>4. cacheRun' = cacheRun BY <1>5 DEF CancelFinalWrite, CancelRunWrite
  <2>5. (cloc'[c].run = cloc[c].run \/ cloc'[c].run = None) /\ (cloc'[c].shadow = cloc[c].shadow \/ cloc'[c].shadow = None)
    BY <1>0, <1>5 DEF CancelFinalWrite, CancelRunWrite
  <2> QED BY <1>q, <2>2, <2>4, <2>5 DEF Exists
<1>6. CASE CancelFinalize(c)
  <2>1. runState' = runState /\ cacheRun' = cacheRun BY <1>6 DEF CancelFinalize
  <2>2. cloc'[c].run = cloc[c].run /\ (cloc'[c].shadow = cloc[c].shadow
          \/ (cloc'[c].shadow \in RunIds /\ runState[cloc'[c].shadow] = "Live"))
    BY <1>0, <1>6 DEF CancelFinalize
  <2> QED BY <1>q, <1>s, <2>1, <2>2 DEF Exists
<1>7. CASE CancelRunFindStep(c) \/ CancelSignal(c) \/ CancelReserve(c) \/ CancelLoad(c) \/ CancelOneStep(c)
             \/ CancelTaskRow(c) \/ CancelRelease(c) \/ CancelRunRefresh(c)
  <2>1. runState' = runState /\ cacheRun' = cacheRun
    BY <1>7 DEF CancelRunFindStep, CancelSignal, CancelReserve, CancelLoad, CancelOneStep, CancelTaskRow, CancelRelease,
       CancelRunRefresh
  <2>2. (cloc'[c].run = cloc[c].run \/ cloc'[c].run = None) /\ (cloc'[c].shadow = cloc[c].shadow \/ cloc'[c].shadow = None)
    <3>1. CASE CancelRunFindStep(c) \/ CancelReserve(c) \/ CancelTaskRow(c)
      BY <3>1 DEF CancelRunFindStep, CancelReserve, CancelTaskRow
    <3>2. CASE CancelSignal(c) \/ CancelRelease(c)
      <4>1. cloc' = [cloc EXCEPT ![c] = [cloc[c] EXCEPT !.todo = {}, !.shadow = None]]
        BY <3>2, <1>0 DEF CancelSignal, CancelRelease, Leave
      <4> QED BY <1>0, <4>1
    <3>3. CASE CancelLoad(c) \/ CancelOneStep(c)
      <4>1. cloc' = cloc \/ \E t : cloc' = [cloc EXCEPT ![c] = [cloc[c] EXCEPT !.todo = t]]
        <5>1. CASE CancelLoad(c) BY <1>0, <5>1 DEF CancelLoad
        <5>2. CASE CancelOneStep(c) BY <1>0, <5>2 DEF CancelOneStep
        <5> QED BY <3>3, <5>1, <5>2
      <4> QED BY <1>0, <4>1
    <3>4. CASE CancelRunRefresh(c) BY <1>0, <3>4 DEF CancelRunRefresh
    <3> QED BY <1>7, <3>1, <3>2, <3>3, <3>4
  <2> QED BY <1>q, <1>s, <2>1, <2>2 DEF Exists
<1> QED BY <1>3, <1>4, <1>5, <1>6, <1>7 DEF CancelStep

\* The sweep makes no run either, and works on one that exists.
LEMMA SweepRuns ==
    ASSUME TypeOK, RunsExist, SweepStep \/ SweepFailStepFails \/ SweepAbort \/ \E r \in RunIds : SweepPick(r)
    PROVE  SameRuns /\ cacheRun' = cacheRun /\ Exists(sloc.run)'
<1> USE DEF dbVars, taskVars, stepExtra, memVars, SweepTo
<1>0. /\ sloc \in SweepLocals /\ DOMAIN sloc = {"run", "step", "fin"} /\ sloc.run \in RunIds \cup {None}
      /\ sloc.fin \in RunTerminal /\ runState \in [RunIds -> RunStates]
      /\ NoSweep.run = None /\ DOMAIN NoSweep = {"run", "step", "fin"}
  BY DEF TypeOK, LocalsOK, SweepLocals, RowsOK, NoSweep
<1>1. Exists(sloc.run) BY DEF RunsExist
<1>2. None \notin RunIds BY BoundsAssumption DEF RunIds, None
<1>q. SameRuns /\ (sloc'.run = sloc.run \/ sloc'.run = None \/ (sloc'.run \in RunIds /\ runState[sloc'.run] = "Live"))
        => Exists(sloc.run)'
  BY <1>0, <1>1, <1>2 DEF SameRuns, Exists
<1>s. runState' = runState => SameRuns BY DEF SameRuns
<1>3. CASE \E r \in RunIds : SweepPick(r)
  <2>1. PICK r \in RunIds : SweepPick(r) BY <1>3
  <2>2. runState' = runState /\ cacheRun' = cacheRun /\ sloc'.run = r /\ runState[r] = "Live"
    BY <1>0, <2>1 DEF SweepPick
  <2> QED BY <1>q, <1>s, <2>2 DEF Exists
<1>4. CASE SweepFinalWrite
  <2>1. runState' = [runState EXCEPT ![sloc.run] = sloc.fin] /\ cacheRun' = cacheRun /\ sloc' = sloc
    BY <1>4 DEF SweepFinalWrite
  <2>2. SameRuns BY <1>0, <1>1, <2>1, RunWritten
  <2> QED BY <1>q, <2>1, <2>2 DEF Exists
<1>5. CASE SweepClassify \/ SweepGate \/ SweepReload \/ SweepFailStep \/ SweepFailTask \/ SweepFinalize \/ SweepDone
             \/ SweepFailStepFails \/ SweepAbort
  <2>1. runState' = runState /\ cacheRun' = cacheRun
    BY <1>5 DEF SweepClassify, SweepGate, SweepReload, SweepFailStep, SweepFailTask, SweepFinalize, SweepDone,
       SweepFailStepFails, SweepAbort
  <2>2. sloc'.run = sloc.run \/ sloc'.run = None
    BY <1>0, <1>5 DEF SweepClassify, SweepGate, SweepReload, SweepFailStep, SweepFailTask, SweepFinalize, SweepDone,
       SweepFailStepFails, SweepAbort
  <2> QED BY <1>q, <1>s, <2>1, <2>2 DEF Exists
<1> QED BY <1>3, <1>4, <1>5 DEF SweepStep

\* Every run id an actor or the cache holds names a run that exists, and, while
\* nothing crashes or fails, at most one run exists: the cached one, or the one
\* a driver has just minted and not cached yet.
LEMMA RunsStep ==
    Ledger /\ Ledger' /\ RunsExist /\ Minted /\ [Next]_vars => RunsExist' /\ Minted'
<1> SUFFICES ASSUME Ledger, Ledger', RunsExist, Minted, [Next]_vars PROVE RunsExist' /\ Minted'
  OBVIOUS
<1>0. /\ TypeOK /\ TypeOK' /\ Exclusive
      /\ crashes \in Nat /\ faults \in Nat /\ crashes' \in Nat /\ faults' \in Nat
      /\ runState \in [RunIds -> RunStates] /\ runState' \in [RunIds -> RunStates]
      /\ cacheRun \in RunIds \cup {None}
      /\ \A d \in Drivers : loc[d].run \in RunIds \cup {None}
      /\ \A c \in Cancellers : cloc[c].run \in RunIds \cup {None} /\ cloc[c].shadow \in RunIds \cup {None}
      /\ sloc.run \in RunIds \cup {None}
  BY DEF Ledger, TypeOK, BoundsOK, RowsOK, MemoryOK, LocalsOK, Locals, CancelLocals, SweepLocals
<1>n. None \notin RunIds BY BoundsAssumption DEF RunIds, None
\* An id that named a run still does.
<1>k. ASSUME RunsStay, NEW r \in RunIds \cup {None}, Exists(r) PROVE r # None => runState'[r] # "Absent"
  BY <1>k, <1>n DEF RunsStay, Exists
<1>s. SameRuns => RunsStay BY DEF SameRuns, RunsStay
<1>1. CASE \E d \in Drivers : DriverMove(d)
  <2>1. PICK d \in Drivers : DriverMove(d) BY <1>1
  <2>2. /\ PlainRuns(d) \/ CachesRun(d) \/ MintsRun(d)
        /\ Exists(loc[d].run)' /\ Exists(cacheRun)'
    BY <1>0, <2>1, DriverRuns
  <2>3. RunsStay BY <2>2, <1>s DEF PlainRuns, CachesRun, MintsRun
  <2>4. cloc' = cloc /\ sloc' = sloc /\ pc[d] \in Holding BY <1>0, <2>1, DriverMoves DEF TypeOK
  <2>5. \A o \in Drivers : o # d => loc'[o] = loc[o] /\ pc'[o] = pc[o] BY <1>0, <2>1, DriverFrame
  <2>6. RunsExist'
    <3>1. Exists(sloc.run)' BY <1>0, <1>k, <2>3, <2>4 DEF RunsExist, Exists
    <3>2. ASSUME NEW o \in Drivers PROVE Exists(loc[o].run)'
      <4>1. CASE o = d BY <2>2, <4>1
      <4>2. CASE o # d
        <5>1. loc'[o].run = loc[o].run /\ Exists(loc[o].run) BY <2>5, <4>2 DEF RunsExist
        <5> QED BY <1>0, <1>k, <2>3, <5>1 DEF Exists
      <4> QED BY <4>1, <4>2
    <3>3. ASSUME NEW c \in Cancellers PROVE Exists(cloc[c].run)' /\ Exists(cloc[c].shadow)'
      BY <1>0, <1>k, <2>3, <2>4 DEF RunsExist, Exists
    <3> QED BY <2>2, <3>1, <3>2, <3>3 DEF RunsExist
  <2>7. Minted'
    <3> SUFFICES ASSUME crashes' + faults' = 0, NEW r \in RunIds, runState'[r] # "Absent"
                 PROVE  \/ cacheRun' = r
                        \/ cacheRun' = None /\ \E o \in Drivers : pc'[o] = "cache" /\ loc'[o].run = r
      BY DEF Minted
    <3>1. crashes + faults = 0
      <4>1. crashes' = crashes /\ faults' >= faults BY <1>0, <2>1, DriverBounds
      <4> QED BY <1>0, <4>1, NoneBefore
    <3>2. \A o \in Drivers : pc[o] = "cache" => o = d
      BY <1>0, <2>4 DEF Exclusive, Holding
    <3>3. CASE PlainRuns(d)
      <4>1. runState[r] # "Absent" /\ cacheRun' = cacheRun BY <3>3 DEF PlainRuns, SameRuns
      <4>2. \A o \in Drivers : pc[o] # "cache" BY <3>2, <3>3 DEF PlainRuns
      <4> QED BY <3>1, <4>1, <4>2 DEF Minted
    <3>4. CASE CachesRun(d)
      <4>1. runState[r] # "Absent" BY <3>4 DEF CachesRun, SameRuns
      <4>2. CASE cacheRun = r BY <1>n, <3>4, <4>2 DEF CachesRun
      <4>3. CASE cacheRun # r
        <5>1. cacheRun = None /\ loc[d].run = r BY <3>1, <3>2, <4>1, <4>3 DEF Minted
        <5> QED BY <3>4, <5>1 DEF CachesRun
      <4> QED BY <4>2, <4>3
    <3>5. CASE MintsRun(d)
      <4>1. runState[r] = "Absent"
        <5>1. \A o \in Drivers : pc[o] # "cache" BY <3>2, <3>5 DEF MintsRun
        <5>2. cacheRun # r BY <1>n, <3>5 DEF MintsRun
        <5> QED BY <3>1, <5>1, <5>2 DEF Minted
      <4>2. r = loc'[d].run /\ pc'[d] = "cache" /\ cacheRun' = None BY <3>5, <4>1 DEF MintsRun
      <4> QED BY <4>2
    <3> QED BY <2>2, <3>3, <3>4, <3>5
  <2> QED BY <2>6, <2>7
<1>2. CASE \E d \in Drivers : Register(d) \/ RegisterRejected(d) \/ Release(d) \/ Abort(d)
  <2>1. PICK d \in Drivers : Register(d) \/ RegisterRejected(d) \/ Release(d) \/ Abort(d) BY <1>2
  <2>2. /\ runState' = runState /\ cacheRun' = cacheRun /\ cloc' = cloc /\ sloc' = sloc
        /\ crashes' = crashes /\ faults' >= faults
    BY <1>0, <2>1 DEF Register, RegisterRejected, Release, Abort, dbVars, memVars, others, cVars, sVars, bounds
  <2>3. \A o \in Drivers : loc'[o].run = loc[o].run \/ loc'[o].run = None
    <3>0. loc \in [Drivers -> Locals] /\ NoLocals.run = None BY <1>0 DEF TypeOK, LocalsOK, NoLocals
    <3> QED BY <3>0, <2>1 DEF Register, RegisterRejected, Release, Abort, Unregister
  <2>4. crashes' + faults' = 0 => \A o \in Drivers : pc[o] = "cache" => pc'[o] = "cache" /\ loc'[o] = loc[o]
    <3>0. pc \in [Drivers -> DriverPCs] /\ loc \in [Drivers -> Locals] BY <1>0 DEF TypeOK, PCsOK, LocalsOK
    <3>1. CASE Abort(d)
      <4>1. faults' = faults + 1 BY <3>1 DEF Abort
      <4>2. \A a, b \in Nat : a + (b + 1) # 0 OBVIOUS
      <4> QED BY <1>0, <4>1, <4>2
    <3>2. CASE Register(d) BY <3>0, <3>2 DEF Register, Goto, At
    <3>3. CASE RegisterRejected(d) BY <3>0, <3>3 DEF RegisterRejected, Goto, At
    <3>4. CASE Release(d) BY <3>0, <3>4 DEF Release, Unregister, At
    <3> QED BY <2>1, <3>1, <3>2, <3>3, <3>4
  <2>5. crashes' + faults' = 0 => crashes + faults = 0 BY <1>0, <2>2, NoneBefore
  <2>6. Minted'
    <3> SUFFICES ASSUME crashes' + faults' = 0, NEW r \in RunIds, runState'[r] # "Absent"
                 PROVE  \/ cacheRun' = r
                        \/ cacheRun' = None /\ \E o \in Drivers : pc'[o] = "cache" /\ loc'[o].run = r
      BY DEF Minted
    <3> QED BY <2>2, <2>4, <2>5 DEF Minted
  <2>7. RunsExist' BY <2>2, <2>3 DEF RunsExist, Exists
  <2> QED BY <2>6, <2>7
<1>3. CASE \E c \in Cancellers : CancelRequest(c) \/ CancelStep(c) \/ CancelFault(c)
  <2>1. PICK c \in Cancellers : CancelRequest(c) \/ CancelStep(c) \/ CancelFault(c) BY <1>3
  <2>2. /\ UNCHANGED <<pc, loc, sloc, crashes>> /\ faults' >= faults
        /\ \A o \in Cancellers : o # c => cloc'[o] = cloc[o]
    BY <1>0, <2>1, CancelFrame
  <2>3. SameRuns /\ cacheRun' = cacheRun /\ Exists(cloc[c].run)' /\ Exists(cloc[c].shadow)'
    BY <1>0, <2>1, CancelRuns
  <2>4. Minted' BY <1>0, <2>2, <2>3, NoneBefore DEF Minted, SameRuns
  <2>5. ASSUME NEW o \in Cancellers PROVE Exists(cloc[o].run)' /\ Exists(cloc[o].shadow)'
    <3>1. CASE o = c BY <2>3, <3>1
    <3>2. CASE o # c
      <4>1. cloc'[o] = cloc[o] /\ Exists(cloc[o].run) /\ Exists(cloc[o].shadow) BY <2>2, <3>2 DEF RunsExist
      <4> QED BY <1>0, <1>n, <2>3, <4>1 DEF Exists, SameRuns
    <3> QED BY <3>1, <3>2
  <2>6. Exists(cacheRun)' /\ Exists(sloc.run)' /\ \A d \in Drivers : Exists(loc[d].run)'
    BY <1>0, <1>n, <2>2, <2>3 DEF RunsExist, Exists, SameRuns
  <2> QED BY <2>4, <2>5, <2>6 DEF RunsExist
<1>4. CASE SweepStep \/ SweepFailStepFails \/ SweepAbort \/ \E r \in RunIds : SweepPick(r)
  <2>1. SweepKeeps BY <1>0, <1>4, SweepActionKeeps DEF Ledger
  <2>2. UNCHANGED <<pc, loc, cloc, crashes>> /\ faults' >= faults BY <2>1 DEF SweepKeeps
  <2>3. SameRuns /\ cacheRun' = cacheRun /\ Exists(sloc.run)' BY <1>0, <1>4, SweepRuns
  <2>4. Minted' BY <1>0, <2>2, <2>3, NoneBefore DEF Minted, SameRuns
  <2>5. /\ Exists(cacheRun)' /\ \A d \in Drivers : Exists(loc[d].run)'
        /\ \A c \in Cancellers : Exists(cloc[c].run)' /\ Exists(cloc[c].shadow)'
    BY <1>0, <1>n, <2>2, <2>3 DEF RunsExist, Exists, SameRuns
  <2> QED BY <2>3, <2>4, <2>5 DEF RunsExist
<1>5. CASE Crash
  <2>1. crashes' = crashes + 1 /\ faults' = faults BY <1>5 DEF Crash
  <2>2. crashes' + faults' # 0
    <3>1. \A a, b \in Nat : (a + 1) + b # 0 OBVIOUS
    <3> QED BY <1>0, <2>1, <3>1
  <2>3. RunsExist'
    <3>1. NoLocals.run = None /\ NoCancel.run = None /\ NoCancel.shadow = None /\ NoSweep.run = None
      BY DEF NoLocals, NoCancel, NoSweep
    <3>2. /\ cacheRun' = None /\ sloc' = NoSweep /\ \A d \in Drivers : loc'[d] = NoLocals
          /\ \A c \in Cancellers : cloc'[c] = NoCancel
      BY <1>5 DEF Crash
    <3> QED BY <3>1, <3>2 DEF RunsExist, Exists
  <2> QED BY <2>2, <2>3 DEF Minted
<1>6. CASE UNCHANGED vars
  BY <1>6 DEF vars, dbVars, memVars, dVars, cVars, sVars, bounds, RunsExist, Exists, Minted
<1> QED
  BY <1>1, <1>2, <1>3, <1>4, <1>5, <1>6 DEF Next, DriverStep, DriverFault, DriverMove

\* OneShadowRun: without a crash or a failure the task mints one run.
THEOREM OneShadowRunHolds == Spec => []OneShadowRun
<1>1. Init => RunsExist /\ Minted
  BY DEF Init, RunsExist, Exists, Minted, NoLocals, NoCancel, NoSweep
<1>2. Ledger /\ [Next]_vars => Ledger' BY LedgerStep
<1>3. Ledger /\ RunsExist /\ Minted /\ [Next]_vars => (Ledger /\ RunsExist /\ Minted)' BY <1>2, RunsStep
<1>4. Ledger /\ Minted => OneShadowRun
  <2> SUFFICES ASSUME Ledger, Minted, crashes + faults = 0, NEW q \in RunIds, NEW r \in RunIds,
                      runState[q] # "Absent", runState[r] # "Absent"
               PROVE  q = r
    BY DEF OneShadowRun
  <2>1. None \notin RunIds BY BoundsAssumption DEF RunIds, None
  <2>2. \A d, e \in Drivers : pc[d] = "cache" /\ pc[e] = "cache" => d = e
    BY DEF Ledger, Exclusive, Holding
  <2> QED BY <2>1, <2>2 DEF Minted
<1> QED BY LedgerInit, <1>1, <1>3, <1>4, PTL DEF Spec
=============================================================================
