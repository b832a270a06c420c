----------------------------- MODULE LaunchTask -----------------------------
(***************************************************************************)
(* One launch task: its persisted rows (sqlite), the in-process registry   *)
(* slot, and the actors that race over them:                               *)
(*   drivers     LaunchTaskExecutor::run (spawned once, on create) and     *)
(*               retry_needs_human_step (one per retry request), each with *)
(*               the RealStepRunner it calls                               *)
(*   cancellers  LaunchTaskExecutor::cancel, called by the cancel endpoint *)
(*               or, for a shadow run, through RunService::cancel_run      *)
(*   sweeper     the boot / periodic liveness reconciliation               *)
(* plus a server restart, and errors, panics or dropped request handlers.  *)
(* Every database write is an action of its own, because any other actor,  *)
(* or a restart, may come between two of them.                             *)
(***************************************************************************)
EXTENDS LaunchStatus

CONSTANTS
    NumSteps,     \* steps of the recipe, in sequence order
    Enabled,      \* the steps enabled in the launch profile
    Budget,       \* Budget[i]: automatic resumes step i may use
    Drivers,      \* executor invocations
    Runner,       \* the one spawned by POST /launch-tasks
    Cancellers,   \* concurrent cancel requests
    Sweeper,      \* the liveness pass
    Free,         \* the registry holds no entry for the task
    MaxRuns,      \* bound: shadow runs that can be minted
    MaxCrashes,   \* bound: server restarts
    MaxFaults,    \* bound: failures of one handler or one write
    FaultKinds,   \* which of "abort", "shadow", "finalize", "stepWrite" may fail
    MaxRetries,   \* bound: accepted retry requests
    MaxCancels,   \* bound: cancel requests
    CancelKinds   \* which cancel endpoints are used: "task", "run"

Steps  == 1 .. NumSteps
RunIds == 1 .. MaxRuns
None   == 0        \* no current step, no linked run, empty cache

ASSUME StepsAssumption  == NumSteps \in Nat \ {0} /\ Enabled \subseteq Steps
ASSUME BudgetAssumption == Budget \in [Steps -> Nat]
ASSUME ActorsAssumption ==
    /\ Runner \in Drivers
    /\ Drivers \cap Cancellers = {}
    /\ Sweeper \notin Drivers \cup Cancellers
    /\ Free \notin Drivers \cup Cancellers \cup {Sweeper}
ASSUME BoundsAssumption ==
    MaxRuns \in Nat /\ MaxCrashes \in Nat /\ MaxFaults \in Nat /\ MaxRetries \in Nat /\ MaxCancels \in Nat

VARIABLES
    \* rows of launch_tasks, launch_task_steps and runs
    taskStatus, currentStep, stepStatus, stepLink, resumeCount, resumeKey, runState,
    \* server memory: registry entry, its token, RealStepRunner::shadow_runs
    slot, cancelled, cacheRun,
    \* control point and locals of each actor
    pc, loc, cpc, cloc, spc, sloc,
    \* how much of each bound has been used
    crashes, faults, retries, cancels

taskVars == <<taskStatus, currentStep, stepStatus>>
stepExtra == <<stepLink, resumeCount, resumeKey>>
dbVars   == <<taskVars, stepExtra, runState>>
memVars  == <<slot, cancelled, cacheRun>>
dVars    == <<pc, loc>>
cVars    == <<cpc, cloc>>
sVars    == <<spc, sloc>>
bounds   == <<crashes, faults, retries, cancels>>
vars     == <<dbVars, memVars, dVars, cVars, sVars, bounds>>

-----------------------------------------------------------------------------
\* find_step_by_linked_run: the most recently updated step that links r.
\* Steps are written in sequence order only, so that is the last one.
Linking(r) == {i \in Steps : stepLink[i] = r}
OwnerActive(r) ==
    \E i \in Linking(r) : stepStatus[i] \notin StepTerminal /\ \A j \in Linking(r) : j <= i

\* shadow_run_id_for_task: the link of the first step that has one.
ShadowRun(r) ==
    \E i \in Steps : stepLink[i] = r /\ \A j \in Steps : stepLink[j] # None => i <= j

Outcomes ==
    [kind : {"Completed", "NeedsHuman", "Failed"}, key : {FALSE}, moved : {FALSE}]
    \cup [kind : {"TimedOut"}, key : BOOLEAN, moved : BOOLEAN]
\* A SpawnError classification; also the resting value of a driver's outcome.
SpawnError == [kind |-> "Failed", key |-> FALSE, moved |-> FALSE]

NoLocals == [step |-> 1, snap |-> [i \in Steps |-> "Pending"], segs |-> 0, prev |-> FALSE,
             resume |-> FALSE, run |-> None, out |-> SpawnError, fin |-> "Failed"]
NoCancel == [run |-> None, todo |-> {}, shadow |-> None]
NoSweep  == [run |-> None, step |-> None, fin |-> "Failed"]

Init ==
    /\ taskStatus = "Pending" /\ currentStep = None
    /\ stepStatus = [i \in Steps |-> "Pending"]
    /\ stepLink = [i \in Steps |-> None]
    /\ resumeCount = [i \in Steps |-> 0] /\ resumeKey = [i \in Steps |-> FALSE]
    /\ runState = [r \in RunIds |-> "Absent"]
    /\ slot = Free /\ cancelled = [d \in Drivers |-> FALSE] /\ cacheRun = None
    /\ pc = [d \in Drivers |-> IF d = Runner THEN "spawned" ELSE "idle"]
    /\ loc = [d \in Drivers |-> NoLocals]
    /\ cpc = [c \in Cancellers |-> "idle"] /\ cloc = [c \in Cancellers |-> NoCancel]
    /\ spc = "idle" /\ sloc = NoSweep
    /\ crashes = 0 /\ faults = 0 /\ retries = 0 /\ cancels = 0

-----------------------------------------------------------------------------
(* Writes.  update_task_status and update_step_status re-read the row and  *)
(* refuse an edge the status machine does not have; the error makes the    *)
(* executor return, which drops its registry guard.                        *)

Goto(d, p) == pc' = [pc EXCEPT ![d] = p]

WriteTask(d, s, next) ==
    IF <<taskStatus, s>> \in TaskEdges
    THEN taskStatus' = s /\ Goto(d, next)
    ELSE UNCHANGED taskStatus /\ Goto(d, "release")

WriteStep(d, i, s, next) ==
    IF <<stepStatus[i], s>> \in StepEdges
    THEN stepStatus' = [stepStatus EXCEPT ![i] = s] /\ Goto(d, next)
    ELSE UNCHANGED stepStatus /\ Goto(d, "release")

At(d, p) == pc[d] = p
others   == <<cVars, sVars, bounds>>

-----------------------------------------------------------------------------
(* LaunchTaskExecutor::run and retry_needs_human_step                      *)

\* try_register: insert-if-absent.  A retry that finds the slot taken fails
\* without touching anything.
Register(d) ==
    /\ slot = Free
    /\ \/ d = Runner /\ At(d, "spawned") /\ UNCHANGED retries
       \/ d # Runner /\ At(d, "idle") /\ retries < MaxRetries /\ retries' = retries + 1
    /\ slot' = d /\ Goto(d, "load")
    /\ UNCHANGED <<dbVars, cancelled, cacheRun, loc, cVars, sVars, crashes, faults, cancels>>

\* The spawned run finds the slot taken and gives up for good.
RegisterRejected(d) ==
    /\ At(d, "spawned") /\ slot # Free
    /\ Goto(d, "idle")
    /\ UNCHANGED <<dbVars, memVars, loc, others>>

RetryAllowed ==
    /\ taskStatus = "NeedsHuman" /\ currentStep # None
    /\ stepStatus[currentStep] = "NeedsHuman"

\* Read the task and its steps; the loop works on this snapshot.
Load(d) ==
    /\ At(d, "load")
    /\ \/ d = Runner /\ taskStatus = "Pending" /\ Goto(d, "start")
          /\ loc' = [loc EXCEPT ![d].snap = stepStatus]
       \/ d # Runner /\ RetryAllowed /\ Goto(d, "beginRetry")
          /\ loc' = [loc EXCEPT ![d].snap = stepStatus, ![d].step = currentStep]
       \/ ~(d = Runner /\ taskStatus = "Pending") /\ ~(d # Runner /\ RetryAllowed)
          /\ Goto(d, "release") /\ UNCHANGED loc
    /\ UNCHANGED <<dbVars, memVars, others>>

Start(d) ==
    /\ At(d, "start") /\ WriteTask(d, "Running", "drive")
    /\ UNCHANGED <<currentStep, stepStatus, stepExtra, runState, memVars, loc, others>>

\* Mutant: the retry moves the step and forgets the task.
BeginRetryStepOnly(d) ==
    LET i == loc[d].step IN
    /\ At(d, "beginRetry") /\ Goto(d, "ensure")
    /\ stepStatus' = [stepStatus EXCEPT ![i] = "Running"]
    /\ loc' = [loc EXCEPT ![d].segs = resumeCount[i]]
    /\ UNCHANGED <<taskStatus, currentStep, stepExtra, runState, memVars, others>>

\* begin_retry moves step, task and current_step_id in one transaction.  The
\* resume key is used on the fix_forward path and ignored on the fresh one.
BeginRetry(d) ==
    LET i == loc[d].step IN
    /\ At(d, "beginRetry")
    /\ IF <<stepStatus[i], "Running">> \in StepEdges /\ <<taskStatus, "Running">> \in TaskEdges
       THEN /\ taskStatus' = "Running" /\ currentStep' = i
            /\ stepStatus' = [stepStatus EXCEPT ![i] = "Running"]
            /\ \E key \in {FALSE, resumeKey[i]} :
                 loc' = [loc EXCEPT ![d] = [@ EXCEPT !.segs = resumeCount[i], !.prev = FALSE, !.resume = key]]
            /\ Goto(d, "ensure")
       ELSE UNCHANGED <<taskVars, loc>> /\ Goto(d, "release")
    /\ UNCHANGED <<stepExtra, runState, memVars, others>>

\* One turn of drive_pending_steps at step i: past the end, already
\* terminal, disabled, left over from another execution, cancelled, or next.
Drive(d) ==
    LET i == loc[d].step
        advance == loc' = [loc EXCEPT ![d].step = i + 1]
    IN
    /\ At(d, "drive")
    /\ \/ /\ i > NumSteps
          /\ Goto(d, "clear") /\ UNCHANGED <<taskStatus, stepStatus, loc>>
       \/ /\ i \in Steps /\ loc[d].snap[i] \in StepTerminal
          /\ advance /\ UNCHANGED <<taskStatus, stepStatus, pc>>
       \/ /\ i \in Steps \ Enabled /\ loc[d].snap[i] \notin StepTerminal
          /\ WriteStep(d, i, "Skipped", "drive") /\ advance /\ UNCHANGED taskStatus
       \/ /\ i \in Enabled /\ loc[d].snap[i] \in Active
          /\ WriteTask(d, "NeedsHuman", "release") /\ UNCHANGED <<stepStatus, loc>>
       \/ /\ i \in Enabled /\ loc[d].snap[i] = "Pending"
          /\ Goto(d, IF cancelled[d] THEN "cancelTask" ELSE "setCurrent")
          /\ UNCHANGED <<taskStatus, stepStatus, loc>>
    /\ UNCHANGED <<currentStep, stepExtra, runState, memVars, others>>

\* Mutant: the pointer is a 0-based index plus two.
SetCurrentNext(d) ==
    /\ At(d, "setCurrent") /\ currentStep' = loc[d].step + 1 /\ Goto(d, "stepRunning")
    /\ UNCHANGED <<taskStatus, stepStatus, stepExtra, runState, memVars, loc, others>>

SetCurrent(d) ==
    /\ At(d, "setCurrent") /\ currentStep' = loc[d].step /\ Goto(d, "stepRunning")
    /\ UNCHANGED <<taskStatus, stepStatus, stepExtra, runState, memVars, loc, others>>

StepRunning(d) ==
    /\ At(d, "stepRunning") /\ WriteStep(d, loc[d].step, "Running", "ensure")
    /\ loc' = [loc EXCEPT ![d] = [@ EXCEPT !.segs = resumeCount[loc[d].step], !.prev = FALSE, !.resume = FALSE]]
    /\ UNCHANGED <<taskStatus, currentStep, stepExtra, runState, memVars, others>>

\* Between two steps cancellation flips the task row only.
CancelTask(d) ==
    /\ At(d, "cancelTask") /\ WriteTask(d, "Cancelled", "release")
    /\ UNCHANGED <<currentStep, stepStatus, stepExtra, runState, memVars, loc, others>>

ClearCurrent(d) ==
    /\ At(d, "clear") /\ currentStep' = None /\ Goto(d, "complete")
    /\ UNCHANGED <<taskStatus, stepStatus, stepExtra, runState, memVars, loc, others>>

Complete(d) ==
    /\ At(d, "complete") /\ WriteTask(d, "Completed", "finalize")
    /\ loc' = [loc EXCEPT ![d].fin = "Completed"]
    /\ UNCHANGED <<currentStep, stepStatus, stepExtra, runState, memVars, others>>

-----------------------------------------------------------------------------
(* RealStepRunner::run_step                                                *)

\* Mutant: every step mints its own run.
EnsureRunAlways(d) ==
    /\ At(d, "ensure") /\ Goto(d, "cache")
    /\ \E r \in RunIds :
         /\ runState[r] = "Absent"
         /\ runState' = [runState EXCEPT ![r] = "Live"]
         /\ loc' = [loc EXCEPT ![d].run = r]
    /\ UNCHANGED <<taskVars, stepExtra, memVars, others>>

\* ensure_shadow_run: reuse the cached run, or insert a new one ...
EnsureRun(d) ==
    /\ At(d, "ensure")
    /\ \/ /\ cacheRun # None /\ Goto(d, "link")
          /\ loc' = [loc EXCEPT ![d].run = cacheRun] /\ UNCHANGED runState
       \/ /\ cacheRun = None /\ Goto(d, "cache")
          /\ \E r \in RunIds :
               /\ runState[r] = "Absent" /\ \A q \in RunIds : q < r => runState[q] # "Absent"
               /\ runState' = [runState EXCEPT ![r] = "Live"]
               /\ loc' = [loc EXCEPT ![d].run = r]
    /\ UNCHANGED <<taskVars, stepExtra, memVars, others>>

\* ... or fail before inserting it (clone, worktree or insert error): a
\* SpawnError whose links are empty.
EnsureRunFails(d) ==
    /\ At(d, "ensure") /\ cacheRun = None /\ Goto(d, "record")
    /\ loc' = [loc EXCEPT ![d].run = None, ![d].out = SpawnError]
    /\ UNCHANGED <<dbVars, memVars, others>>

\* ... and, after the skills are materialised, remember it.  First writer wins.
CacheRun(d) ==
    LET r == IF cacheRun = None THEN loc[d].run ELSE cacheRun IN
    /\ At(d, "cache") /\ Goto(d, "link")
    /\ cacheRun' = r /\ loc' = [loc EXCEPT ![d].run = r]
    /\ UNCHANGED <<dbVars, slot, cancelled, others>>

LinkRun(d) ==
    /\ At(d, "link") /\ Goto(d, "phase")
    /\ stepLink' = [stepLink EXCEPT ![loc[d].step] = loc[d].run]
    /\ UNCHANGED <<taskVars, resumeCount, resumeKey, runState, memVars, loc, others>>

\* set_shadow_run_state writes the phase over whatever state the run is in.
WritePhase(d) ==
    /\ At(d, "phase") /\ Goto(d, "spawn")
    /\ runState' = [runState EXCEPT ![loc[d].run] = "Live"]
    /\ UNCHANGED <<taskVars, stepExtra, memVars, loc, others>>

\* From the run_step insert to the agent process: started, or SpawnError.
Spawn(d) ==
    /\ At(d, "spawn")
    /\ \/ Goto(d, "agent") /\ UNCHANGED loc
       \/ Goto(d, "record") /\ loc' = [loc EXCEPT ![d].out = SpawnError]
    /\ UNCHANGED <<dbVars, memVars, others>>

\* The agent exits by itself or at its time limit; process_completion
\* classifies it.  `moved`: the worktree diff differs from the last segment's.
AgentEnds(d) ==
    /\ At(d, "agent") /\ Goto(d, "record")
    /\ \E o \in Outcomes : loc' = [loc EXCEPT ![d].out = o]
    /\ UNCHANGED <<dbVars, memVars, others>>

\* Mutant: the runner only waits for the agent.
CancelArmIgnored(d) ==
    At(d, "agent") /\ cancelled[d] /\ UNCHANGED vars

\* The other arm of the select!: the token fired.
CancelArm(d) ==
    /\ At(d, "agent") /\ cancelled[d] /\ Goto(d, "cancelShadow")
    /\ UNCHANGED <<dbVars, memVars, loc, others>>

CancelShadow(d) ==
    /\ At(d, "cancelShadow") /\ Goto(d, "haltStep")
    /\ runState' = [runState EXCEPT ![loc[d].run] = "Cancelled"]
    /\ UNCHANGED <<taskVars, stepExtra, memVars, loc, others>>

-----------------------------------------------------------------------------
(* handle_step_outcome, the auto-resume loop and the ways a step halts     *)

\* The runner's bookkeeping on the run may fail: the early link and the
\* state writes are logged and skipped, an unreadable run is a runner error.
ShadowUpdateFails(d) ==
    /\ "shadow" \in FaultKinds /\ faults < MaxFaults /\ faults' = faults + 1
    /\ \/ At(d, "link") /\ Goto(d, "phase")
       \/ At(d, "phase") /\ Goto(d, "spawn")
       \/ At(d, "phase") /\ Goto(d, "route")
       \/ At(d, "cancelShadow") /\ Goto(d, "haltStep")
    /\ loc' = [loc EXCEPT ![d].out = SpawnError]
    /\ UNCHANGED <<dbVars, memVars, cVars, sVars, crashes, retries, cancels>>

\* record_step_links, the first thing done with any outcome.
RecordLinks(d) ==
    LET i == loc[d].step IN
    /\ At(d, "record")
    /\ stepLink' = IF loc[d].run = None THEN stepLink ELSE [stepLink EXCEPT ![i] = loc[d].run]
    /\ \/ loc[d].out.kind = "Completed" /\ Goto(d, "finish")
       \/ loc[d].out.kind = "TimedOut" /\ Goto(d, "timedOut")
       \/ loc[d].out.kind \in {"NeedsHuman", "Failed"} /\ Goto(d, "route")
    /\ UNCHANGED <<taskVars, resumeCount, resumeKey, runState, memVars, loc, others>>

FinishStep(d) ==
    /\ At(d, "finish") /\ WriteStep(d, loc[d].step, "Completed", "drive")
    /\ loc' = [loc EXCEPT ![d].step = @ + 1, ![d].out = SpawnError]
    /\ UNCHANGED <<taskStatus, currentStep, stepExtra, runState, memVars, others>>

\* A halt looks at the token once, before it writes anything.
RouteHalt(d) ==
    /\ At(d, "route") /\ Goto(d, IF cancelled[d] THEN "haltStep" ELSE "parkStep")
    /\ UNCHANGED <<dbVars, memVars, loc, others>>

\* Mutant: no budget gate.
MayResumeForever(d) ==
    ~(loc[d].prev /\ ~loc[d].out.moved) /\ loc[d].out.key

\* decide_resume: budget left, the diff moved, a resume key was captured.
MayResume(d) ==
    /\ loc[d].segs < Budget[loc[d].step]
    /\ ~(loc[d].prev /\ ~loc[d].out.moved)
    /\ loc[d].out.key

DecideResume(d) ==
    /\ At(d, "timedOut")
    /\ \/ cancelled[d] /\ Goto(d, "haltStep")
       \/ ~cancelled[d] /\ MayResume(d) /\ Goto(d, "persistResume")
       \/ ~cancelled[d] /\ ~MayResume(d) /\ Goto(d, "persistPark")
    /\ UNCHANGED <<dbVars, memVars, loc, others>>

PersistResume(d) ==
    LET i == loc[d].step  n == loc[d].segs + 1 IN
    /\ At(d, "persistResume") /\ Goto(d, "ensure")
    /\ resumeCount' = [resumeCount EXCEPT ![i] = n]
    /\ resumeKey' = [resumeKey EXCEPT ![i] = TRUE]
    /\ loc' = [loc EXCEPT ![d] = [@ EXCEPT !.segs = n, !.prev = TRUE, !.resume = TRUE, !.out = SpawnError]]
    /\ UNCHANGED <<taskVars, stepLink, runState, memVars, others>>

PersistPark(d) ==
    LET i == loc[d].step IN
    /\ At(d, "persistPark") /\ Goto(d, "parkStep")
    /\ resumeCount' = [resumeCount EXCEPT ![i] = loc[d].segs]
    /\ resumeKey' = [resumeKey EXCEPT ![i] = loc[d].out.key]
    /\ UNCHANGED <<taskVars, stepLink, runState, memVars, loc, others>>

Disposition(d) == IF loc[d].out.kind = "Failed" THEN "Failed" ELSE "NeedsHuman"

\* Mutant: the executor returns without the task write.
ParkStepOnly(d) ==
    /\ At(d, "parkStep") /\ WriteStep(d, loc[d].step, Disposition(d), "release")
    /\ UNCHANGED <<taskStatus, currentStep, stepExtra, runState, memVars, loc, others>>

\* Mutant: the step fails for good while its task waits for a human.
ParkStepFailed(d) ==
    /\ At(d, "parkStep") /\ WriteStep(d, loc[d].step, "Failed", "parkTask")
    /\ UNCHANGED <<taskStatus, currentStep, stepExtra, runState, memVars, loc, others>>

ParkStep(d) ==
    /\ At(d, "parkStep") /\ WriteStep(d, loc[d].step, Disposition(d), "parkTask")
    /\ UNCHANGED <<taskStatus, currentStep, stepExtra, runState, memVars, loc, others>>

\* Mutant: the loop goes on to the next step after a halt.
ParkTaskContinues(d) ==
    /\ At(d, "parkTask") /\ Goto(d, "drive")
    /\ loc' = [loc EXCEPT ![d].step = @ + 1]
    /\ UNCHANGED <<taskVars, stepExtra, runState, memVars, others>>

ParkTask(d) ==
    /\ At(d, "parkTask")
    /\ WriteTask(d, Disposition(d), IF Disposition(d) = "Failed" THEN "finalize" ELSE "release")
    /\ loc' = [loc EXCEPT ![d].fin = "Failed"]
    /\ UNCHANGED <<currentStep, stepStatus, stepExtra, runState, memVars, others>>

HaltStep(d) ==
    /\ At(d, "haltStep") /\ WriteStep(d, loc[d].step, "Cancelled", "haltTask")
    /\ UNCHANGED <<taskStatus, currentStep, stepExtra, runState, memVars, loc, others>>

HaltTask(d) ==
    /\ At(d, "haltTask") /\ WriteTask(d, "Cancelled", "finalize")
    /\ loc' = [loc EXCEPT ![d].fin = "Cancelled"]
    /\ UNCHANGED <<currentStep, stepStatus, stepExtra, runState, memVars, others>>

\* finalize_task_shadow_run: resolve the run, and stop if it is terminal ...
Finalize(d) ==
    /\ At(d, "finalize")
    /\ \/ ~ (\E r \in RunIds : ShadowRun(r) /\ runState[r] = "Live")
          /\ Goto(d, "release") /\ UNCHANGED loc
       \/ \E r \in RunIds :
             /\ ShadowRun(r) /\ runState[r] = "Live"
             /\ Goto(d, "finalWrite") /\ loc' = [loc EXCEPT ![d].run = r]
    /\ UNCHANGED <<dbVars, memVars, others>>

\* ... then overwrite the row that was read.
FinalWrite(d) ==
    /\ At(d, "finalWrite") /\ Goto(d, "release")
    /\ runState' = [runState EXCEPT ![loc[d].run] = loc[d].fin]
    /\ UNCHANGED <<taskVars, stepExtra, memVars, loc, others>>

FinalizeFails(d) ==
    /\ "finalize" \in FaultKinds /\ faults < MaxFaults /\ faults' = faults + 1
    /\ pc[d] \in {"finalize", "finalWrite"} /\ Goto(d, "release")
    /\ UNCHANGED <<dbVars, memVars, loc, cVars, sVars, crashes, retries, cancels>>

\* The registry guard and the token are dropped.
Unregister(d) ==
    /\ slot' = Free /\ cancelled' = [cancelled EXCEPT ![d] = FALSE]
    /\ pc' = [pc EXCEPT ![d] = "idle"] /\ loc' = [loc EXCEPT ![d] = NoLocals]

Release(d) ==
    /\ At(d, "release") /\ Unregister(d)
    /\ UNCHANGED <<dbVars, cacheRun, others>>

\* A storage error returned with `?`, a panic, or a retry handler dropped
\* with its connection: the future is gone and only the guard runs.
Holding == {"load", "start", "beginRetry", "drive", "setCurrent", "stepRunning", "cancelTask",
            "clear", "complete", "ensure", "cache", "link", "phase", "spawn", "agent",
            "cancelShadow", "record", "finish", "route", "timedOut", "persistResume",
            "persistPark", "parkStep", "parkTask", "haltStep", "haltTask", "finalize",
            "finalWrite", "release"}

Abort(d) ==
    /\ "abort" \in FaultKinds /\ faults < MaxFaults /\ faults' = faults + 1
    /\ pc[d] \in Holding /\ Unregister(d)
    /\ UNCHANGED <<dbVars, cacheRun, cVars, sVars, crashes, retries, cancels>>

-----------------------------------------------------------------------------
(* LaunchTaskExecutor::cancel, alone or inside RunService::cancel_run      *)

CGoto(c, p) == cpc' = [cpc EXCEPT ![c] = p]
cOthers     == <<dVars, sVars, bounds>>

RequestCancel(c) ==
    /\ "task" \in CancelKinds /\ cpc[c] = "idle" /\ cancels < MaxCancels
    /\ cancels' = cancels + 1 /\ CGoto(c, "exec")
    /\ UNCHANGED <<dbVars, memVars, dVars, cloc, sVars, crashes, faults, retries>>

\* cancel_run reads the run and ignores a terminal one.
RequestCancelRun(c) ==
    /\ "run" \in CancelKinds /\ cpc[c] = "idle" /\ cancels < MaxCancels
    /\ \E r \in RunIds : runState[r] = "Live" /\ cloc' = [cloc EXCEPT ![c].run = r]
    /\ cancels' = cancels + 1 /\ CGoto(c, "find")
    /\ UNCHANGED <<dbVars, memVars, dVars, sVars, crashes, faults, retries>>

\* It goes through the launch task only when the owning step is active.
CancelRunFindStep(c) ==
    /\ cpc[c] = "find" /\ CGoto(c, IF OwnerActive(cloc[c].run) THEN "exec" ELSE "runWrite")
    /\ UNCHANGED <<dbVars, memVars, cloc, cOthers>>

\* Where a request goes once executor.cancel returns.
AfterCancel(c) == IF cloc[c].run = None THEN "idle" ELSE "refresh"
Leave(c) == CGoto(c, AfterCancel(c)) /\ cloc' = [cloc EXCEPT ![c].todo = {}, ![c].shadow = None]

\* cancel_or_reserve, slot occupied: the holder's token is cancelled (the
\* token of a sweeper or of another reservation has no reader).
CancelSignal(c) ==
    /\ cpc[c] = "exec" /\ slot # Free
    /\ cancelled' = [d \in Drivers |-> cancelled[d] \/ d = slot]
    /\ Leave(c)
    /\ UNCHANGED <<dbVars, slot, cacheRun, cOthers>>

\* Mutant: probe and reserve are two steps, and the reservation overwrites.
CancelReserveOver(c) ==
    /\ cpc[c] = "exec" /\ slot' = c /\ CGoto(c, "load")
    /\ UNCHANGED <<dbVars, cancelled, cacheRun, cloc, cOthers>>

\* cancel_or_reserve, slot vacant: reserve it.
CancelReserve(c) ==
    /\ cpc[c] = "exec" /\ slot = Free
    /\ slot' = c /\ CGoto(c, "load")
    /\ UNCHANGED <<dbVars, cancelled, cacheRun, cloc, cOthers>>

CancelLoad(c) ==
    /\ cpc[c] = "load"
    /\ IF taskStatus \in TaskTerminal
       THEN CGoto(c, "release") /\ UNCHANGED cloc
       ELSE /\ CGoto(c, "steps")
            /\ cloc' = [cloc EXCEPT ![c].todo =
                          {i \in Steps : stepStatus[i] \in Active}]
    /\ UNCHANGED <<dbVars, memVars, cOthers>>

\* Cancel one active step; a refused or failed write is logged and skipped.
CancelOneStep(c) ==
    /\ cpc[c] = "steps"
    /\ \E i \in cloc[c].todo :
         /\ stepStatus' = IF <<stepStatus[i], "Cancelled">> \in StepEdges
                          THEN [stepStatus EXCEPT ![i] = "Cancelled"] ELSE stepStatus
         /\ cloc' = [cloc EXCEPT ![c].todo = @ \ {i}]
    /\ UNCHANGED <<taskStatus, currentStep, stepExtra, runState, memVars, cpc, cOthers>>

CancelOneStepFails(c) ==
    /\ "stepWrite" \in FaultKinds /\ faults < MaxFaults /\ faults' = faults + 1
    /\ cpc[c] = "steps"
    /\ \E i \in cloc[c].todo : cloc' = [cloc EXCEPT ![c].todo = @ \ {i}]
    /\ UNCHANGED <<dbVars, memVars, dVars, cpc, sVars, crashes, retries, cancels>>

CancelTaskRow(c) ==
    /\ cpc[c] = "steps" /\ cloc[c].todo = {}
    /\ IF <<taskStatus, "Cancelled">> \in TaskEdges
       THEN taskStatus' = "Cancelled" /\ CGoto(c, "finalize")
       ELSE UNCHANGED taskStatus /\ CGoto(c, "release")
    /\ UNCHANGED <<currentStep, stepStatus, stepExtra, runState, memVars, cloc, cOthers>>

CancelFinalize(c) ==
    /\ cpc[c] = "finalize"
    /\ \/ ~ (\E r \in RunIds : ShadowRun(r) /\ runState[r] = "Live")
          /\ CGoto(c, "release") /\ UNCHANGED cloc
       \/ \E r \in RunIds :
             /\ ShadowRun(r) /\ runState[r] = "Live"
             /\ CGoto(c, "finalWrite") /\ cloc' = [cloc EXCEPT ![c].shadow = r]
    /\ UNCHANGED <<dbVars, memVars, cOthers>>

CancelFinalWrite(c) ==
    /\ cpc[c] = "finalWrite" /\ CGoto(c, "release")
    /\ runState' = [runState EXCEPT ![cloc[c].shadow] = "Cancelled"]
    /\ UNCHANGED <<taskVars, stepExtra, memVars, cloc, cOthers>>

CancelRelease(c) ==
    /\ cpc[c] = "release" /\ slot' = Free /\ Leave(c)
    /\ UNCHANGED <<dbVars, cancelled, cacheRun, cOthers>>

\* Back in cancel_run: reload the run, and cancel it if it is not terminal.
CancelRunRefresh(c) ==
    /\ cpc[c] = "refresh"
    /\ IF runState[cloc[c].run] = "Live"
       THEN CGoto(c, "runWrite") /\ UNCHANGED cloc
       ELSE CGoto(c, "idle") /\ cloc' = [cloc EXCEPT ![c] = NoCancel]
    /\ UNCHANGED <<dbVars, memVars, cOthers>>

CancelRunWrite(c) ==
    /\ cpc[c] = "runWrite" /\ CGoto(c, "idle") /\ cloc' = [cloc EXCEPT ![c] = NoCancel]
    /\ runState' = [runState EXCEPT ![cloc[c].run] = "Cancelled"]
    /\ UNCHANGED <<taskVars, stepExtra, memVars, cOthers>>

Reserving == {"load", "steps", "finalize", "finalWrite", "release"}

\* An error in the reserved path, or its handler dropped.
CancelAbort(c) ==
    /\ "abort" \in FaultKinds /\ faults < MaxFaults /\ faults' = faults + 1
    /\ cpc[c] \in Reserving /\ slot' = Free
    /\ CGoto(c, "idle") /\ cloc' = [cloc EXCEPT ![c] = NoCancel]
    /\ UNCHANGED <<dbVars, cancelled, cacheRun, dVars, sVars, crashes, retries, cancels>>

-----------------------------------------------------------------------------
(* reconcile_launch_task_orphans, one enumerated run at a time             *)

sOthers == <<dVars, cVars, bounds>>

SweepPick(r) ==
    /\ spc = "idle" /\ runState[r] = "Live"
    /\ spc' = "classify" /\ sloc' = [NoSweep EXCEPT !.run = r]
    /\ UNCHANGED <<dbVars, memVars, sOthers>>

SweepTo(p, fin) == spc' = p /\ sloc' = [sloc EXCEPT !.fin = fin]

\* No owning step: an orphan run.  Parked: left alone.  Terminal task: a
\* stranded run.  Otherwise an orphan unless an executor holds the slot.
SweepClassify ==
    /\ spc = "classify"
    /\ \/ Linking(sloc.run) = {} /\ SweepTo("finalize", "Failed")
       \/ /\ Linking(sloc.run) # {}
          /\ \/ taskStatus = "NeedsHuman" /\ SweepTo("done", sloc.fin)
             \/ taskStatus \in TaskTerminal /\ SweepTo("finalize", taskStatus)
             \/ taskStatus \in {"Pending", "Running"} /\ SweepTo("gate", sloc.fin)
    /\ UNCHANGED <<dbVars, memVars, sOthers>>

SweepGate ==
    /\ spc = "gate"
    /\ IF slot = Free THEN slot' = Sweeper /\ spc' = "reload" ELSE UNCHANGED slot /\ spc' = "done"
    /\ UNCHANGED <<dbVars, cancelled, cacheRun, sloc, sOthers>>

\* Mutant: a running task is taken for a live one after the gate too.
SweepReloadTimid ==
    /\ spc = "reload"
    /\ IF taskStatus \in TaskTerminal THEN SweepTo("finalize", taskStatus) ELSE SweepTo("done", sloc.fin)
    /\ UNCHANGED <<dbVars, memVars, sOthers>>

SweepReload ==
    /\ spc = "reload"
    /\ \/ taskStatus \in TaskTerminal /\ SweepTo("finalize", taskStatus)
       \/ taskStatus = "NeedsHuman" /\ SweepTo("done", sloc.fin)
       \/ /\ taskStatus \in {"Pending", "Running"}
          /\ spc' = "failStep" /\ sloc' = [sloc EXCEPT !.step = currentStep]
    /\ UNCHANGED <<dbVars, memVars, sOthers>>

SweepFailStep ==
    /\ spc = "failStep" /\ spc' = "failTask"
    /\ stepStatus' = IF sloc.step # None /\ <<stepStatus[sloc.step], "Failed">> \in StepEdges
                     THEN [stepStatus EXCEPT ![sloc.step] = "Failed"] ELSE stepStatus
    /\ UNCHANGED <<taskStatus, currentStep, stepExtra, runState, memVars, sloc, sOthers>>

\* Failing the step is best effort: an error is logged, the task fails anyway.
SweepFailStepFails ==
    /\ "stepWrite" \in FaultKinds /\ faults < MaxFaults /\ faults' = faults + 1
    /\ spc = "failStep" /\ spc' = "failTask"
    /\ UNCHANGED <<dbVars, memVars, dVars, cVars, sloc, crashes, retries, cancels>>

SweepFailTask ==
    /\ spc = "failTask"
    /\ IF <<taskStatus, "Failed">> \in TaskEdges
       THEN taskStatus' = "Failed" /\ SweepTo("finalize", "Failed")
       ELSE UNCHANGED taskStatus /\ SweepTo("done", sloc.fin)
    /\ UNCHANGED <<currentStep, stepStatus, stepExtra, runState, memVars, sOthers>>

SweepFinalize ==
    /\ spc = "finalize"
    /\ spc' = IF runState[sloc.run] = "Live" THEN "finalWrite" ELSE "done"
    /\ UNCHANGED <<dbVars, memVars, sloc, sOthers>>

SweepFinalWrite ==
    /\ spc = "finalWrite" /\ spc' = "done"
    /\ runState' = [runState EXCEPT ![sloc.run] = sloc.fin]
    /\ UNCHANGED <<taskVars, stepExtra, memVars, sloc, sOthers>>

SweepDone ==
    /\ spc = "done" /\ spc' = "idle" /\ sloc' = NoSweep
    /\ slot' = IF slot = Sweeper THEN Free ELSE slot
    /\ UNCHANGED <<dbVars, cancelled, cacheRun, sOthers>>

\* A repository error ends the reconciliation of this run.
SweepAbort ==
    /\ "abort" \in FaultKinds /\ faults < MaxFaults /\ faults' = faults + 1
    /\ spc \notin {"idle", "done"} /\ spc' = "done"
    /\ UNCHANGED <<dbVars, memVars, dVars, cVars, sloc, crashes, retries, cancels>>

-----------------------------------------------------------------------------
\* The server restarts: rows survive, memory and every actor do not, and
\* nothing spawns the executor of an existing task again.
Crash ==
    /\ crashes < MaxCrashes /\ crashes' = crashes + 1
    /\ slot' = Free /\ cancelled' = [d \in Drivers |-> FALSE] /\ cacheRun' = None
    /\ pc' = [d \in Drivers |-> "idle"] /\ loc' = [d \in Drivers |-> NoLocals]
    /\ cpc' = [c \in Cancellers |-> "idle"] /\ cloc' = [c \in Cancellers |-> NoCancel]
    /\ spc' = "idle" /\ sloc' = NoSweep
    /\ UNCHANGED <<dbVars, faults, retries, cancels>>

\* What a driver does by itself once its request is accepted.
Work(d) ==
    \/ Load(d) \/ Start(d) \/ BeginRetry(d) \/ Drive(d)
    \/ SetCurrent(d) \/ StepRunning(d) \/ CancelTask(d) \/ ClearCurrent(d) \/ Complete(d)
    \/ EnsureRun(d) \/ EnsureRunFails(d) \/ CacheRun(d) \/ LinkRun(d) \/ WritePhase(d)
    \/ Spawn(d) \/ CancelArm(d) \/ CancelShadow(d) \/ RecordLinks(d) \/ FinishStep(d)
    \/ RouteHalt(d) \/ DecideResume(d) \/ PersistResume(d) \/ PersistPark(d)
    \/ ParkStep(d) \/ ParkTask(d) \/ HaltStep(d) \/ HaltTask(d)
    \/ Finalize(d) \/ FinalWrite(d)

DriverStep(d) == RegisterRejected(d) \/ Work(d) \/ Release(d)

DriverFault(d) == ShadowUpdateFails(d) \/ FinalizeFails(d) \/ Abort(d)

CancelStep(c) ==
    \/ CancelRunFindStep(c) \/ CancelSignal(c) \/ CancelReserve(c) \/ CancelLoad(c)
    \/ CancelOneStep(c) \/ CancelTaskRow(c) \/ CancelFinalize(c) \/ CancelFinalWrite(c)
    \/ CancelRelease(c) \/ CancelRunRefresh(c) \/ CancelRunWrite(c)

CancelRequest(c) == RequestCancel(c) \/ RequestCancelRun(c)
CancelFault(c)   == CancelOneStepFails(c) \/ CancelAbort(c)

SweepStep ==
    \/ SweepClassify \/ SweepGate \/ SweepReload \/ SweepFailStep \/ SweepFailTask
    \/ SweepFinalize \/ SweepFinalWrite \/ SweepDone

Next ==
    \/ \E d \in Drivers : Register(d) \/ DriverStep(d) \/ AgentEnds(d) \/ DriverFault(d)
    \/ \E c \in Cancellers : CancelRequest(c) \/ CancelStep(c) \/ CancelFault(c)
    \/ \E r \in RunIds : SweepPick(r)
    \/ SweepStep \/ SweepFailStepFails \/ SweepAbort
    \/ Crash

\* A started handler keeps running; nothing forces an agent to exit.
HandlerFairness ==
    /\ WF_vars(Register(Runner))
    /\ \A d \in Drivers : WF_vars(DriverStep(d))
    /\ \A c \in Cancellers : WF_vars(CancelStep(c))

\* Every agent runs under a wall-clock limit, and is taken not to come to one of
\* the waits (Supervisor's Stands) where nobody listens to it.
AgentFairness == \A d \in Drivers : WF_vars(AgentEnds(d))

\* The sweep ticks for ever and each pass visits every non-terminal run.
SweepFairness == WF_vars(SweepStep) /\ \A r \in RunIds : SF_vars(SweepPick(r))

Spec     == Init /\ [][Next]_vars
FairSpec == Spec /\ HandlerFairness /\ SweepFairness
=============================================================================
