--------------------------- MODULE LaunchTaskProps --------------------------
(***************************************************************************)
(* What the launch-task executor, its registry and its liveness sweep      *)
(* promise about the persisted rows, whatever order the actors run in.     *)
(***************************************************************************)
EXTENDS LaunchTask

DriverPCs == Holding \cup {"spawned", "idle"}
CancelPCs == Reserving \cup {"idle", "find", "exec", "refresh", "runWrite"}
SweepPCs  == {"idle", "classify", "gate", "reload", "failStep", "failTask",
              "finalize", "finalWrite", "done"}

Locals == [step : Nat, snap : [Steps -> StepStatuses], segs : Nat, prev : BOOLEAN,
           resume : BOOLEAN, run : RunIds \cup {None}, out : Outcomes, fin : RunTerminal]
CancelLocals == [run : RunIds \cup {None}, todo : SUBSET Steps, shadow : RunIds \cup {None}]
SweepLocals  == [run : RunIds \cup {None}, step : Steps \cup {None}, fin : RunTerminal]

RowsOK ==
    /\ taskStatus \in TaskStatuses
    /\ currentStep \in Steps \cup {None}
    /\ stepStatus \in [Steps -> StepStatuses]
    /\ stepLink \in [Steps -> RunIds \cup {None}]
    /\ resumeCount \in [Steps -> Nat]
    /\ resumeKey \in [Steps -> BOOLEAN]
    /\ runState \in [RunIds -> RunStates]
MemoryOK ==
    /\ slot \in Drivers \cup Cancellers \cup {Sweeper, Free}
    /\ cancelled \in [Drivers -> BOOLEAN]
    /\ cacheRun \in RunIds \cup {None}
PCsOK ==
    /\ pc \in [Drivers -> DriverPCs]
    /\ cpc \in [Cancellers -> CancelPCs]
    /\ spc \in SweepPCs
LocalsOK ==
    /\ loc \in [Drivers -> Locals]
    /\ cloc \in [Cancellers -> CancelLocals]
    /\ sloc \in SweepLocals
BoundsOK == crashes \in Nat /\ faults \in Nat /\ retries \in Nat /\ cancels \in Nat

\* Every row, registry entry, control point and local holds a value of its type.
TypeOK == RowsOK /\ MemoryOK /\ PCsOK /\ LocalsOK /\ BoundsOK

-----------------------------------------------------------------------------
(* Safety                                                                  *)

\* The registry gate is what every writer of the task and step rows holds:
\* a driver from its registration to its return, a canceller on the
\* reserved path, the sweeper while it fails an orphan.
Exclusive ==
    /\ \A d \in Drivers : pc[d] \in Holding => slot = d
    /\ \A c \in Cancellers : cpc[c] \in Reserving => slot = c
    /\ spc \in {"reload", "failStep", "failTask"} => slot = Sweeper

\* A task that nobody crashed or failed under is Running only while an
\* executor holds its registry entry, so the sweep finds no orphan.
RunningHasExecutor ==
    crashes + faults = 0 /\ taskStatus = "Running" => slot \in Drivers

\* A parked task can be retried: its current step is the one waiting.  A
\* restart or an error inside a cancel is the only way to lose that.
ParkedIsRetryable ==
    taskStatus = "NeedsHuman" /\ crashes + faults = 0 /\ slot \notin Cancellers => RetryAllowed

\* The auto-resume count never passes the step's budget, it is persisted
\* before the segment it pays for starts, and a segment that resumes a
\* session does so with a key that is persisted: a crash loses neither.
ResumeAccounted ==
    /\ \A i \in Steps : resumeCount[i] <= Budget[i]
    /\ \A d \in Drivers : pc[d] \in {"spawn", "agent"} =>
         /\ loc[d].segs = resumeCount[loc[d].step]
         /\ loc[d].resume => resumeKey[loc[d].step]

\* A retry re-enters the shadow run of the task: one task mints one run,
\* unless a restart or an error loses the cached id.
OneShadowRun ==
    crashes + faults = 0 =>
        \A q, r \in RunIds : runState[q] # "Absent" /\ runState[r] # "Absent" => q = r

\* The agent of a step runs while task and step are Running and the
\* current-step pointer names the step: what the UI shows is what executes.
AgentMatchesRows ==
    \A d \in Drivers : pc[d] = "agent" =>
        /\ taskStatus = "Running" /\ currentStep = loc[d].step
        /\ stepStatus[loc[d].step] = "Running"

-----------------------------------------------------------------------------
(* Action properties                                                       *)

\* The rows behave as LaunchTaskContract says, whatever the actors do: the
\* recipe runs in order, the current step is the active one, a task dies
\* with no step active, and what is terminal stays as it is.  Checked without
\* the "stepWrite" failure, which leaves a step active under a dead task.
Contract == INSTANCE LaunchTaskContract
                WITH NumSteps <- NumSteps, Enabled <- Enabled, taskStatus <- taskStatus,
                     currentStep <- currentStep, stepStatus <- stepStatus
RefinesContract == Contract!Spec

-----------------------------------------------------------------------------
(* Liveness                                                                *)

\* A signalled executor gives the slot back even if its agent never exits.
CancelReleases ==
    \A d \in Drivers : cancelled[d] ~> slot # d

\* A cancel that reserved the slot ends with the slot free again.
ReservationEnds ==
    \A c \in Cancellers : slot = c ~> slot # c

\* No executor holds the registry entry for ever, if every agent has a time
\* limit: auto-resume has a budget.
ExecutorEnds == AgentFairness => \A d \in Drivers : slot = d ~> slot # d

\* The registry slot of a task is always given back, by a cancel and by the
\* executor, so that it can be run, retried, cancelled and swept again.
SlotGivenBack == CancelReleases /\ ReservationEnds /\ ExecutorEnds

\* The live shadow run of a dead task is driven terminal.
StrandedRunReconciled ==
    \A r \in RunIds :
        (runState[r] = "Live" /\ Linking(r) # {} /\ taskStatus \in TaskTerminal) ~> runState[r] # "Live"

\* A running task without an executor is reconciled, as long as one of its
\* linked shadow runs is live.
OrphanReconciled ==
    (taskStatus = "Running" /\ slot = Free /\ \E r \in RunIds : Linking(r) # {} /\ runState[r] = "Live")
        ~> taskStatus # "Running"

\* The sweep is the safety net: after a restart or a failed write it ends
\* what is left running, task and run.
SweepReconciles == StrandedRunReconciled /\ OrphanReconciled

=============================================================================
