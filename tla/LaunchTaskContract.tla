------------------------- MODULE LaunchTaskContract -------------------------
(***************************************************************************)
(* What the rows of a launch task promise whoever reads them (the issue    *)
(* page, the launch queue, the retry and cancel endpoints): the recipe is  *)
(* worked through by one sequential executor, each row changes alone       *)
(* (begin_retry excepted), and current_step_id names the step that counts. *)
(* There are no actors, no registry and no memory here, and no crash shows *)
(* other than as a rest between two changes.                               *)
(***************************************************************************)
EXTENDS LaunchStatus

CONSTANTS NumSteps, Enabled

Steps == 1 .. NumSteps
None  == 0

VARIABLES taskStatus, currentStep, stepStatus
rows == <<taskStatus, currentStep, stepStatus>>

Settled(i) == stepStatus[i] \in {"Completed", "Skipped"}
\* Every step before i is settled: it is i's turn.
Turn(i)    == \A j \in Steps : j < i => Settled(j)

Init ==
    /\ taskStatus = "Pending" /\ currentStep = None
    /\ stepStatus = [i \in Steps |-> "Pending"]

StartTask ==
    /\ taskStatus = "Pending" /\ taskStatus' = "Running"
    /\ UNCHANGED <<currentStep, stepStatus>>

SkipStep(i) ==
    /\ taskStatus = "Running" /\ i \notin Enabled /\ Turn(i) /\ stepStatus[i] = "Pending"
    /\ stepStatus' = [stepStatus EXCEPT ![i] = "Skipped"]
    /\ UNCHANGED <<taskStatus, currentStep>>

PointTo(i) ==
    /\ taskStatus = "Running" /\ i \in Enabled /\ Turn(i) /\ stepStatus[i] = "Pending"
    /\ currentStep' = i
    /\ UNCHANGED <<taskStatus, stepStatus>>

BeginStep(i) ==
    /\ taskStatus = "Running" /\ currentStep = i /\ i \in Enabled /\ Turn(i)
    /\ stepStatus[i] = "Pending"
    /\ stepStatus' = [stepStatus EXCEPT ![i] = "Running"]
    /\ UNCHANGED <<taskStatus, currentStep>>

\* The current step finishes, parks, fails or is cancelled.
SettleStep(i, s) ==
    /\ taskStatus \notin TaskTerminal /\ currentStep = i
    /\ <<stepStatus[i], s>> \in StepEdges
    /\ stepStatus' = [stepStatus EXCEPT ![i] = s]
    /\ UNCHANGED <<taskStatus, currentStep>>

ParkTask ==
    /\ taskStatus = "Running" /\ currentStep # None /\ stepStatus[currentStep] = "NeedsHuman"
    /\ taskStatus' = "NeedsHuman"
    /\ UNCHANGED <<currentStep, stepStatus>>

Retry ==
    /\ taskStatus = "NeedsHuman" /\ currentStep # None /\ stepStatus[currentStep] = "NeedsHuman"
    /\ taskStatus' = "Running" /\ stepStatus' = [stepStatus EXCEPT ![currentStep] = "Running"]
    /\ UNCHANGED currentStep

\* A task dies only once nothing of it runs or waits for a human.
EndTask(s) ==
    /\ <<taskStatus, s>> \in TaskEdges
    /\ \A i \in Steps : stepStatus[i] \notin Active
    /\ taskStatus' = s
    /\ UNCHANGED <<currentStep, stepStatus>>

ClearCurrent ==
    /\ taskStatus = "Running" /\ \A i \in Steps : Settled(i)
    /\ currentStep' = None
    /\ UNCHANGED <<taskStatus, stepStatus>>

CompleteTask ==
    /\ taskStatus = "Running" /\ \A i \in Steps : Settled(i)
    /\ taskStatus' = "Completed"
    /\ UNCHANGED <<currentStep, stepStatus>>

Next ==
    \/ StartTask \/ ParkTask \/ Retry \/ ClearCurrent \/ CompleteTask
    \/ \E i \in Steps : SkipStep(i) \/ PointTo(i) \/ BeginStep(i)
    \/ \E i \in Steps, s \in {"Completed", "NeedsHuman", "Failed", "Cancelled"} : SettleStep(i, s)
    \/ \E s \in {"Failed", "Cancelled"} : EndTask(s)

Spec == Init /\ [][Next]_rows

-----------------------------------------------------------------------------
\* Every row holds a value of its type.
TypeOK ==
    /\ taskStatus \in TaskStatuses
    /\ currentStep \in Steps \cup {None}
    /\ stepStatus \in [Steps -> StepStatuses]

\* The recipe runs in sequence: a step has left Pending only if every
\* earlier step is Completed, or Skipped because the profile disables it.
RecipeOrder ==
    \A i, j \in Steps : i < j /\ stepStatus[j] # "Pending" => Settled(i)

\* At most one step is running or parked, and it is the one current_step_id
\* names: the step a retry re-enters and an orphan sweep fails.
ActiveIsCurrent ==
    \A i \in Steps : stepStatus[i] \in Active => currentStep = i

\* A terminal task leaves no step running or waiting for a human, and a
\* Completed one has settled all its steps.
TerminalTaskSettled ==
    /\ taskStatus \in TaskTerminal => \A i \in Steps : stepStatus[i] \notin Active
    /\ taskStatus = "Completed" => \A i \in Steps : Settled(i)

\* No terminal task or step moves again, not even to another terminal status.
TerminalIsFinal ==
    [][ /\ taskStatus \in TaskTerminal => taskStatus' = taskStatus
        /\ \A i \in Steps : stepStatus[i] \in StepTerminal => stepStatus'[i] = stepStatus[i] ]_rows
=============================================================================
