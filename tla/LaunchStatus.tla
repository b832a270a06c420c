---------------------------- MODULE LaunchStatus ----------------------------
(***************************************************************************)
(* The status machines of superkick-core that a launch task moves through: *)
(* LaunchTaskStatus, LaunchTaskStepStatus, and the part of RunState a      *)
(* shadow run uses.                                                        *)
(***************************************************************************)
EXTENDS Integers

TaskStatuses == {"Pending", "Running", "NeedsHuman", "Completed", "Failed", "Cancelled"}
TaskTerminal == {"Completed", "Failed", "Cancelled"}
TaskEdges ==
    ({"Pending"} \X {"Running", "Cancelled", "Failed"})
    \cup ({"Running"} \X {"NeedsHuman", "Completed", "Failed", "Cancelled"})
    \cup ({"NeedsHuman"} \X {"Running", "Cancelled", "Failed"})

StepStatuses == TaskStatuses \cup {"Skipped"}
StepTerminal == {"Completed", "Failed", "Skipped", "Cancelled"}
StepEdges ==
    ({"Pending"} \X {"Running", "Skipped", "Cancelled", "Failed"})
    \cup ({"Running"} \X {"Completed", "Failed", "NeedsHuman", "Cancelled"})
    \cup ({"NeedsHuman"} \X {"Running", "Cancelled", "Failed"})

\* A step in one of these waits for an agent or for a human.
Active == {"Running", "NeedsHuman"}

\* "Live" stands for Preparing, Planning, Coding and Reviewing.
RunStates   == {"Absent", "Live", "Completed", "Failed", "Cancelled"}
RunTerminal == TaskTerminal
=============================================================================
