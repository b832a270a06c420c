--------------------------- MODULE SessionContract ---------------------------
(***************************************************************************)
(* What the observers of agent sessions rely on, whichever runner drives   *)
(* them: the status of each agent_sessions row, and the lifecycle phases   *)
(* published for it.  lossy: a write of a row may have failed.             *)
(***************************************************************************)
EXTENDS Sequences

CONSTANTS Sessions, EndPhases, RowOf(_)

VARIABLES row, phases, lossy

vars == <<row, phases, lossy>>

Init ==
    /\ row = [s \in Sessions |-> "absent"] /\ phases = [s \in Sessions |-> <<>>]
    /\ lossy = FALSE

Insert(s) ==
    /\ row[s] = "absent" /\ row' = [row EXCEPT ![s] = "starting"]
    /\ UNCHANGED <<phases, lossy>>

\* A row goes forward only, and once it is terminal it stays as it is.
Write(s) ==
    /\ \/ row[s] = "starting" /\ row' = [row EXCEPT ![s] = "running"]
       \/ /\ Len(phases[s]) = 2 /\ row[s] \in {"running"} \cup (IF lossy THEN {"starting"} ELSE {})
          /\ \E p \in EndPhases : row' = [row EXCEPT ![s] = RowOf(p)]
    /\ UNCHANGED <<phases, lossy>>

\* Spawning, Running and one end are published once each, in this order, and
\* each after the row that agrees with it, unless that was lost.
Publish(s, p) ==
    /\ \/ phases[s] = <<>> /\ p = "spawning" /\ row[s] = "starting"
       \/ phases[s] = <<"spawning">> /\ p = "running" /\ (row[s] = "running" \/ lossy)
       \/ Len(phases[s]) = 2 /\ p \in EndPhases /\ (row[s] = RowOf(p) \/ lossy)
    /\ phases' = [phases EXCEPT ![s] = Append(@, p)]
    /\ UNCHANGED <<row, lossy>>

Lose == lossy' = TRUE /\ UNCHANGED <<row, phases>>

Next ==
    \/ Lose
    \/ \E s \in Sessions : Insert(s) \/ Write(s)
    \/ \E s \in Sessions, p \in {"spawning", "running"} \cup EndPhases : Publish(s, p)

Spec == Init /\ [][Next]_vars
=============================================================================
