------------------------------ MODULE RunTable ------------------------------
(***************************************************************************)
(* The runs table as its overseers see it.  A stamp is "fresh" while it is *)
(* younger than the threshold of the run's state, then "old".              *)
(***************************************************************************)
EXTENDS Integers, Sequences

CONSTANTS
    Runs,
    IssueOf    \* the issue each run is for

ASSUME RunAssumption == "none" \notin Runs

VARIABLE rows   \* state, updated_at, last_heartbeat_at

RunStates == {"absent", "queued", "working", "waiting", "ended"}
Open      == {"queued", "working", "waiting"}
Row       == [state : RunStates, updated : {"fresh", "old"}, beat : {"null", "fresh", "old"}]

NoRow     == [state |-> "absent", updated |-> "old", beat |-> "null"]
Active(r) == rows[r].state \in Open

\* insert and update write the whole row.
Save(r, s, u, b) == rows' = [rows EXCEPT ![r] = [state |-> s, updated |-> u, beat |-> b]]
=============================================================================
