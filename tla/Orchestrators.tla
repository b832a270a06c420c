---------------------------- MODULE Orchestrators ----------------------------
(***************************************************************************)
(* The record of an orchestrator session and its checkpoints.  A patch     *)
(* reads the whole row, changes its copy and writes the whole row back, a  *)
(* checkpoint and the pointers to it are one transaction; between the      *)
(* accesses of one request the others act.  Sessions share nothing and are *)
(* never deleted: one is modelled.  Refused bodies change nothing.         *)
(***************************************************************************)
EXTENDS Integers

CONSTANTS
    Patches,   \* patch requests at work at once
    Summaries, \* checkpoints that may come to be
    Cursors,   \* events a cursor may name
    Unset      \* an absent value

ASSUME UnsetAssumption == Unset \notin Cursors \cup Summaries

Idle == "idle"
Allowed ==
    [idle          |-> {"thinking", "dispatching", "waiting_human", "paused", "failed", "completed"},
     thinking      |-> {"idle", "dispatching", "waiting_human", "blocked", "failed"},
     dispatching   |-> {"thinking", "idle", "waiting_human", "blocked", "failed"},
     waiting_human |-> {"idle", "thinking", "dispatching", "paused", "failed", "completed"},
     blocked       |-> {"idle", "thinking", "waiting_human", "paused", "failed"},
     paused        |-> {"idle", "failed", "completed"},
     failed        |-> {}, completed |-> {}]
Statuses == DOMAIN Allowed
CanTransition(s, t) == t \in Allowed[s]

VARIABLES
    session, \* orchestrator_sessions: status, latest_checkpoint_id, last_event_cursor
    made,    \* has it been created
    rows,    \* orchestrator_checkpoints
    minted,  \* each checkpoint's created_at; 0 before it has one
    clock,
    patch,   \* each patch: its control point and its copy of the row
    summary, \* each checkpoint request: control point, covers_to_event
    skipped, \* a write has moved the status along no edge
    named,   \* the cursor last named by a request that was answered
    tangled  \* two requests were at work at once

orchVars == <<session, made, rows, minted, clock, patch, summary, skipped, named, tangled>>

Fresh     == [status |-> Idle, latest |-> Unset, cursor |-> Unset]
NoPatch   == [pc |-> "idle", row |-> Fresh, cursor |-> Unset]
NoSummary == [pc |-> "idle", to |-> Unset]

OrchInit ==
    /\ session = Fresh /\ made = FALSE /\ rows = {} /\ minted = [c \in Summaries |-> 0] /\ clock = 0
    /\ patch = [p \in Patches |-> NoPatch] /\ summary = [c \in Summaries |-> NoSummary]
    /\ skipped = FALSE /\ named = Unset /\ tangled = FALSE

Busy == \/ \E p \in Patches : patch[p].pc = "update"
        \/ \E c \in Summaries : summary[c].pc = "insert"
Meets == tangled' = (tangled \/ Busy)
Or(new, old) == IF new = Unset THEN old ELSE new

-----------------------------------------------------------------------------
CreateSession ==
    /\ ~made /\ made' = TRUE
    /\ UNCHANGED <<session, rows, minted, clock, patch, summary, skipped, named, tangled>>

(* patch_session *)

\* The setters work on the copy, up to the update nothing waits.
ReadRow(p) ==
    /\ made /\ patch[p].pc = "idle" /\ Meets
    /\ \E cursor \in Cursors \cup {Unset}, status \in Statuses :
          /\ status = session.status \/ CanTransition(session.status, status)
          /\ patch' = [patch EXCEPT ![p] =
                [pc |-> "update", cursor |-> cursor,
                 row |-> [session EXCEPT !.status = status, !.cursor = Or(cursor, session.cursor)]]]
    /\ UNCHANGED <<session, made, rows, minted, clock, summary, skipped, named>>

UpdateRow(p) ==
    /\ patch[p].pc = "update"
    /\ session' = patch[p].row /\ named' = Or(patch[p].cursor, named)
    /\ skipped' = (skipped \/ patch[p].row.status \notin Allowed[session.status] \cup {session.status})
    /\ patch' = [patch EXCEPT ![p] = NoPatch]
    /\ UNCHANGED <<made, rows, minted, clock, summary, tangled>>

\* A failed write, or a client that has gone.
DropPatch(p) ==
    /\ patch[p].pc = "update" /\ patch' = [patch EXCEPT ![p] = NoPatch]
    /\ UNCHANGED <<session, made, rows, minted, clock, summary, skipped, named, tangled>>

-----------------------------------------------------------------------------
(* create_checkpoint *)

MintCheckpoint(c) ==
    /\ made /\ summary[c].pc = "idle" /\ minted[c] = 0 /\ Meets
    /\ \E to \in Cursors \cup {Unset} : summary' = [summary EXCEPT ![c] = [pc |-> "insert", to |-> to]]
    /\ clock' = clock + 1 /\ minted' = [minted EXCEPT ![c] = clock']
    /\ UNCHANGED <<session, made, rows, patch, skipped, named>>

\* Mutant: the pointers are left to the next patch.
InsertOnly(c) ==
    /\ summary[c].pc = "insert" /\ rows' = rows \cup {c}
    /\ named' = Or(summary[c].to, named)
    /\ summary' = [summary EXCEPT ![c] = NoSummary]
    /\ UNCHANGED <<session, made, minted, clock, patch, skipped, tangled>>

InsertCheckpoint(c) ==
    /\ summary[c].pc = "insert" /\ rows' = rows \cup {c}
    /\ session' = [session EXCEPT !.latest = c, !.cursor = Or(summary[c].to, session.cursor)]
    /\ named' = Or(summary[c].to, named)
    /\ summary' = [summary EXCEPT ![c] = NoSummary]
    /\ UNCHANGED <<made, minted, clock, patch, skipped, tangled>>

DropCheckpoint(c) ==
    /\ summary[c].pc = "insert" /\ summary' = [summary EXCEPT ![c] = NoSummary]
    /\ UNCHANGED <<session, made, rows, minted, clock, patch, skipped, named, tangled>>

OrchNext ==
    \/ CreateSession
    \/ \E p \in Patches : ReadRow(p) \/ UpdateRow(p) \/ DropPatch(p)
    \/ \E c \in Summaries : MintCheckpoint(c) \/ InsertCheckpoint(c) \/ DropCheckpoint(c)

\* latest_checkpoint, what the page of a session shows.
NewestOf(S) == {c \in S : \A d \in S : minted[d] <= minted[c]}
=============================================================================
