------------------------------- MODULE Control -------------------------------
(***************************************************************************)
(* Who controls an agent session: two planes that do not follow each       *)
(* other, its orchestration (Ownership) and its terminals (Terminals).     *)
(* Taking a session over takes no writer lease, attaching takes over no    *)
(* session; a restart hits both.                                           *)
(***************************************************************************)
EXTENDS Ownership, Terminals

CONSTANT MaxRequests   \* bound: requests of all kinds

ASSUME RequestAssumption == MaxRequests \in Nat

vars == <<ownVars, termVars>>

Init == OwnInit /\ TermInit

Within == asks' + calls' <= MaxRequests /\ faults' + lapses' <= MaxFaults

Orchestrate == (\E r \in Requesters : Request(r)) /\ UNCHANGED termVars /\ Within
Drive       == TermNext /\ UNCHANGED ownVars /\ Within
Restart     == OwnCrash /\ TermCrash /\ Within

Next == Orchestrate \/ Drive \/ Restart

Spec == Init /\ [][Next]_vars

-----------------------------------------------------------------------------
(***************************************************************************)
(* What an operator who takes a session or a terminal over relies on.      *)
(***************************************************************************)

\* The audit trail is one chain from the orchestrator to the owner on the row.
Chain ==
    /\ owner = (IF trail = <<>> THEN "orchestrator" ELSE trail[Len(trail)].to)
    /\ \A i \in 1 .. Len(trail) :
          trail[i].from = (IF i = 1 THEN "orchestrator" ELSE trail[i - 1].to)

\* Along it no operator is displaced by another.
NoOneDisplaced ==
    \A i \in 1 .. Len(trail) :
        trail[i].from \in Operators /\ trail[i].to \in Operators => trail[i].from = trail[i].to

\* The run events tell the transitions in the order of the audit trail, none twice.
EventsInOrder == \A i, j \in 1 .. Len(events) : i < j => events[i] < events[j]

\* "so concurrent callers can't both observe the same current owner and race
\* to overwrite each other": though the lock itself comes and goes, and
\* handlers are dropped while they hold it.
AuditChain == Chain /\ NoOneDisplaced /\ EventsInOrder

-----------------------------------------------------------------------------
\* The browser that connected last writes for as long as it stays, whoever
\* else leaves (page reload, double mount, reconnect).
LeaseIsNewest ==
    \A p \in Ptys :
        /\ newest[p] # "free" => (sock[newest[p]] = [pc |-> "attached", to |-> p] => lease[p] = newest[p])
        /\ lease[p] # "free" => sock[lease[p]] = [pc |-> "attached", to |-> p]

\* A takeover whose child has gone is recorded as closed, by the watchdog or
\* by the operator's close, whichever saw the other; unless an insert failed
\* or a handler was dropped.
ClosedOnRecord ==
    \A t \in Takeovers :
        take[t].dog = "done" /\ faults + lapses = 0 /\ (\A c \in Closers : closer[c].of # t) =>
            \E i \in 1 .. Len(log[t]) : log[t][i] = "closed"
=============================================================================
