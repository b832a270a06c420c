---------------------------- MODULE QueueBuckets ----------------------------
(***************************************************************************)
(* The two classifications an operator reads: the operator queue of the    *)
(* runs, with the reason printed on each card, and the launch queue of     *)
(* Linear issues.  Both are functions of what a request has just loaded.   *)
(***************************************************************************)
EXTENDS FiniteSets, Naturals

RunState    == {"queued", "working", "waiting", "completed", "failed", "cancelled"}
TerminalRun == {"completed", "failed", "cancelled"}
TerminalIssue == {"completed", "canceled"}

\* What a request loads of one run: issue, state, pending attention requests
\* and interrupts, a session suspended for a handoff, a pull request not closed.
RunCards(Issues) ==
    [issue : Issues, state : RunState, attention : BOOLEAN, interrupt : BOOLEAN,
     handoff : BOOLEAN, openPr : BOOLEAN]

ActiveRun(r) == r.state \notin TerminalRun

-----------------------------------------------------------------------------
\* classify: the operator queue of a run; a cancelled run has none.
OperatorQueue(r) ==
    IF r.state = "cancelled" THEN "none"
    ELSE IF r.state = "completed" THEN "done"
    ELSE IF r.attention \/ r.interrupt \/ r.state \in {"waiting", "failed"} THEN "needs-human"
    ELSE IF r.handoff THEN "blocked-by-dependency"
    ELSE IF r.openPr THEN "in-pr"
    ELSE IF r.state = "queued" THEN "waiting" ELSE "active"

\* queue_card_reason: which signal the card names.
CardReason(r) ==
    IF r.attention THEN "attention"
    ELSE IF r.interrupt THEN "interrupt"
    ELSE IF r.state \in {"failed", "waiting"} THEN r.state
    ELSE IF r.handoff THEN "handoff"
    ELSE IF r.openPr THEN "pr"
    ELSE IF r.state = "queued" THEN "queued" ELSE "state"

\* The queue a reason speaks of.
QueueOfReason ==
    [attention |-> "needs-human", interrupt |-> "needs-human", failed |-> "needs-human",
     waiting |-> "needs-human", handoff |-> "blocked-by-dependency", pr |-> "in-pr",
     queued |-> "waiting", state |-> "active"]

\* trim_for_queue: cancelled runs drop off, of the completed ones the newest stay.
Trimmed(runs, newest) ==
    {r \in runs : r.state \notin {"cancelled", "completed"}} \cup {r \in newest : r.state = "completed"}

-----------------------------------------------------------------------------
\* What a request loads of one Linear issue.  Only the "blocks" relations are
\* dependencies; the parent (or itself, for none) counts for its runs only.
IssueCards(Issues, IssueState) ==
    [id : Issues, state : IssueState, blockers : SUBSET IssueState, parent : Issues, approval : BOOLEAN]

ActiveOn(runs, issue) == {r \in runs : r.issue = issue /\ ActiveRun(r)}

\* map_operator_bucket
LaunchOfRun(bucket) ==
    IF bucket \in {"waiting", "active"} THEN "active"
    ELSE IF bucket = "blocked-by-dependency" THEN "blocked" ELSE bucket

\* The gates in the order the module's text lists them, for an issue without an active run.
Gates(i, runs, trigger, cap) ==
    IF i.state \in TerminalIssue THEN "done"
    ELSE IF i.blockers \ TerminalIssue # {} THEN "blocked"
    ELSE IF ActiveOn(runs, i.parent) # {} THEN "blocked"
    ELSE IF i.state # trigger THEN IF i.state = "backlog" THEN "backlog" ELSE "todo"
    ELSE IF i.approval \/ Cardinality({r \in runs : ActiveRun(r)}) >= cap THEN "waiting"
    ELSE "launchable"

\* classify_issue: an issue with an active run sits where that run sits, and
\* merge_into_groups then shows the run's card only.
IssueQueue(i, runs, trigger, cap) ==
    IF ActiveOn(runs, i.id) # {}
    THEN {LaunchOfRun(OperatorQueue(r)) : r \in ActiveOn(runs, i.id)}
    ELSE {Gates(i, runs, trigger, cap)}

IssueCardShown(i, runs) == ActiveOn(runs, i.id) = {}
=============================================================================
