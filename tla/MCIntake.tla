------------------------------ MODULE MCIntake ------------------------------
(* Small instances of Intake for TLC.                                       *)
EXTENDS Intake, QueueBuckets

CONSTANTS r1, r2

TwoRuns == {r1, r2}
OneIssue == [r \in TwoRuns |-> "issue"]

\* The classifications of one request, over every run it may load and every
\* issue with at most one blocker, before they are stated for all.
Cards == RunCards({"child", "parent"})

ASSUME CardsChecked ==
    \A r \in Cards : r.state \notin TerminalRun => OperatorQueue(r) = QueueOfReason[CardReason(r)]

ASSUME OffersChecked ==
    \A r \in Cards : \A b \in {{}, {"started"}, {"canceled"}}, a \in BOOLEAN :
        LET i == [id |-> "child", state |-> "started", blockers |-> b, parent |-> "parent", approval |-> a]
        IN  "launchable" \in IssueQueue(i, Trimmed({r}, {}), "started", 1)
                => ~ActiveRun(r) /\ b \subseteq TerminalIssue /\ ~a
=============================================================================
