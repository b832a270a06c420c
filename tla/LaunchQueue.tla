---------------------------- MODULE LaunchQueue ----------------------------
(***************************************************************************)
(* The launch queue: polls that fetch Linear's "blocks" relations, compare *)
(* them with the issue_blockers snapshot and announce what was resolved,   *)
(* and requests that launch a run on an issue.                             *)
(***************************************************************************)
EXTENDS RunTable

CONSTANTS
    Pairs,       \* a blocked issue and one that blocks it
    Polls,       \* GET requests at work at once
    MaxVisits,   \* bound: polls, launches and moves in Linear
    MaxMishaps   \* bound: queries and fetches that fail

ASSUME FreeAssumption  == "free" \notin Polls
ASSUME VisitAssumption == MaxVisits \in Nat /\ MaxMishaps \in Nat

VARIABLES
    linear,     \* each relation: "open", "closed" (the blocker's state is terminal), "gone"
    snapshot,   \* issue_blockers: "none", "open", "closed"
    lock,       \* blocker_reconcile_lock: a poll or "free"
    poll,       \* each request: pc, relations fetched, transitions to announce
    opened,     \* times a row of the snapshot became open
    announced,  \* DependencyResolved events of each pair
    launch,     \* the launch of each run: "idle", "insert", "done"
    visits, mishaps

queueVars == <<linear, snapshot, lock, poll, opened, announced, launch, visits, mishaps>>
relations == <<linear, snapshot, lock, poll, opened, announced>>

PollState == [pc : {"idle", "lock", "persist", "emit"}, fetched : [Pairs -> {"open", "closed", "gone"}],
              due : SUBSET Pairs]
NoPoll    == [pc |-> "idle", fetched |-> [p \in Pairs |-> "gone"], due |-> {}]

\* The row of a relation; issues that were not fetched lose theirs.
RowOf(f) == IF f = "gone" THEN "none" ELSE f

\* The snapshot is what an earlier server left; Linear may have moved since.
QueueInit ==
    /\ linear \in [Pairs -> {"open", "closed", "gone"}] /\ snapshot \in [Pairs -> {"none", "open", "closed"}]
    /\ lock = "free" /\ poll = [q \in Polls |-> NoPoll]
    /\ opened = [p \in Pairs |-> IF snapshot[p] = "open" THEN 1 ELSE 0]
    /\ announced = [p \in Pairs |-> 0] /\ launch = [r \in Runs |-> "idle"]
    /\ visits = 0 /\ mishaps = 0

Visit  == visits < MaxVisits /\ visits' = visits + 1 /\ UNCHANGED mishaps
Mishap == mishaps < MaxMishaps /\ mishaps' = mishaps + 1 /\ UNCHANGED visits
Calm   == UNCHANGED <<visits, mishaps>>

LinearMoves(p) ==
    /\ Visit /\ \E s \in {"open", "closed", "gone"} \ {linear[p]} : linear' = [linear EXCEPT ![p] = s]
    /\ UNCHANGED <<snapshot, lock, poll, opened, announced, launch>>

-----------------------------------------------------------------------------
(* get_queue and reconcile_blockers                                        *)

\* list_issues, before the lock.  A fetch that fails skips the reconciliation.
Fetch(q) ==
    /\ poll[q].pc = "idle" /\ Visit
    /\ poll' = [poll EXCEPT ![q] = [NoPoll EXCEPT !.pc = "lock", !.fetched = linear]]
    /\ UNCHANGED <<linear, snapshot, lock, opened, announced, launch>>

\* detect_transitions: a row that was open, of a relation fetched as closed.
Transitions(q) == {p \in Pairs : snapshot[p] = "open" /\ poll[q].fetched[p] = "closed"}

\* Mutant: nothing serialises the polls.
DiffUnlocked(q) ==
    /\ poll[q].pc = "lock"
    /\ lock' = q /\ poll' = [poll EXCEPT ![q].pc = "persist", ![q].due = Transitions(q)]
    /\ UNCHANGED <<linear, snapshot, opened, announced, launch>> /\ Calm

\* The lock is taken and the old rows are read under it.
Diff(q) ==
    /\ poll[q].pc = "lock" /\ lock = "free"
    /\ lock' = q /\ poll' = [poll EXCEPT ![q].pc = "persist", ![q].due = Transitions(q)]
    /\ UNCHANGED <<linear, snapshot, opened, announced, launch>> /\ Calm

\* replace_for_downstreams, in one transaction
Persist(q) ==
    /\ poll[q].pc = "persist" /\ poll' = [poll EXCEPT ![q].pc = "emit"]
    /\ snapshot' = [p \in Pairs |-> RowOf(poll[q].fetched[p])]
    /\ opened' = [p \in Pairs |-> opened[p] + IF snapshot'[p] = "open" /\ snapshot[p] # "open" THEN 1 ELSE 0]
    /\ UNCHANGED <<linear, lock, announced, launch>> /\ Calm

\* Mutant: the announcements follow although the write failed.
PersistFailsSoft(q) ==
    /\ poll[q].pc = "persist" /\ Mishap
    /\ poll' = [poll EXCEPT ![q].pc = "emit"]
    /\ UNCHANGED <<linear, snapshot, lock, opened, announced, launch>>

\* Nothing is announced: a later poll finds the transition again.
PersistFails(q) ==
    /\ poll[q].pc = "persist" /\ Mishap
    /\ lock' = "free" /\ poll' = [poll EXCEPT ![q] = NoPoll]
    /\ UNCHANGED <<linear, snapshot, opened, announced, launch>>

Emit(q) ==
    /\ poll[q].pc = "emit"
    /\ announced' = [p \in Pairs |-> announced[p] + IF p \in poll[q].due THEN 1 ELSE 0]
    /\ lock' = "free" /\ poll' = [poll EXCEPT ![q] = NoPoll]
    /\ UNCHANGED <<linear, snapshot, opened, launch>> /\ Calm

-----------------------------------------------------------------------------
(* spawn_run_from_request                                                  *)

\* guard_no_active_run; nothing reserves the issue until the insert.
Admit(r) ==
    /\ launch[r] = "idle" /\ Visit
    /\ \A q \in Runs : IssueOf[q] = IssueOf[r] => ~Active(q)
    /\ launch' = [launch EXCEPT ![r] = "insert"]
    /\ UNCHANGED <<rows, relations>>

Insert(r) ==
    /\ launch[r] = "insert" /\ launch' = [launch EXCEPT ![r] = "done"]
    /\ Save(r, "queued", "fresh", "null")
    /\ UNCHANGED relations /\ Calm

PollNext == \/ \E p \in Pairs : LinearMoves(p)
            \/ \E q \in Polls : Fetch(q) \/ Diff(q) \/ Persist(q) \/ PersistFails(q) \/ Emit(q)

\* A restart drops the requests and with them the lock.
QueueCrash ==
    /\ lock' = "free" /\ poll' = [q \in Polls |-> NoPoll]
    /\ launch' = [r \in Runs |-> IF launch[r] = "insert" THEN "idle" ELSE launch[r]]
    /\ UNCHANGED <<linear, snapshot, opened, announced, visits, mishaps>>
=============================================================================
