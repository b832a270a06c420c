---------------------------- MODULE PullRequests ----------------------------
(***************************************************************************)
(* Shipping a completed run's worktree, and the row that follows the pull  *)
(* request on GitHub.  The name of the branch lives in three places: the   *)
(* worktree, the row of the run and the head of each pull request.  A ship *)
(* is dropped with the connection that asked for it.                       *)
(***************************************************************************)
EXTENDS Integers, Sequences

CONSTANTS
    Branches,   \* names for the branch
    Ships,      \* requests to ship at work at once
    Views,      \* requests that resolve the pull request at work at once
    MaxAsks,    \* bound: requests to ship
    MaxLapses   \* bound: failures that nothing makes up for

ASSUME ShipAssumption == MaxAsks \in Nat /\ MaxLapses \in Nat

NoName == "none"

VARIABLES
    local,      \* the name of the worktree's branch
    branch,     \* runs.branch_name
    prs,        \* GitHub's pull requests, by number
    row,        \* pull_requests of the run
    artifact,   \* number in the PrUrl artifact of an autonomous run, or 0
    ship, view, \* the requests: control point and locals
    clashed,    \* two ships were at work at once
    asks, lapses

prVars == <<local, branch, prs, row, artifact, ship, view, clashed, asks, lapses>>
bounds == <<clashed, asks, lapses>>

NoPr   == [number |-> 0, state |-> NoName, head |-> NoName]
NoShip == [pc |-> "idle", from |-> NoName, to |-> NoName, opens |-> FALSE, number |-> 0]
NoView == [pc |-> "idle", pr |-> NoPr, mine |-> FALSE]

\* A completed run; the create_pr step of a playbook may have opened its pull request.
PrInit ==
    /\ branch \in Branches /\ local = branch /\ artifact \in {0, 1}
    /\ prs = IF artifact = 0 THEN <<>> ELSE <<[head |-> branch, state |-> "open"]>>
    /\ row = NoPr /\ ship = [s \in Ships |-> NoShip] /\ view = [v \in Views |-> NoView]
    /\ clashed = FALSE /\ asks = 0 /\ lapses = 0

IsOpen(n)      == prs[n].state = "open"
OpenOn(b)      == {n \in DOMAIN prs : IsOpen(n) /\ prs[n].head = b}
is_terminal(p) == p.state \in {"merged", "closed"}

-----------------------------------------------------------------------------
(* PullRequestService::ship                                                *)

At(s, pc)  == ship[s].pc = pc
Goto(s, pc) == ship' = [ship EXCEPT ![s].pc = pc]
Ends(s)    == ship' = [ship EXCEPT ![s] = NoShip]
Lapse      == lapses < MaxLapses /\ lapses' = lapses + 1 /\ UNCHANGED <<clashed, asks>>

\* The handler's copy of the run; another name is planned before it is taken.
Ask(s, to, opens) ==
    /\ At(s, "idle") /\ asks < MaxAsks /\ asks' = asks + 1
    /\ ship' = [ship EXCEPT ![s] = [pc |-> IF to = branch THEN "push" ELSE "plan", from |-> branch,
                                    to |-> to, opens |-> opens, number |-> 0]]
    /\ clashed' = (clashed \/ \E u \in Ships : ~At(u, "idle"))
    /\ UNCHANGED <<local, branch, prs, row, artifact, view, lapses>>

pr_exists == row # NoPr \/ artifact # 0

\* Mutant: only the row counts as a pull request.
PlanRowOnly(s) ==
    /\ At(s, "plan") /\ IF row # NoPr THEN Ends(s) ELSE Goto(s, "rename")
    /\ UNCHANGED <<local, branch, prs, row, artifact, view, bounds>>

\* plan_head_branch: a name is locked once there is a pull request.
Plan(s) ==
    /\ At(s, "plan") /\ IF pr_exists THEN Ends(s) ELSE Goto(s, "rename")
    /\ UNCHANGED <<local, branch, prs, row, artifact, view, bounds>>

\* A failed query of the artifacts reads as none.
PlanBlind(s) ==
    /\ At(s, "plan") /\ row = NoPr /\ Goto(s, "rename") /\ Lapse
    /\ UNCHANGED <<local, branch, prs, row, artifact, view>>

\* git branch -m, of the name in the handler's copy.
Rename(s) ==
    /\ At(s, "rename")
    /\ IF local = ship[s].from THEN local' = ship[s].to /\ Goto(s, "persist")
                               ELSE Ends(s) /\ UNCHANGED local
    /\ UNCHANGED <<branch, prs, row, artifact, view, bounds>>

Persist(s) ==
    /\ At(s, "persist") /\ branch' = ship[s].to /\ Goto(s, "push")
    /\ UNCHANGED <<local, prs, row, artifact, view, bounds>>

\* Mutant: a failed write ends the ship.
PersistFailsPlain(s) ==
    /\ At(s, "persist") /\ Ends(s)
    /\ UNCHANGED <<local, branch, prs, row, artifact, view, bounds>>

PersistFails(s) ==
    /\ At(s, "persist") /\ Goto(s, "rollback")
    /\ UNCHANGED <<local, branch, prs, row, artifact, view, bounds>>

Rollback(s) ==
    /\ At(s, "rollback") /\ Ends(s)
    /\ local' = IF local = ship[s].to THEN ship[s].from ELSE local
    /\ UNCHANGED <<branch, prs, row, artifact, view, bounds>>

\* A push needs the branch to have the name still.
Push(s) ==
    /\ At(s, "push") /\ local = ship[s].to
    /\ IF ~ship[s].opens THEN Ends(s)
       ELSE Goto(s, IF ship[s].to # ship[s].from THEN "recheck" ELSE "create")
    /\ UNCHANGED <<local, branch, prs, row, artifact, view, bounds>>

Recheck(s) ==
    /\ At(s, "recheck") /\ IF pr_exists THEN Ends(s) ELSE Goto(s, "create")
    /\ UNCHANGED <<local, branch, prs, row, artifact, view, bounds>>

\* gh pr create: GitHub takes one open pull request for a head.
Opens(s) == /\ At(s, "create") /\ OpenOn(ship[s].to) = {}
            /\ prs' = Append(prs, [head |-> ship[s].to, state |-> "open"])

Create(s) ==
    /\ Opens(s) /\ ship' = [ship EXCEPT ![s].pc = "keep", ![s].number = Len(prs')]
    /\ UNCHANGED <<local, branch, row, artifact, view, bounds>>

\* ON CONFLICT(run_id): the row keeps its id, whose ever the rest is.
Upsert(s) ==
    /\ At(s, "keep") /\ Ends(s)
    /\ row' = [number |-> ship[s].number, state |-> "open", head |-> ship[s].to]
    /\ UNCHANGED <<local, branch, prs, artifact, view, bounds>>

\* A step that fails, or a ship dropped where everything is still in step.
ShipFails(s) ==
    /\ ship[s].pc \in {"plan", "rename", "push", "recheck", "create"} /\ Ends(s)
    /\ UNCHANGED <<local, branch, prs, row, artifact, view, bounds>>

\* Dropped, or failing, between two writes that belong together.
ShipLapses(s) ==
    /\ \/ ship[s].pc \in {"persist", "rollback", "keep"} /\ UNCHANGED prs
       \/ Opens(s)
    /\ Ends(s) /\ Lapse /\ UNCHANGED <<local, branch, row, artifact, view>>

ShipStep(s) ==
    \/ \E to \in Branches, opens \in BOOLEAN : Ask(s, to, opens)
    \/ Plan(s) \/ PlanBlind(s) \/ Rename(s) \/ Persist(s) \/ PersistFails(s) \/ Rollback(s)
    \/ Push(s) \/ Recheck(s) \/ Create(s) \/ Upsert(s) \/ ShipFails(s) \/ ShipLapses(s)

-----------------------------------------------------------------------------
(* PullRequestService::resolve_pr                                          *)

Rests == UNCHANGED <<local, branch, prs, artifact, ship, bounds>>

\* get_by_run: a row that is open and stale is synced, none is made from the artifact.
Look(v) ==
    /\ view[v].pc = "idle"
    /\ \/ /\ row # NoPr /\ ~is_terminal(row)
          /\ view' = [view EXCEPT ![v] = [pc |-> "fetch", pr |-> row, mine |-> TRUE]]
       \/ /\ row = NoPr /\ artifact # 0
          /\ view' = [view EXCEPT ![v] = [pc |-> "insert", mine |-> FALSE,
                                          pr |-> [number |-> artifact, state |-> "open", head |-> NoName]]]
    /\ UNCHANGED row /\ Rests

\* The row of somebody faster is overwritten and keeps its id: mine is whose id it is.
InsertRow(v) ==
    /\ view[v].pc = "insert" /\ row' = view[v].pr
    /\ view' = [view EXCEPT ![v].pc = "fetch", ![v].mine = (row = NoPr)] /\ Rests

Fetch(v) ==
    /\ view[v].pc = "fetch"
    /\ view' = [view EXCEPT ![v].pc = "write", ![v].pr.state = prs[view[v].pr.number].state]
    /\ UNCHANGED row /\ Rests

\* UPDATE ... WHERE id: the state and the head, not the number.
WriteRow(v) ==
    /\ view[v].pc = "write" /\ view' = [view EXCEPT ![v] = NoView]
    /\ row' = IF view[v].mine THEN [row EXCEPT !.state = view[v].pr.state, !.head = view[v].pr.head] ELSE row
    /\ Rests

ViewFails(v) == view[v].pc # "idle" /\ view' = [view EXCEPT ![v] = NoView] /\ UNCHANGED row /\ Rests

ViewStep(v) == Look(v) \/ InsertRow(v) \/ Fetch(v) \/ WriteRow(v) \/ ViewFails(v)

-----------------------------------------------------------------------------
\* On GitHub; one that was closed may be opened again.
Settle(n, state) ==
    /\ n \in DOMAIN prs /\ prs' = [prs EXCEPT ![n].state = state]
    /\ \/ IsOpen(n) /\ state \in {"merged", "closed"}
       \/ prs[n].state = "closed" /\ state = "open" /\ OpenOn(prs[n].head) = {}
    /\ UNCHANGED <<local, branch, row, artifact, ship, view, bounds>>

PrNext ==
    \/ \E s \in Ships : ShipStep(s)
    \/ \E v \in Views : ViewStep(v)
    \/ \E n \in DOMAIN prs, state \in {"open", "merged", "closed"} : Settle(n, state)
=============================================================================
