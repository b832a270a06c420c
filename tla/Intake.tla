------------------------------- MODULE Intake -------------------------------
(***************************************************************************)
(* How work enters and is watched: the launch queue puts runs in the runs  *)
(* table, engines work on them, the overseers report those that go silent. *)
(***************************************************************************)
EXTENDS LaunchQueue, Oversight

CONSTANTS
    MaxEvents,     \* bound: events of all kinds
    MaxTroubles    \* bound: queries that fail and restarts of the server

ASSUME EventAssumption == MaxEvents \in Nat /\ MaxTroubles \in Nat

VARIABLE restarts

vars == <<rows, queueVars, overVars, restarts>>

Init == rows = [r \in Runs |-> NoRow] /\ QueueInit /\ OverInit /\ restarts = 0

Within == visits' + pulses' <= MaxEvents /\ mishaps' + slips' + restarts' <= MaxTroubles

Poll     == PollNext /\ UNCHANGED <<rows, overVars, restarts>> /\ Within
Request  == (\E r \in Runs : Admit(r)) /\ UNCHANGED <<overVars, restarts>> /\ Within

\* spawn_run: the insert, then the engine's task.
SpawnRun(r) ==
    /\ Insert(r) /\ engine' = engine \cup {r}
    /\ UNCHANGED <<bus, audit, pulses, slips, restarts>>

Oversee  == OverNext /\ UNCHANGED <<queueVars, restarts>> /\ Within
Restart  ==
    /\ restarts' = restarts + 1 /\ QueueCrash /\ OverCrash /\ UNCHANGED rows /\ Within

Next == Poll \/ Request \/ (\E r \in Runs : SpawnRun(r)) \/ Oversee \/ Restart

Spec     == Init /\ [][Next]_vars
FairSpec == Spec /\ WF_vars(Scheduler /\ UNCHANGED <<queueVars, restarts>>)

-----------------------------------------------------------------------------
(***************************************************************************)
(* What an operator relies on who watches the queue and the dashboard.     *)
(***************************************************************************)

\* Every row, request, event and counter holds a value of its type.
TypeOK ==
    /\ rows \in [Runs -> Row] /\ engine \subseteq Runs
    /\ linear \in [Pairs -> {"open", "closed", "gone"}] /\ snapshot \in [Pairs -> {"none", "open", "closed"}]
    /\ lock \in Polls \cup {"free"}
    /\ poll \in [Polls -> PollState]
    /\ opened \in [Pairs -> Nat] /\ announced \in [Pairs -> Nat]
    /\ launch \in [Runs -> {"idle", "insert", "done"}]
    /\ bus \in Seq(Runs) /\ trail \in [Runs -> Seq(Kinds)] /\ told \in [Runs -> Seq(Kinds)]
    /\ sched \in [pc : {"idle", "scan", "publish"}, left : SUBSET Runs, silent : SUBSET Runs,
                  news : News \cup {NoNews}]
    /\ visits \in Nat /\ mishaps \in Nat /\ pulses \in Nat /\ slips \in Nat /\ restarts \in Nat

\* "two concurrent GET /launch-queue calls cannot both publish the same
\* DependencyResolved transition": a relation is announced as resolved at most
\* once for each time the snapshot recorded it as open.
AnnouncedOnce == \A p \in Pairs : announced[p] <= opened[p]

\* "Persist first, emit after": what is announced is what the snapshot says at
\* that moment, whichever polls race.
AnnouncedOnRecord ==
    [][\A p \in Pairs : announced'[p] # announced[p] => snapshot[p] = "closed"]_vars

\* "a run that has been continuously stalled for an hour produces exactly one
\* stalled row": stalls and recoveries alternate, starting with a stall, and
\* but for a restart the bus tells the same story as the table.
TrailAlternates ==
    \A r \in Runs :
        /\ \A i \in 1 .. Len(trail[r]) : trail[r][i] = IF i % 2 = 1 THEN "stalled" ELSE "recovered"
        /\ restarts = 0 =>
              trail[r] = IF sched.news.run = r THEN Append(told[r], sched.news.kind) ELSE told[r]

\* The record catches up with every active run: one that stays silent ends up
\* stalled on record, one that shows signs of life again does not stay so.
RecordCatchesUp ==
    \A r \in Runs :
        /\ Silent(r) ~> (Latest(r) = "stalled" \/ ~Silent(r))
        /\ (Active(r) /\ ~Silent(r)) ~> (Latest(r) # "stalled" \/ Silent(r) \/ ~Active(r))
=============================================================================
