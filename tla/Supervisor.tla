------------------------------ MODULE Supervisor ------------------------------
(***************************************************************************)
(* The agent sessions of one run and their supervisors.  A session is a    *)
(* child on a terminal ("pty"), a turn of a structured adapter, or a       *)
(* background session that is polled; a review swarm runs several at once. *)
(* The terminal of a run is kept in a registry by run id, from which a     *)
(* timer takes it half a minute after a session's end.                     *)
(***************************************************************************)
EXTENDS Integers, Sequences

CONSTANTS
    Sessions, Kinds,        \* sessions are numbers
    MaxMisses, MaxErrors,   \* MAX_CONSECUTIVE_MISSES, MAX_CONSECUTIVE_ERRORS
    MaxCancels,             \* bound: cancels
    MaxFaults               \* bound: failed row updates and restarts

ASSUME SessionAssumption == Sessions \subseteq Nat \ {0}
ASSUME KindAssumption  == Kinds \subseteq {"pty", "structured", "background"}
ASSUME LimitAssumption == /\ MaxMisses \in Nat \ {0} /\ MaxErrors \in Nat \ {0}
                          /\ MaxCancels \in Nat /\ MaxFaults \in Nat

EndPhases == {"completed", "failed", "cancelled", "timed_out"}
RowOf(p)  == IF p = "timed_out" THEN "failed" ELSE p
Markers   == {"none", "bad", "usable"}   \* what the step-result scanner makes of the output
None      == 0

VARIABLES
    row,       \* agent_sessions: status
    phases,    \* lifecycle phases published, per session
    agent,     \* the child: alive, marker printed, output still open
    sup,       \* the supervisor: kind, control point, locals
    token,     \* the session's cancellation token has fired
    registry,  \* PtySessionRegistry: whose terminal the run has
    cleanups,  \* timers of schedule_cleanup that are running
    cancels, faults

bounds == <<cancels, faults>>
vars   == <<row, phases, agent, sup, token, registry, cleanups, bounds>>
pty    == <<registry, cleanups>>

\* rx: the scanner's oneshot; stash: a value taken from it that ends nothing;
\* phase, marker: the verdict; misses, errors: of consecutive polls.
NewSup   == [kind |-> "pty", pc |-> "none", rx |-> "unsent", stash |-> "empty", phase |-> "failed",
             marker |-> "none", misses |-> 0, errors |-> 0]
NewAgent == [alive |-> FALSE, said |-> "none", open |-> FALSE]

Init ==
    /\ row = [s \in Sessions |-> "absent"] /\ phases = [s \in Sessions |-> <<>>]
    /\ agent = [s \in Sessions |-> NewAgent] /\ sup = [s \in Sessions |-> NewSup]
    /\ token = [s \in Sessions |-> FALSE]
    /\ registry = None /\ cleanups = 0 /\ cancels = 0 /\ faults = 0

At(s, k, p)  == sup[s].kind = k /\ sup[s].pc = p
Goto(s, p)   == sup' = [sup EXCEPT ![s].pc = p]
Over(s, p)   == [NewSup EXCEPT !.kind = sup[s].kind, !.pc = p]   \* the task has returned
Fault        == faults < MaxFaults /\ faults' = faults + 1 /\ UNCHANGED cancels
Piped(s)     == sup[s].kind \in {"structured", "background"}
Handled(s)   == sup[s].pc \in {"rowRunning", "running", "work", "poll", "stop", "wait", "stuck",
                                "drain", "rowEnd", "end"}
                \/ At(s, "pty", "spawn")

-----------------------------------------------------------------------------
(* launch, launch_claude_background, spawn_structured                      *)

\* Only terminals share something, so only they overlap: the reviewers of a
\* swarm.  Sessions are numbered in the order of their launch.
MayLaunch(s, k) ==
    /\ sup[s].pc = "none" /\ \A u \in Sessions : u < s => sup[u].pc # "none"
    /\ \A u \in Sessions : sup[u].pc \notin {"none", "done", "gone"} => k = "pty" /\ sup[u].kind = "pty"

Insert(s, k) ==
    /\ MayLaunch(s, k) /\ row' = [row EXCEPT ![s] = "starting"]
    /\ sup' = [sup EXCEPT ![s].kind = k, ![s].pc = "spawning"]
    /\ UNCHANGED <<phases, agent, token, pty, bounds>>

\* record_lifecycle: before the child is spawned, once the row says Running,
\* and once it says how the session ended.
Record(s, from, p) ==
    /\ sup[s].pc = from /\ phases' = [phases EXCEPT ![s] = Append(@, p)]
    /\ UNCHANGED <<row, token, registry, bounds>>

RecordSpawning(s) ==
    /\ Record(s, "spawning", "spawning") /\ Goto(s, "spawn")
    /\ UNCHANGED <<agent, cleanups>>

\* The row of a session that cannot be spawned stays Starting.
SpawnFails(s) ==
    /\ sup[s].pc = "spawn" /\ Goto(s, "gone")
    /\ UNCHANGED <<row, phases, agent, token, pty, bounds>>

Spawn(s) ==
    /\ sup[s].pc = "spawn" /\ Goto(s, "rowRunning")
    /\ agent' = [agent EXCEPT ![s].alive = TRUE, ![s].open = TRUE]
    /\ registry' = (IF sup[s].kind = "pty" THEN s ELSE registry)
    /\ UNCHANGED <<row, phases, token, cleanups, bounds>>

-----------------------------------------------------------------------------
(* Row updates: an error ends the supervisor of a terminal, the others go  *)
(* on with a warning.                                                      *)

Write(s, from, status, to) ==
    /\ sup[s].pc = from /\ row' = [row EXCEPT ![s] = status] /\ Goto(s, to)
    /\ UNCHANGED <<phases, agent, token, pty, bounds>>

RowRunning(s) == Write(s, "rowRunning", "running", "running")

\* Mutant: a session that timed out is written as cancelled.
RowEndTimedOut(s) ==
    Write(s, "rowEnd", IF sup[s].phase = "timed_out" THEN "cancelled" ELSE sup[s].phase, "end")

RowEnd(s) == Write(s, "rowEnd", RowOf(sup[s].phase), "end")

UpdateFails(s) ==
    /\ sup[s].pc \in {"rowRunning", "rowEnd"} /\ Fault
    /\ IF ~Piped(s) THEN sup' = [sup EXCEPT ![s] = Over(s, "gone")]
       ELSE Goto(s, IF sup[s].pc = "rowEnd" THEN "end" ELSE "running")
    /\ UNCHANGED <<row, phases, agent, token, pty>>

RecordRunning(s) ==
    /\ Record(s, "running", "running") /\ Goto(s, "work")
    /\ UNCHANGED <<agent, cleanups>>

\* Mutant: the timer that takes the terminal from the registry is not started.
RecordEndKeeps(s) ==
    /\ Record(s, "end", sup[s].phase)
    /\ sup' = [sup EXCEPT ![s] = Over(s, "done")] /\ agent' = [agent EXCEPT ![s] = NewAgent]
    /\ UNCHANGED cleanups

\* The end of a session on a terminal starts the cleanup timer.
RecordEnd(s) ==
    /\ Record(s, "end", sup[s].phase)
    /\ sup' = [sup EXCEPT ![s] = Over(s, "done")] /\ agent' = [agent EXCEPT ![s] = NewAgent]
    /\ cleanups' = (IF sup[s].kind = "pty" THEN cleanups + 1 ELSE cleanups)

\* The timer removes by run id.
Cleanup ==
    /\ cleanups > 0 /\ cleanups' = cleanups - 1 /\ registry' = None
    /\ UNCHANGED <<row, phases, agent, sup, token, bounds>>

-----------------------------------------------------------------------------
(* The agent, and the reader and scanner of its terminal                   *)

\* A complete marker block; the scanner forwards the first that parses.  A
\* child that has closed its pipes says no more.
Say(s, m) ==
    /\ agent[s].alive /\ Handled(s) /\ sup[s].pc # "wait"
    /\ agent[s].said # "usable" /\ m \in {"bad", "usable"}
    /\ agent' = [agent EXCEPT ![s].said = m]
    /\ sup' = [sup EXCEPT ![s].rx = IF m = "usable" THEN m ELSE @]
    /\ UNCHANGED <<row, phases, token, pty, bounds>>

Exit(s) ==
    /\ agent[s].alive /\ Handled(s) /\ agent' = [agent EXCEPT ![s].alive = FALSE]
    /\ UNCHANGED <<row, phases, sup, token, pty, bounds>>

\* The child leads the terminal's session, so its end hangs the terminal up:
\* the scanner reports.
Eof(s) ==
    /\ agent[s].open /\ ~agent[s].alive
    /\ agent' = [agent EXCEPT ![s].open = FALSE]
    /\ sup' = [sup EXCEPT ![s].rx = IF @ = "unsent" THEN agent[s].said ELSE @]
    /\ UNCHANGED <<row, phases, token, pty, bounds>>

CancelToken(s) ==
    /\ Handled(s) /\ ~token[s] /\ cancels < MaxCancels /\ cancels' = cancels + 1
    /\ token' = [token EXCEPT ![s] = TRUE]
    /\ UNCHANGED <<row, phases, agent, sup, pty, faults>>

-----------------------------------------------------------------------------
(* What ends a session at work: the select of run_supervised, the end of a *)
(* structured turn, the polls of a background session                      *)

\* Where a session that is stopped goes: a terminal is read to its end, and a
\* background session is stopped by a command.
AfterStop == [pty |-> "drain", structured |-> "rowEnd", background |-> "stop"]

\* Mutant: the child is not killed, only its end awaited.
StopWaits(s, p) ==
    /\ sup[s].pc = "work"
    /\ sup' = [sup EXCEPT ![s].phase = p, ![s].pc = AfterStop[sup[s].kind],
                          ![s].marker = IF sup[s].kind = "structured" THEN agent[s].said ELSE "none"]
    /\ UNCHANGED <<row, phases, agent, token, pty, bounds>>

\* What was said before counts, except in the background.
Stop(s, p) ==
    /\ sup[s].pc = "work"
    /\ sup' = [sup EXCEPT ![s].phase = p, ![s].pc = AfterStop[sup[s].kind],
                          ![s].marker = IF sup[s].kind = "structured" THEN agent[s].said ELSE "none"]
    /\ agent' = [agent EXCEPT ![s].alive = @ /\ sup[s].kind = "background"]
    /\ UNCHANGED <<row, phases, token, pty, bounds>>

\* The command has no time limit, and may fail.
Stopped(s) ==
    /\ At(s, "background", "stop") /\ Goto(s, "rowEnd")
    /\ \E lives \in BOOLEAN : agent' = [agent EXCEPT ![s].alive = @ /\ lives]
    /\ UNCHANGED <<row, phases, token, pty, bounds>>

\* Wall clock or idle time has run out, while the supervisor listens to the
\* clock; the background loop looks at its token first.
DeadlineArm(s) == (sup[s].kind = "background" => ~token[s]) /\ Stop(s, "timed_out")
CancelArm(s)   == token[s] /\ Stop(s, "cancelled")

\* A usable marker ends the session of an agent that does not exit by itself.
MarkerArm(s) ==
    /\ At(s, "pty", "work") /\ sup[s].rx = "usable"
    /\ sup' = [sup EXCEPT ![s].phase = "completed", ![s].pc = "drain",
                          ![s].marker = "usable", ![s].rx = "taken"]
    /\ agent' = [agent EXCEPT ![s].alive = FALSE]
    /\ UNCHANGED <<row, phases, token, pty, bounds>>

\* Anything else from the scanner is put aside for the arm that wins.
MarkerStash(s) ==
    /\ At(s, "pty", "work") /\ sup[s].rx \in {"none", "bad"}
    /\ sup' = [sup EXCEPT ![s].stash = sup[s].rx, ![s].rx = "taken"]
    /\ UNCHANGED <<row, phases, agent, token, pty, bounds>>

\* The exit code tells whether it completed.
ExitArm(s, p) ==
    /\ At(s, "pty", "work") /\ ~agent[s].alive /\ p \in {"completed", "failed"}
    /\ sup' = [sup EXCEPT ![s].phase = p, ![s].pc = "drain"]
    /\ UNCHANGED <<row, phases, agent, token, pty, bounds>>

\* Mutant: what the select has put aside is forgotten.
TakeStepResultFresh(s) == IF sup[s].rx = "taken" THEN sup[s].marker ELSE sup[s].rx

TakeStepResult(s) ==
    IF sup[s].stash # "empty" THEN sup[s].stash
    ELSE IF sup[s].rx = "taken" THEN sup[s].marker ELSE sup[s].rx

Drain(s) ==
    /\ sup[s].pc = "drain" /\ ~agent[s].open
    /\ sup' = [sup EXCEPT ![s].marker = TakeStepResult(s), ![s].pc = "rowEnd"]
    /\ UNCHANGED <<row, phases, agent, token, pty, bounds>>

\* The stream of a structured turn ends with the child.
TurnEnds(s, p) ==
    /\ At(s, "structured", "work") /\ ~agent[s].alive /\ p \in {"completed", "failed"}
    /\ sup' = [sup EXCEPT ![s].phase = p,
                          ![s].marker = agent[s].said, ![s].pc = "rowEnd"]
    /\ UNCHANGED <<row, phases, agent, token, pty, bounds>>

\* The two places where a structured turn listens to neither token nor clock:
\* the pump awaits a child that has closed its pipes without an ending, and
\* pump and consumer wait for each other, once the watchdog has stopped the
\* reading of a full channel.
AwaitChild(s) ==
    /\ At(s, "structured", "work") /\ Goto(s, "wait")
    /\ UNCHANGED <<row, phases, agent, token, pty, bounds>>

Jam(s) ==
    /\ At(s, "structured", "work") /\ Goto(s, "stuck")
    /\ UNCHANGED <<row, phases, agent, token, pty, bounds>>

\* The watchdog may have gone off meanwhile.
ChildLeaves(s, p) ==
    /\ At(s, "structured", "wait") /\ ~agent[s].alive /\ p \in {"failed", "timed_out"}
    /\ sup' = [sup EXCEPT ![s].phase = p,
                          ![s].marker = agent[s].said, ![s].pc = "rowEnd"]
    /\ UNCHANGED <<row, phases, agent, token, pty, bounds>>

\* The background loop has slept and asks the claude command how its session
\* is.  The call stands outside the select and has no time limit.
PollStarts(s) ==
    /\ At(s, "background", "work") /\ ~token[s] /\ Goto(s, "poll")
    /\ UNCHANGED <<row, phases, agent, token, pty, bounds>>

\* The answers: it works on; it is not listed; the call fails; it waits for a
\* human, is done, has failed or was stopped.  The results made up for the
\* last cases are not told apart.
PollSeen(s) ==
    /\ At(s, "background", "poll") /\ agent[s].alive
    /\ sup' = [sup EXCEPT ![s].misses = 0, ![s].errors = 0, ![s].pc = "work"]
    /\ UNCHANGED <<row, phases, agent, token, pty, bounds>>

PollCounts(s, missed, failed) ==
    /\ At(s, "background", "poll")
    /\ LET lost == missed >= MaxMisses \/ failed >= MaxErrors IN
       sup' = [sup EXCEPT ![s].misses = missed, ![s].errors = failed,
                          ![s].phase = "failed", ![s].pc = IF lost THEN "rowEnd" ELSE "work"]
    /\ UNCHANGED <<row, phases, agent, token, pty, bounds>>

PollMissed(s) == PollCounts(s, sup[s].misses + 1, sup[s].errors)
PollFailed(s) == PollCounts(s, sup[s].misses, sup[s].errors + 1)

PollEnds(s, p) ==
    /\ At(s, "background", "poll") /\ p \in {"completed", "failed"}
    /\ sup' = [sup EXCEPT ![s].phase = p, ![s].pc = "rowEnd", ![s].marker = agent[s].said]
    /\ UNCHANGED <<row, phases, agent, token, pty, bounds>>

-----------------------------------------------------------------------------
\* A restart: terminals and structured children die with the server.
Crash ==
    /\ Fault /\ registry' = None /\ cleanups' = 0
    /\ sup' = [s \in Sessions |-> Over(s, IF sup[s].pc \in {"none", "done"} THEN sup[s].pc ELSE "gone")]
    /\ agent' = [s \in Sessions |-> IF sup[s].kind = "background" THEN agent[s]
                                    ELSE NewAgent]
    /\ token' = [s \in Sessions |-> FALSE]
    /\ UNCHANGED <<row, phases>>

\* What a supervisor does without its agent's help.
Supervise(s) ==
    \/ RecordSpawning(s) \/ Spawn(s) \/ RowRunning(s) \/ RecordRunning(s)
    \/ MarkerArm(s) \/ MarkerStash(s) \/ CancelArm(s) \/ Drain(s) \/ RowEnd(s) \/ RecordEnd(s)
    \/ PollStarts(s) \/ \E p \in EndPhases : ExitArm(s, p) \/ ChildLeaves(s, p)

Agent(s) ==
    Eof(s) \/ Exit(s) \/ \E m \in Markers : Say(s, m)

\* The steps nothing makes happen: the claude command answers, a structured
\* turn's stream ends or stands.
Answers(s) == PollSeen(s) \/ PollMissed(s) \/ PollFailed(s) \/ Stopped(s)
              \/ \E p \in EndPhases : PollEnds(s, p)
Streams(s) == AwaitChild(s) \/ Jam(s) \/ \E p \in EndPhases : TurnEnds(s, p)

Next ==
    \/ \E s \in Sessions : Supervise(s) \/ Agent(s) \/ Answers(s) \/ Streams(s) \/ DeadlineArm(s)
    \/ \E s \in Sessions : SpawnFails(s) \/ UpdateFails(s) \/ CancelToken(s)
    \/ \E s \in Sessions, k \in Kinds : Insert(s, k)
    \/ Cleanup \/ Crash

Spec == Init /\ [][Next]_vars

\* A supervisor goes on, a terminal whose child is dead hangs up, and the wall
\* clock runs: where a supervisor listens to it, the session is stopped.  The
\* background loop listens between two polls, and to the clock before it sleeps.
FairSpec ==
    /\ Spec /\ WF_vars(Cleanup)
    /\ \A s \in Sessions : WF_vars(Supervise(s)) /\ SF_vars(DeadlineArm(s)) /\ WF_vars(Eof(s))

-----------------------------------------------------------------------------
(***************************************************************************)
(* What whoever launched, watches or attaches to a session relies on.      *)
(***************************************************************************)

\* Rows and published phases are what SessionContract says, whichever runner
\* drives the session and whichever of its ends comes first.
Contract == INSTANCE SessionContract
                WITH Sessions <- Sessions, EndPhases <- EndPhases, RowOf <- RowOf,
                     row <- row, phases <- phases, lossy <- faults > 0
ImplementsContract == Contract!Spec

\* "so no in-flight EOF marker is lost": whatever ends a session, the result
\* its launcher gets is what the scanner made of all the agent has printed.
StepResultKept ==
    \A s \in Sessions :
        sup[s].pc \in {"rowEnd", "end"} /\ sup[s].kind \in {"pty", "structured"} =>
            sup[s].marker = agent[s].said

\* A terminal at work can be attached to, unless another session of the run
\* has registered (a review swarm); and without failures none stays in the
\* registry for good after its session.
RegistryFollows ==
    /\ \A s \in Sessions :
          sup[s].kind = "pty" /\ sup[s].pc \in {"rowRunning", "running", "work", "drain"} =>
              registry = s \/ \E u \in Sessions \ {s} : agent[u].open \/ phases[u] # <<>>
    /\ registry # None /\ faults = 0 => sup[registry].pc # "done" \/ cleanups > 0

\* A session that stands where nobody listens to the clock: a call of the claude
\* command has not returned, the child lives on behind closed pipes, or the
\* two tasks of a structured turn wait for each other.
Stands(s) == \/ sup[s].pc \in {"poll", "stop", "stuck"}
             \/ sup[s].pc = "wait" /\ agent[s].alive

\* A session at work comes to an end, also one whose agent hangs, prints nothing
\* or never leaves the list of agents, whatever races with the clock; unless it
\* comes to one of the waits named above and stays there for good.
SessionEnds ==
    \A s \in Sessions : [](sup[s].pc = "work" => <>(sup[s].pc \in {"done", "gone"}) \/ <>[]Stands(s))
=============================================================================
