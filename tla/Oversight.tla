----------------------------- MODULE Oversight -----------------------------
(***************************************************************************)
(* Who notices that a run went silent: engines and services that write run *)
(* rows, the listener that stamps heartbeats from the session bus, and the *)
(* recovery scheduler that keeps an audit trail of stalls and recoveries.  *)
(***************************************************************************)
EXTENDS RunTable

CONSTANTS
    BusCapacity,
    MaxPulses,    \* bound: session events, stamps growing old, operators' writes
    MaxSlips      \* bound: queries that fail

ASSUME PulseAssumption == BusCapacity \in Nat \ {0} /\ MaxPulses \in Nat /\ MaxSlips \in Nat

VARIABLES
    engine,   \* runs whose engine is at work
    bus,      \* session events the listener has not received
    sched,    \* the tick: pc, runs left, those its listing found silent, row to publish
    trail,    \* run_recovery_events of each run
    told,     \* the same as published on the workspace bus
    pulses, slips

overVars == <<engine, bus, sched, trail, told, pulses, slips>>
audit    == <<sched, trail, told>>

Kinds   == {"stalled", "recovered"}
News    == [run : Runs, kind : Kinds]
NoNews  == [run |-> "none", kind |-> "none"]
NoTick  == [pc |-> "idle", left |-> {}, silent |-> {}, news |-> NoNews]

OverInit ==
    /\ engine = {} /\ bus = <<>> /\ sched = NoTick
    /\ trail = [r \in Runs |-> <<>>] /\ told = [r \in Runs |-> <<>>]
    /\ pulses = 0 /\ slips = 0

Pulse == pulses < MaxPulses /\ pulses' = pulses + 1 /\ UNCHANGED slips
Slip  == slips < MaxSlips /\ slips' = slips + 1 /\ UNCHANGED pulses
Quiet == UNCHANGED <<pulses, slips>>

-----------------------------------------------------------------------------
(* Writers of the rows                                                     *)

\* The engine saves the copy it was spawned with, which has seen no heartbeat.
EngineMoves(r) ==
    /\ r \in engine
    /\ \E s \in {"working", "waiting", "ended"} :
          /\ rows[r].state = "queued" => s # "waiting"
          /\ Save(r, s, "fresh", "null")
          /\ engine' = IF s = "ended" THEN engine \ {r} ELSE engine
    /\ UNCHANGED <<bus, audit>> /\ Quiet

\* A save without a transition: the worktree's path, the key of the next step.
EngineSaves(r) ==
    /\ r \in engine /\ rows[r].state = "working"
    /\ Save(r, "working", rows[r].updated, "null")
    /\ UNCHANGED <<engine, bus, audit>> /\ Quiet

\* An interrupt or a cancel loads the row before it saves it.
ServiceMoves(r) ==
    /\ Active(r) /\ Pulse
    /\ \E s \in {"waiting", "ended"} :
          /\ s = "waiting" => rows[r].state = "working"
          /\ Save(r, s, "fresh", rows[r].beat)
    /\ UNCHANGED <<engine, bus, audit>>

SessionEvent(r) ==
    /\ r \in engine /\ Pulse
    /\ bus' = IF Len(bus) = BusCapacity THEN Append(Tail(bus), r) ELSE Append(bus, r)
    /\ UNCHANGED <<rows, engine, audit>>

Grow(s) == IF s = "fresh" THEN "old" ELSE s

\* Time passes without a sign of the run; its heartbeat may be the newer stamp.
Silence(r) ==
    /\ Active(r) /\ Pulse
    /\ \E b \in {rows[r].beat, Grow(rows[r].beat)} :
          /\ Save(r, rows[r].state, "old", b) /\ <<"old", b>> # <<rows[r].updated, rows[r].beat>>
    /\ UNCHANGED <<engine, bus, audit>>

-----------------------------------------------------------------------------
(* Heartbeat listener                                                      *)

Stamp(r) ==
    IF Active(r) THEN Save(r, rows[r].state, rows[r].updated, "fresh") ELSE UNCHANGED rows

Listen ==
    /\ bus # <<>> /\ bus' = Tail(bus) /\ Stamp(Head(bus))
    /\ UNCHANGED <<engine, audit>> /\ Quiet

ListenFails == bus # <<>> /\ bus' = Tail(bus) /\ Slip /\ UNCHANGED <<rows, engine, audit>>

-----------------------------------------------------------------------------
(* Recovery scheduler                                                      *)

\* classify: the newer of the two stamps is past the threshold.
Silent(r) == Active(r) /\ rows[r].updated = "old" /\ rows[r].beat # "fresh"

Latest(r) == IF trail[r] = <<>> THEN "none" ELSE trail[r][Len(trail[r])]

\* Mutant: a run found silent is reported at every tick.
DecideAlways(r) ==
    IF r \in sched.silent THEN {"stalled"}
    ELSE IF Latest(r) = "stalled" THEN {"recovered"} ELSE {}

\* Mutant: only a run that was never reported is reported as stalled.
DecideOnce(r) ==
    IF r \in sched.silent THEN {"stalled"} \cap {k \in Kinds : Latest(r) = "none"}
    ELSE IF Latest(r) = "stalled" THEN {"recovered"} ELSE {}

\* The kind of row to insert, if any.
Decide(r) ==
    IF r \in sched.silent THEN {"stalled"} \ {Latest(r)}
    ELSE IF Latest(r) = "stalled" THEN {"recovered"} ELSE {}

\* The listing of candidates; the clock is read once, just before.
Tick ==
    /\ sched.pc = "idle" /\ \E r \in Runs : Active(r)
    /\ sched' = [pc |-> "scan", left |-> {r \in Runs : Active(r)}, silent |-> {r \in Runs : Silent(r)},
                 news |-> NoNews]
    /\ UNCHANGED <<rows, engine, bus, trail, told>> /\ Quiet

\* The tick goes on with the runs left.
Pass(left) == sched' = IF left = {} THEN NoTick ELSE [sched EXCEPT !.pc = "scan", !.left = left, !.news = NoNews]

Visits(r) == sched.pc = "scan" /\ r \in sched.left

Skip(r) ==
    /\ Visits(r) /\ Decide(r) = {} /\ Pass(sched.left \ {r})
    /\ UNCHANGED <<rows, engine, bus, trail, told>> /\ Quiet

Report(r) ==
    /\ Visits(r)
    /\ \E k \in Decide(r) :
          /\ trail' = [trail EXCEPT ![r] = Append(@, k)]
          /\ sched' = [sched EXCEPT !.pc = "publish", !.left = @ \ {r}, !.news = [run |-> r, kind |-> k]]
    /\ UNCHANGED <<rows, engine, bus, told>> /\ Quiet

\* The latest row cannot be read, or the new one not inserted: the next tick tries again.
VisitFails(r) ==
    /\ Visits(r) /\ Slip /\ Pass(sched.left \ {r})
    /\ UNCHANGED <<rows, engine, bus, trail, told>>

Publish ==
    /\ sched.pc = "publish" /\ Pass(sched.left)
    /\ told' = [told EXCEPT ![sched.news.run] = Append(@, sched.news.kind)]
    /\ UNCHANGED <<rows, engine, bus, trail>> /\ Quiet

-----------------------------------------------------------------------------
Scheduler == Tick \/ Publish \/ \E r \in Runs : Skip(r) \/ Report(r)
Listener  == Listen \/ ListenFails

OverNext ==
    \/ \E r \in Runs : EngineMoves(r) \/ EngineSaves(r) \/ ServiceMoves(r) \/ SessionEvent(r) \/ Silence(r)
    \/ Listener \/ Scheduler \/ \E r \in Runs : VisitFails(r)

\* A restart: no engine takes its run up again.
OverCrash ==
    /\ engine' = {} /\ bus' = <<>> /\ sched' = NoTick
    /\ UNCHANGED <<trail, told, pulses, slips>>

=============================================================================
