------------------------------ MODULE Adapter ------------------------------
(***************************************************************************)
(* One structured turn of a coding agent: the child process, the pump task *)
(* of the provider's protocol adapter, which reads the child's lines and   *)
(* publishes events on a bounded channel, and the consumer task of the     *)
(* agent supervisor, which records the events and the way the turn ended.  *)
(* The child may close its pipes, exit, ignore SIGTERM or leave its pipes  *)
(* to a descendant, in any order; an operator may cancel, the wall clock   *)
(* runs out, and the consumer's no-output watchdog stops a silent turn.    *)
(***************************************************************************)
EXTENDS Naturals, Sequences

CONSTANTS Providers,   \* the adapters of the instance
          Capacity,    \* DEFAULT_EVENT_CHANNEL_CAPACITY
          MaxLines     \* bound: lines a child and its descendants write; past
                       \* it a descendant could keep the drain busy for ever

ASSUME ProviderAssumption == Providers \subseteq {"claude", "codex"}
ASSUME CapacityAssumption == Capacity \in Nat \ {0}
ASSUME LinesAssumption    == MaxLines \in Nat

VARIABLES turn,      \* what the launcher chose: the provider and a watchdog or none
          child,     \* the process, its pipes and what is still in stdout
          pump,      \* the adapter's task
          chan,      \* events published and not yet received
          token,     \* the turn's CancellationToken
          deadline,  \* whether the wall-clock deadline has passed
          consumer,  \* the supervisor's task
          row,       \* the agent_sessions row
          ledger     \* the run_events rows of kind AgentProtocol

vars == <<turn, child, pump, chan, token, deadline, consumer, row, ledger>>

(***************************************************************************)
(* What a line of the provider becomes.  Text, thinking, tools, usage and  *)
(* log entries are "data"; no adapter streams text deltas.                 *)
(***************************************************************************)
Lines == {"init", "say", "done", "fail", "junk"}

ClaudeEvents == [init |-> <<"meta">>,
                 say  |-> <<"data", "data">>,
                 done |-> <<"data", "completed">>,
                 fail |-> <<"failed">>,
                 junk |-> <<>>]

CodexEvents == [init |-> <<"meta">>,
                say  |-> <<"data">>,
                done |-> <<"data", "completed">>,
                fail |-> <<"failed">>,
                junk |-> <<"data">>]

ParseLine(line) == IF turn.provider = "claude" THEN ClaudeEvents[line] ELSE CodexEvents[line]

\* "timeout" and "exit" are Failure events with these codes.
Endings == {"completed", "failed", "cancelled", "timeout", "exit"}

Init ==
    /\ turn \in [provider : Providers, watched : BOOLEAN]
    /\ child = [alive |-> FALSE, out |-> <<>>, open |-> FALSE, err |-> FALSE, wrote |-> 0]
    /\ pump = [pc |-> "none", back |-> "select", todo |-> <<>>, seq |-> 0, last |-> "none",
               eof |-> FALSE, errEof |-> FALSE, why |-> "none", outcome |-> "none"]
    /\ chan = <<>> /\ token = FALSE /\ deadline = FALSE
    /\ consumer = [pc |-> "launch", held |-> <<>>, tripped |-> FALSE, phase |-> "none"]
    /\ row = [status |-> "none", key |-> 0]
    /\ ledger = <<>>

-----------------------------------------------------------------------------
(* The launch: spawn_structured and the adapter's spawn.                   *)

Spawn ==
    /\ consumer.pc = "launch"
    /\ row' = [row EXCEPT !.status = "starting"]
    /\ child' = [child EXCEPT !.alive = TRUE, !.open = TRUE, !.err = TRUE]
    /\ pump' = [pump EXCEPT !.pc = "select"]
    /\ consumer' = [consumer EXCEPT !.pc = "start"]
    /\ UNCHANGED <<turn, chan, token, deadline, ledger>>

\* The executable cannot be started: the caller gets the error, the row stays.
SpawnFails ==
    /\ consumer.pc = "launch"
    /\ row' = [row EXCEPT !.status = "starting"]
    /\ consumer' = [consumer EXCEPT !.pc = "refused"]
    /\ UNCHANGED <<turn, child, pump, chan, token, deadline, ledger>>

Launched == consumer.pc \notin {"launch", "refused"}

-----------------------------------------------------------------------------
(* The child.  A descendant that holds its stdout keeps the pipe open.     *)

Write(line) ==
    /\ child.open /\ child.wrote < MaxLines
    /\ child' = [child EXCEPT !.out = Append(@, line), !.wrote = @ + 1]
    /\ UNCHANGED <<turn, pump, chan, token, deadline, consumer, row, ledger>>

ClosePipe(pipe) ==
    /\ child[pipe]
    /\ child' = [child EXCEPT ![pipe] = FALSE]
    /\ UNCHANGED <<turn, pump, chan, token, deadline, consumer, row, ledger>>

\* What is left of the process: the pipes in kept are in a descendant's hands.
Dead(kept) == [child EXCEPT !.alive = FALSE,
                            !.open = @ /\ "open" \in kept, !.err = @ /\ "err" \in kept]

Exit(kept) ==
    /\ child.alive
    /\ child' = Dead(kept)
    /\ UNCHANGED <<turn, pump, chan, token, deadline, consumer, row, ledger>>

-----------------------------------------------------------------------------
(* The pump.  Its select is biased: cancel, deadline, stdout, stderr.      *)

LoopOver  == pump.eof /\ (pump.errEof \/ pump.last # "none")
Selecting == pump.pc = "select" /\ ~LoopOver
Quiet     == Selecting /\ ~token /\ ~deadline

\* Hand the line's events to the sender, which comes back to the place given.
Publish(events, back) ==
    [pump EXCEPT !.pc = IF events = <<>> THEN back ELSE "send", !.todo = events, !.back = back]

ReadLine ==
    /\ Quiet /\ ~pump.eof /\ child.out # <<>>
    /\ child' = [child EXCEPT !.out = Tail(@)]
    /\ pump' = Publish(ParseLine(Head(child.out)), "select")
    /\ UNCHANGED <<turn, chan, token, deadline, consumer, row, ledger>>

ReadEof ==
    /\ Quiet /\ ~pump.eof /\ child.out = <<>> /\ ~child.open
    /\ pump' = [pump EXCEPT !.eof = TRUE]
    /\ UNCHANGED <<turn, child, chan, token, deadline, consumer, row, ledger>>

ReadErrEof ==
    /\ Quiet /\ ~pump.errEof /\ ~child.err
    /\ pump.eof \/ (child.out = <<>> /\ child.open)
    /\ pump' = [pump EXCEPT !.errEof = TRUE]
    /\ UNCHANGED <<turn, child, chan, token, deadline, consumer, row, ledger>>

\* Mutant of Sent: the first ending is kept and the pump goes on.
SentFirstWins(event) ==
    IF event \notin Endings
    THEN [pump EXCEPT !.seq = @ + 1, !.todo = Tail(@),
                      !.pc = IF Len(pump.todo) = 1 THEN pump.back ELSE "send"]
    ELSE [pump EXCEPT !.seq = @ + 1, !.todo = <<>>, !.pc = pump.back,
                      !.last = IF @ = "none" THEN event ELSE @,
                      !.outcome = IF pump.back = "done" THEN event ELSE "none"]

\* process_stdout_line, send_event and emit_terminal: an ending drops the
\* rest of its line's events and sets what the pump will report.
Sent(event) ==
    IF event \notin Endings
    THEN [pump EXCEPT !.seq = @ + 1, !.todo = Tail(@),
                      !.pc = IF Len(pump.todo) = 1 THEN pump.back ELSE "send"]
    ELSE [pump EXCEPT !.seq = @ + 1, !.todo = <<>>, !.pc = pump.back, !.last = event,
                      !.outcome = IF pump.back = "done" THEN event ELSE "none"]

\* A full channel suspends the pump inside the arm it has taken.
Send ==
    /\ pump.pc = "send" /\ Len(chan) < Capacity
    /\ chan' = Append(chan, [seq |-> pump.seq, event |-> Head(pump.todo)])
    /\ pump' = Sent(Head(pump.todo))
    /\ UNCHANGED <<turn, child, token, deadline, consumer, row, ledger>>

\* The two out-of-band arms: SIGTERM, and up to 2 s for the child to leave.
CancelArm ==
    /\ Selecting /\ token
    /\ pump' = [pump EXCEPT !.pc = "kill", !.why = "cancelled"]
    /\ UNCHANGED <<turn, child, chan, token, deadline, consumer, row, ledger>>

TimeoutArm ==
    /\ Selecting /\ ~token /\ deadline
    /\ pump' = [pump EXCEPT !.pc = "kill", !.why = "timeout"]
    /\ UNCHANGED <<turn, child, chan, token, deadline, consumer, row, ledger>>

\* Mutant of KillWithGrace: SIGTERM, and then a wait without an end.
KillPolitely(kept) ==
    /\ pump.pc = "kill" /\ ~child.alive
    /\ pump' = [pump EXCEPT !.pc = "drain"]
    /\ UNCHANGED <<turn, child, chan, token, deadline, consumer, row, ledger>>

\* The child has left, or SIGKILL takes it: its descendants are not reached.
KillWithGrace(kept) ==
    /\ pump.pc = "kill"
    /\ child' = IF child.alive THEN Dead(kept) ELSE child
    /\ pump' = [pump EXCEPT !.pc = "drain"]
    /\ UNCHANGED <<turn, chan, token, deadline, consumer, row, ledger>>

DrainLine ==
    /\ pump.pc = "drain" /\ child.out # <<>>
    /\ child' = [child EXCEPT !.out = Tail(@)]
    /\ pump' = Publish(ParseLine(Head(child.out)), "drain")
    /\ UNCHANGED <<turn, chan, token, deadline, consumer, row, ledger>>

\* End of file, or 50 ms without a line.
DrainEnds ==
    /\ pump.pc = "drain" /\ child.out = <<>>
    /\ pump' = Publish(<<pump.why>>, "done")
    /\ UNCHANGED <<turn, child, chan, token, deadline, consumer, row, ledger>>

\* An ending was read and stdout is over: the child goes with its handle.
LeaveLoop(kept) ==
    /\ pump.pc = "select" /\ LoopOver /\ pump.last # "none"
    /\ pump' = [pump EXCEPT !.pc = "done", !.outcome = pump.last]
    /\ child' = IF child.alive THEN Dead(kept) ELSE child
    /\ UNCHANGED <<turn, chan, token, deadline, consumer, row, ledger>>

\* No ending was read: wait for the child, whatever the token and the clock say.
AwaitExit ==
    /\ pump.pc = "select" /\ LoopOver /\ pump.last = "none"
    /\ pump' = [pump EXCEPT !.pc = "wait"]
    /\ UNCHANGED <<turn, child, chan, token, deadline, consumer, row, ledger>>

ExitSeen ==
    /\ pump.pc = "wait" /\ ~child.alive
    /\ pump' = Publish(<<"exit">>, "done")
    /\ UNCHANGED <<turn, child, chan, token, deadline, consumer, row, ledger>>

-----------------------------------------------------------------------------
(* The consumer.                                                           *)

Start ==
    /\ consumer.pc = "start"
    /\ row' = [row EXCEPT !.status = "running"]
    /\ consumer' = [consumer EXCEPT !.pc = "recv"]
    /\ UNCHANGED <<turn, child, pump, chan, token, deadline, ledger>>

Recv ==
    /\ consumer.pc = "recv" /\ chan # <<>>
    /\ consumer' = [consumer EXCEPT !.pc = "ingest", !.held = <<Head(chan)>>]
    /\ chan' = Tail(chan)
    /\ UNCHANGED <<turn, child, pump, token, deadline, row, ledger>>

\* StructuredEventSink: the first SessionMeta names the provider's session.
\* A key is the number of the event that carried it plus one; 0 is none.
Ingest ==
    /\ consumer.pc = "ingest"
    /\ LET envelope == consumer.held[1]
       IN  /\ row' = [row EXCEPT !.key = IF envelope.event = "meta" /\ @ = 0
                                         THEN envelope.seq + 1 ELSE @]
           /\ ledger' = Append(ledger, envelope)
    /\ consumer' = [consumer EXCEPT !.pc = "recv", !.held = <<>>]
    /\ UNCHANGED <<turn, child, pump, chan, token, deadline>>

StreamCloses ==
    /\ consumer.pc = "recv" /\ chan = <<>> /\ pump.pc = "done"
    /\ consumer' = [consumer EXCEPT !.pc = "finish"]
    /\ UNCHANGED <<turn, child, pump, chan, token, deadline, row, ledger>>

\* An idle window passes: the consumer stops reading, and then cancels.
WatchdogTrips ==
    /\ consumer.pc = "recv" /\ turn.watched /\ chan = <<>> /\ pump.pc # "done"
    /\ consumer' = [consumer EXCEPT !.pc = "trip", !.tripped = TRUE]
    /\ UNCHANGED <<turn, child, pump, chan, token, deadline, row, ledger>>

WatchdogCancels ==
    /\ consumer.pc = "trip"
    /\ token' = TRUE
    /\ consumer' = [consumer EXCEPT !.pc = "finish"]
    /\ UNCHANGED <<turn, child, pump, chan, deadline, row, ledger>>

\* map_outcome, and the phase of a turn the watchdog stopped.
PhaseOf(outcome) == [completed |-> "completed", failed |-> "failed", exit |-> "failed",
                     timeout |-> "timed_out", cancelled |-> "cancelled"][outcome]

StatusOf(phase) == IF phase = "timed_out" THEN "failed" ELSE phase

Finish ==
    /\ consumer.pc = "finish" /\ pump.pc = "done"
    /\ LET phase == IF consumer.tripped THEN "timed_out" ELSE PhaseOf(pump.outcome)
       IN  /\ consumer' = [consumer EXCEPT !.pc = "ended", !.phase = phase]
           /\ row' = [row EXCEPT !.status = StatusOf(phase)]
    /\ UNCHANGED <<turn, child, pump, chan, token, deadline, ledger>>

-----------------------------------------------------------------------------
(* From outside: an operator's cancel, and the clock.                      *)

Cancel ==
    /\ Launched /\ ~token
    /\ token' = TRUE
    /\ UNCHANGED <<turn, child, pump, chan, deadline, consumer, row, ledger>>

DeadlinePasses ==
    /\ Launched /\ ~deadline
    /\ deadline' = TRUE
    /\ UNCHANGED <<turn, child, pump, chan, token, consumer, row, ledger>>

-----------------------------------------------------------------------------

PumpNext ==
    \/ ReadLine \/ ReadEof \/ ReadErrEof \/ Send \/ CancelArm \/ TimeoutArm
    \/ DrainLine \/ DrainEnds \/ AwaitExit \/ ExitSeen
    \/ \E kept \in SUBSET {"open", "err"} : KillWithGrace(kept) \/ LeaveLoop(kept)

ConsumerNext ==
    Start \/ Recv \/ Ingest \/ StreamCloses \/ WatchdogTrips \/ WatchdogCancels \/ Finish

ChildNext ==
    \/ \E line \in Lines : Write(line)
    \/ \E pipe \in {"open", "err"} : ClosePipe(pipe)
    \/ \E kept \in SUBSET {"open", "err"} : Exit(kept)

Next == Spawn \/ SpawnFails \/ ChildNext \/ PumpNext \/ ConsumerNext \/ Cancel \/ DeadlinePasses

Spec == Init /\ [][Next]_vars

(***************************************************************************)
(* The two tasks run on the server's executor, and the clock advances.     *)
(* Nothing is assumed of the child.                                        *)
(***************************************************************************)
FairSpec ==
    /\ Spec
    /\ WF_vars(PumpNext)
    /\ WF_vars(ConsumerNext)
    /\ WF_vars(DeadlinePasses)

-----------------------------------------------------------------------------
(***************************************************************************)
(* What a structured turn promises, and the only two ways in which it may  *)
(* never end.                                                              *)
(***************************************************************************)

Ended == consumer.pc = "ended"

\* The rows follow the stream: the i-th row is the i-th event published.
RowsFollowStream == \A i \in DOMAIN ledger : ledger[i].seq = i - 1

\* The row carries the session the agent announced first, and no other.
KeyIsFirstMeta ==
    \/ row.key = 0 /\ \A i \in DOMAIN ledger : ledger[i].event # "meta"
    \/ /\ row.key \in DOMAIN ledger
       /\ ledger[row.key].event = "meta"
       /\ \A i \in 1..(row.key - 1) : ledger[i].event # "meta"

\* The last ending recorded is what the turn is reported as.
EndingIsLast(phase) ==
    \E i \in DOMAIN ledger :
        /\ ledger[i].event \in Endings /\ PhaseOf(ledger[i].event) = phase
        /\ \A j \in (i + 1)..Len(ledger) : ledger[j].event \notin Endings

\* A reader of the run's ledger is told the same story as the session's row.
\* The rows are the published events in their order with none left out, the
\* row keeps the first provider session, and when the turn has ended the child
\* is dead and, unless the watchdog stopped the reading, every event has its
\* row and the last ending among them is the one the session is marked with
\* (structured.rs consume and map_outcome, the pumps of claude.rs and codex.rs;
\* protocol.rs:248 "mirrors the terminal ProtocolEvent").
RecordTellsTheTurn ==
    /\ RowsFollowStream
    /\ KeyIsFirstMeta
    /\ Ended =>
        /\ ~child.alive
        /\ row.status = StatusOf(consumer.phase)
        /\ consumer.tripped => consumer.phase = "timed_out"
        /\ ~consumer.tripped => Len(ledger) = pump.seq /\ EndingIsLast(consumer.phase)

\* The pump waits for a child that closed both its pipes and goes on living:
\* neither the token nor the deadline is looked at any more (claude.rs:449).
AwaitsChild == pump.pc = "wait" /\ child.alive

\* The watchdog's consumer waits for the pump and no longer reads, the pump
\* waits for room in the channel (structured.rs:121, process.rs:90).
WaitsForEachOther == /\ consumer.pc = "finish" /\ pump.pc = "send"
                     /\ Len(chan) = Capacity

\* A turn that was launched ends, whatever its child does: it may be silent,
\* write on, ignore SIGTERM, or leave its pipes to a descendant.  It ends
\* within the deadline but for two standing waits, each of which is then
\* permanent: for a child that lives on behind closed pipes, and of consumer
\* and pump for each other.  (The pumps of claude.rs and codex.rs, process.rs
\* kill_with_grace; structured.rs:98 "a window that elapses with no event
\* means a hung-but-alive turn", which the code means to kill.)
TurnSettles ==
    [](Launched => <>Ended \/ <>[]AwaitsChild \/ <>[]WaitsForEachOther)
=============================================================================
