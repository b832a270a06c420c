----------------------------- MODULE Conversation -----------------------------
(***************************************************************************)
(* One chat conversation: its turn rows and their event logs, the requests *)
(* that start and cancel turns, the task that drives each turn through an  *)
(* agent CLI, the event bus, and the viewers of the event stream.  Every   *)
(* database access and every access to the bus or to the map of tokens is  *)
(* an action of its own; the rows are written without a look at their      *)
(* state.  A bus channel is created by whoever asks for it first, so only  *)
(* who still holds a receiver of a live channel matters (open).            *)
(***************************************************************************)
EXTENDS Integers, Sequences

CONSTANTS
    Starters,     \* requests that post a message
    Cancellers,   \* cancel requests and forced takeovers
    Viewers,      \* clients of the event stream
    BusCap,       \* TURN_BUS_CAPACITY
    MaxTurns,     \* bound: turns
    MaxEvents,    \* bound: events of a turn that do not end it
    MaxCancels,   \* bound: cancel requests
    MaxReopens,   \* bound: reconnects of viewers
    MaxFaults     \* bound: restarts, dropped handlers and errors of a turn's task

ASSUME BoundAssumption ==
    /\ BusCap \in Nat \ {0} /\ MaxTurns \in Nat \ {0} /\ MaxEvents \in Nat
    /\ MaxCancels \in Nat /\ MaxReopens \in Nat /\ MaxFaults \in Nat

Turns        == 1 .. MaxTurns      \* in creation order
TurnActive   == {"pending", "streaming"}
TurnTerminal == {"completed", "failed", "cancelled"}

\* The status an ending event gives its turn.
StatusOf == [completion |-> "completed", failure |-> "failed", cancelled |-> "cancelled"]
EndKinds == DOMAIN StatusOf

VARIABLES
    turns,              \* conversation_turns: status of each turn
    log,                \* turn_events: the kinds of events of each turn, first seq is 0
    tpc, ending, fired, \* turn tasks: control point, ending event in hand, token has fired
    spc, sturn,         \* starters
    xpc, xturn,         \* cancellers
    view,               \* viewers: the locals of stream_turn, and what the client has seen
    cancels, reopens, faults

task    == <<tpc, ending, fired>>
sVars   == <<spc, sturn>>
xVars   == <<xpc, xturn>>
bounds  == <<cancels, reopens, faults>>
vars    == <<turns, log, task, sVars, xVars, view, bounds>>

\* finished: the status read at the start was terminal; resumed: the request
\* has a Last-Event-ID; open: the receiver's channel has not been closed.
NewView == [at |-> "idle", turn |-> 1, finished |-> FALSE, resumed |-> FALSE, last |-> 0,
            inbox |-> <<>>, lagged |-> FALSE, open |-> FALSE, seen |-> <<>>]

Init ==
    /\ turns = [t \in Turns |-> "absent"] /\ log = [t \in Turns |-> <<>>]
    /\ tpc = [t \in Turns |-> "none"] /\ ending = [t \in Turns |-> "completion"]
    /\ fired = [t \in Turns |-> FALSE]
    /\ spc = [r \in Starters |-> "idle"] /\ sturn = [r \in Starters |-> 1]
    /\ xpc = [c \in Cancellers |-> "idle"] /\ xturn = [c \in Cancellers |-> 1]
    /\ view = [v \in Viewers |-> NewView]
    /\ cancels = 0 /\ reopens = 0 /\ faults = 0

Terminal(t)   == turns[t] \in TurnTerminal
Active        == {t \in Turns : turns[t] \in TurnActive}
Registered(t) == tpc[t] \notin {"none", "gone"}
Ended(t)      == \E i \in 1 .. Len(log[t]) : log[t][i] \in EndKinds
Fault         == faults < MaxFaults /\ faults' = faults + 1

-----------------------------------------------------------------------------
(* start_turn: look for an active turn, insert one, then spawn its task.   *)
(* A first turn also fetches its issue in between.                         *)

StartLook(r) ==
    /\ spc[r] = "idle" /\ Active = {}
    /\ spc' = [spc EXCEPT ![r] = "create"]
    /\ UNCHANGED <<turns, log, task, sturn, xVars, view, bounds>>

StartCreate(r) ==
    /\ spc[r] = "create"
    /\ \E t \in Turns :
          /\ turns[t] = "absent" /\ \A u \in Turns : u < t => turns[u] # "absent"
          /\ turns' = [turns EXCEPT ![t] = "pending"] /\ sturn' = [sturn EXCEPT ![r] = t]
    /\ spc' = [spc EXCEPT ![r] = "spawn"]
    /\ UNCHANGED <<log, task, xVars, view, bounds>>

StartSpawn(r) ==
    /\ spc[r] = "spawn"
    /\ tpc' = [tpc EXCEPT ![sturn[r]] = "start"] /\ spc' = [spc EXCEPT ![r] = "idle"]
    /\ UNCHANGED <<turns, log, ending, fired, sturn, xVars, view, bounds>>

\* The handler's future is dropped with its connection.
StartDropped(r) ==
    /\ spc[r] \in {"create", "spawn"} /\ Fault
    /\ spc' = [spc EXCEPT ![r] = "idle"]
    /\ UNCHANGED <<turns, log, task, sturn, xVars, view, cancels, reopens>>

-----------------------------------------------------------------------------
(* The turn's task: spawn_turn_task and drive_turn over an adapter stream  *)

Drives(t, from, to) == tpc[t] = from /\ tpc' = [tpc EXCEPT ![t] = to]
Mark(t, s)          == turns' = [turns EXCEPT ![t] = s]

\* Mutant: a turn whose agent cannot be started is closed as it is.
AdapterFailsQuietly(t) ==
    /\ Drives(t, "start", "close")
    /\ UNCHANGED <<turns, log, ending, fired, sVars, xVars, view, bounds>>

\* The agent CLI cannot be started.
AdapterFails(t) ==
    /\ Drives(t, "start", "fail")
    /\ UNCHANGED <<turns, log, ending, fired, sVars, xVars, view, bounds>>

MarkStreaming(t) ==
    /\ Drives(t, "start", "recv") /\ Mark(t, "streaming")
    /\ UNCHANGED <<log, ending, fired, sVars, xVars, view, bounds>>

\* An event that does not end the turn; the pump sends none after the end.
ReceiveData(t) ==
    /\ Drives(t, "recv", "publish") /\ ~Ended(t) /\ Len(log[t]) < MaxEvents
    /\ log' = [log EXCEPT ![t] = Append(@, "data")]
    /\ UNCHANGED <<turns, ending, fired, sVars, xVars, view, bounds>>

\* Mutants: the row is not settled before the event; the pump does not
\* listen to its token.
ReceiveEndUnmarked(t, k) ==
    /\ Drives(t, "recv", "append") /\ ending' = [ending EXCEPT ![t] = k]
    /\ IF k = "cancelled" THEN fired[t] /\ ~Ended(t) ELSE ~Ended(t)
    /\ UNCHANGED <<turns, log, fired, sVars, xVars, view, bounds>>

\* An event that ends the turn.  The agent completes or fails once; Cancelled
\* is the pump's last word after its token has fired, also after another end.
ReceiveEnd(t, k) ==
    /\ Drives(t, "recv", "append")
    /\ IF k = "cancelled"
       THEN fired[t] /\ \A i \in 1 .. Len(log[t]) : log[t][i] # k
       ELSE ~Ended(t)
    /\ Mark(t, StatusOf[k]) /\ ending' = [ending EXCEPT ![t] = k]
    /\ UNCHANGED <<log, fired, sVars, xVars, view, bounds>>

AppendEnd(t) ==
    /\ Drives(t, "append", "publish")
    /\ log' = [log EXCEPT ![t] = Append(@, ending[t])]
    /\ UNCHANGED <<turns, ending, fired, sVars, xVars, view, bounds>>

\* TurnEventBus::publish: a full receiver loses its oldest envelope.
Receive(w, n) ==
    IF Len(w.inbox) < BusCap THEN [w EXCEPT !.inbox = Append(@, n)]
    ELSE [w EXCEPT !.inbox = Append(Tail(@), n), !.lagged = TRUE]

Publish(t) ==
    /\ Drives(t, "publish", "recv")
    /\ view' = [v \in Viewers |->
          IF view[v].open /\ view[v].turn = t THEN Receive(view[v], Len(log[t]) - 1) ELSE view[v]]
    /\ UNCHANGED <<turns, log, ending, fired, sVars, xVars, bounds>>

\* The pump closes its channel after an ending event.
EndOfStream(t) ==
    /\ Drives(t, "recv", "close") /\ Ended(t)
    /\ UNCHANGED <<turns, log, ending, fired, sVars, xVars, view, bounds>>

\* A `?` of drive_turn: a database error, or the pump's own.
TaskFails(t) ==
    /\ tpc[t] \in {"start", "recv", "append"} /\ Fault
    /\ tpc' = [tpc EXCEPT ![t] = "fail"]
    /\ UNCHANGED <<turns, log, ending, fired, sVars, xVars, view, cancels, reopens>>

MarkFailed(t) ==
    /\ Drives(t, "fail", "close") /\ Mark(t, "failed")
    /\ UNCHANGED <<log, ending, fired, sVars, xVars, view, bounds>>

\* TurnEventBus::close: the channel goes, its receivers keep what they hold.
CloseBus(t) ==
    view' = [v \in Viewers |->
        IF view[v].turn = t THEN [view[v] EXCEPT !.open = FALSE] ELSE view[v]]

\* Mutant: the task leaves its bus open.
CloseForgotten(t) ==
    /\ Drives(t, "close", "release")
    /\ UNCHANGED <<turns, log, ending, fired, sVars, xVars, view, bounds>>

Close(t) ==
    /\ Drives(t, "close", "release") /\ CloseBus(t)
    /\ UNCHANGED <<turns, log, ending, fired, sVars, xVars, bounds>>

Release(t) ==
    /\ Drives(t, "release", "gone") /\ fired' = [fired EXCEPT ![t] = FALSE]
    /\ UNCHANGED <<turns, log, ending, sVars, xVars, view, bounds>>

Task(t) ==
    \/ AdapterFails(t) \/ MarkStreaming(t) \/ ReceiveData(t)
    \/ \E k \in EndKinds : ReceiveEnd(t, k)
    \/ AppendEnd(t) \/ Publish(t) \/ EndOfStream(t) \/ TaskFails(t) \/ MarkFailed(t)
    \/ Close(t) \/ Release(t)

-----------------------------------------------------------------------------
(* cancel_turn, and force_cancel_active_turn before it                     *)

ForceFind(c) ==
    /\ xpc[c] = "idle" /\ cancels < MaxCancels /\ cancels' = cancels + 1
    /\ \E t \in Active : (\A u \in Active : u <= t) /\ xturn' = [xturn EXCEPT ![c] = t]
    /\ xpc' = [xpc EXCEPT ![c] = "look"]
    /\ UNCHANGED <<turns, log, task, sVars, view, reopens, faults>>

CancelRequest(c, t) ==
    /\ xpc[c] = "idle" /\ cancels < MaxCancels /\ cancels' = cancels + 1
    /\ turns[t] \in TurnActive
    /\ xpc' = [xpc EXCEPT ![c] = "fire"] /\ xturn' = [xturn EXCEPT ![c] = t]
    /\ UNCHANGED <<turns, log, task, sVars, view, reopens, faults>>

CancelLook(c) ==
    /\ xpc[c] = "look"
    /\ xpc' = [xpc EXCEPT ![c] = IF Terminal(xturn[c]) THEN "idle" ELSE "fire"]
    /\ UNCHANGED <<turns, log, task, sVars, xturn, view, bounds>>

CancelFire(c) ==
    /\ xpc[c] = "fire"
    /\ fired' = [fired EXCEPT ![xturn[c]] = @ \/ Registered(xturn[c])]
    /\ xpc' = [xpc EXCEPT ![c] = "mark"]
    /\ UNCHANGED <<turns, log, tpc, ending, sVars, xturn, view, bounds>>

CancelMark(c) ==
    /\ xpc[c] = "mark" /\ Mark(xturn[c], "cancelled")
    /\ xpc' = [xpc EXCEPT ![c] = "close"]
    /\ UNCHANGED <<log, task, sVars, xturn, view, bounds>>

CancelClose(c) ==
    /\ xpc[c] = "close" /\ CloseBus(xturn[c])
    /\ xpc' = [xpc EXCEPT ![c] = "idle"]
    /\ UNCHANGED <<turns, log, task, sVars, xturn, bounds>>

CancelDropped(c) ==
    /\ xpc[c] \in {"look", "mark", "close"} /\ Fault
    /\ xpc' = [xpc EXCEPT ![c] = "idle"]
    /\ UNCHANGED <<turns, log, task, sVars, xturn, view, cancels, reopens>>

Cancel(c) ==
    ForceFind(c) \/ CancelLook(c) \/ CancelFire(c) \/ CancelMark(c) \/ CancelClose(c)
    \/ CancelDropped(c) \/ \E t \in Turns : CancelRequest(c, t)

-----------------------------------------------------------------------------
(* stream_turn, and the client that reconnects with what it saw last       *)

\* list_by_turn_after; list_by_turn is After(t, -1).
After(t, n) == [i \in 1 .. Len(log[t]) - 1 - n |-> n + i]
Latest(w)   == w.seen[Len(w.seen)]
Shows(w, s) == [w EXCEPT !.seen = @ \o s, !.last = IF s = <<>> THEN @ ELSE s[Len(s)]]
Leave(w, p) == [NewView EXCEPT !.at = p, !.turn = w.turn, !.seen = w.seen]
View(v, w)  == view' = [view EXCEPT ![v] = w] /\ UNCHANGED <<turns, log, task, sVars, xVars>>

Open(v, t) ==
    /\ view[v].at = "idle" /\ turns[t] # "absent"
    /\ View(v, [NewView EXCEPT !.at = "subscribe", !.turn = t, !.finished = Terminal(t)])
    /\ UNCHANGED bounds

\* The stream ended without `done`, or the connection broke.
Reopen(v) ==
    LET w == view[v] IN
    /\ w.at \in {"live", "ended"} /\ reopens < MaxReopens /\ reopens' = reopens + 1
    /\ View(v, [Leave(w, "subscribe") EXCEPT
           !.finished = Terminal(w.turn), !.resumed = w.seen # <<>>,
           !.last = IF w.seen = <<>> THEN 0 ELSE Latest(w)])
    /\ UNCHANGED <<cancels, faults>>

Subscribe(v) ==
    /\ view[v].at = "subscribe"
    /\ View(v, [view[v] EXCEPT !.at = "history", !.open = TRUE])
    /\ UNCHANGED bounds

\* The stored events; a turn that had ended needs no more.
History(v) ==
    LET w == view[v]
        s == After(w.turn, IF w.resumed THEN w.last ELSE -1)
    IN
    /\ w.at = "history"
    /\ View(v, IF w.finished THEN Leave(Shows(w, s), "done") ELSE [Shows(w, s) EXCEPT !.at = "live"])
    /\ UNCHANGED bounds

\* Mutant: the last event of the history is not recognised.
LiveAgain(v) ==
    LET w == view[v]
        n == Head(w.inbox)
        x == [Shows(w, <<n>>) EXCEPT !.inbox = Tail(@)]
    IN
    /\ w.at = "live" /\ ~w.lagged /\ w.inbox # <<>>
    /\ View(v, IF n < w.last THEN [w EXCEPT !.inbox = Tail(@)]
               ELSE IF log[w.turn][n + 1] \in EndKinds THEN Leave(x, "done") ELSE x)
    /\ UNCHANGED bounds

\* An envelope of the bus, unless the history had it.
Live(v) ==
    LET w == view[v]
        n == Head(w.inbox)
        x == [Shows(w, <<n>>) EXCEPT !.inbox = Tail(@)]
    IN
    /\ w.at = "live" /\ ~w.lagged /\ w.inbox # <<>>
    /\ View(v, IF n <= w.last THEN [w EXCEPT !.inbox = Tail(@)]
               ELSE IF log[w.turn][n + 1] \in EndKinds THEN Leave(x, "done") ELSE x)
    /\ UNCHANGED bounds

\* Mutant: a viewer that has lost envelopes goes on with the next one.
LaggedSkips(v) ==
    /\ view[v].at = "live" /\ view[v].lagged
    /\ View(v, [view[v] EXCEPT !.lagged = FALSE])
    /\ UNCHANGED bounds

\* Envelopes were lost: read on in the database.
Lagged(v) ==
    LET w == view[v] IN
    /\ w.at = "live" /\ w.lagged
    /\ View(v, [Shows(w, After(w.turn, w.last)) EXCEPT !.lagged = FALSE])
    /\ UNCHANGED bounds

Closed(v) ==
    LET w == view[v] IN
    /\ w.at = "live" /\ ~w.lagged /\ w.inbox = <<>> /\ ~w.open
    /\ View(v, [Shows(w, After(w.turn, w.last)) EXCEPT !.at = "status"])
    /\ UNCHANGED bounds

LastStatus(v) ==
    LET w == view[v] IN
    /\ w.at = "status"
    /\ View(v, Leave(w, IF Terminal(w.turn) THEN "done" ELSE "ended"))
    /\ UNCHANGED bounds

Streams(v) == Subscribe(v) \/ History(v) \/ Live(v) \/ Lagged(v) \/ Closed(v) \/ LastStatus(v)

-----------------------------------------------------------------------------
\* A restart: rows and logs stay, nobody drives the turns any more.
Crash ==
    /\ Fault
    /\ tpc' = [t \in Turns |-> IF Registered(t) THEN "gone" ELSE tpc[t]]
    /\ fired' = [t \in Turns |-> FALSE]
    /\ spc' = [r \in Starters |-> "idle"] /\ xpc' = [c \in Cancellers |-> "idle"]
    /\ view' = [v \in Viewers |-> Leave(view[v], IF view[v].at \in {"idle", "done"} THEN view[v].at ELSE "ended")]
    /\ UNCHANGED <<turns, log, ending, sturn, xturn, cancels, reopens>>

Next ==
    \/ \E r \in Starters : StartLook(r) \/ StartCreate(r) \/ StartSpawn(r) \/ StartDropped(r)
    \/ \E t \in Turns : Task(t)
    \/ \E c \in Cancellers : Cancel(c)
    \/ \E v \in Viewers : Streams(v) \/ Reopen(v) \/ \E t \in Turns : Open(v, t)
    \/ Crash

Spec == Init /\ [][Next]_vars

\* A task goes on wherever it does not wait for the agent; a fired token
\* makes the pump kill the agent, say Cancelled and end.  An agent that
\* nobody cancels may be silent for ever: a turn has no time limit.
TaskMoves(t) ==
    \/ MarkStreaming(t) \/ AppendEnd(t) \/ Publish(t) \/ EndOfStream(t) \/ MarkFailed(t)
    \/ Close(t) \/ Release(t) \/ ReceiveEnd(t, "cancelled")

FairSpec ==
    /\ Spec
    /\ \A t \in Turns : WF_vars(TaskMoves(t))
    /\ \A v \in Viewers : WF_vars(Streams(v))

-----------------------------------------------------------------------------
(***************************************************************************)
(* What the chat promises the operator, and the conversation's contract.   *)
(***************************************************************************)

\* "the ordering / replay logic stays here": across history, live events,
\* lag, a closed bus and reconnects a client is shown consecutive events,
\* each once, from the first (or the second, see the README) on.
ShownInOrder ==
    \A v \in Viewers :
        LET s == view[v].seen IN
        /\ s # <<>> => s[1] \in {0, 1}
        /\ \A i \in 1 .. Len(s) - 1 : s[i + 1] = s[i] + 1

\* A turn is pending or streaming, and so keeps the operator from sending,
\* only while its task runs or is about to be spawned.  A restart or a
\* dropped request is the only way to a turn that needs a cancel.
ActiveHasTask ==
    faults = 0 =>
        \A t \in Active : Registered(t) \/ \E r \in Starters : spc[r] = "spawn" /\ sturn[r] = t

\* The rows, the log and what viewers are shown implement the contract.
Contract == INSTANCE ConversationContract
                WITH turns <- turns, log <- log,
                     watched <- [v \in Viewers |-> view[v].turn],
                     shown <- [v \in Viewers |-> view[v].seen]
ImplementsContract == Contract!Spec

-----------------------------------------------------------------------------
\* "We trip the registered cancellation token first so the adapter pump
\* observes the cancel": once its token has fired, a turn's task ends, its
\* token is deregistered and its row is settled, even if the agent hangs.  A
\* viewer that listens to the turn is let go too, if it subscribed before the
\* task closed the bus: a later one has a new channel.
CancelSettles ==
    \A t \in Turns :
        /\ fired[t] ~> ~Registered(t) /\ (Terminal(t) \/ faults > 0)
        /\ \A v \in Viewers :
               (fired[t] /\ tpc[t] # "release" /\ view[v].at = "live" /\ view[v].turn = t /\ view[v].open)
                   ~> view[v].at # "live"

-----------------------------------------------------------------------------
(* What comments claim and the code does not do                            *)

\* "Concurrency contract: at most one non-terminal turn per conversation"
\* (conversation_runner).
OneActiveTurn == \A t, u \in Active : t = u
=============================================================================
