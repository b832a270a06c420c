------------------------------ MODULE Terminals ------------------------------
(***************************************************************************)
(* The terminals an operator can drive on one run: the agent's own (the    *)
(* primary) and those opened beside it as takeovers.  Each takeover has a  *)
(* watchdog; each terminal a writer lease that the browsers connected to   *)
(* it take from one another.                                               *)
(***************************************************************************)
EXTENDS Integers, Sequences

CONSTANTS
    Takeovers,    \* numbers
    Closers,      \* close requests at work at once
    Sockets,      \* browser connections
    MaxCalls,     \* bound: opens, closes and connections
    MaxLapses     \* bound: events not inserted, dropped handlers

ASSUME TakeoverAssumption == Takeovers \subseteq Nat \ {0}
ASSUME CallAssumption == MaxCalls \in Nat /\ MaxLapses \in Nat

Primary == 0
Ptys    == Takeovers \cup {Primary}
None    == 0    \* no takeover

VARIABLES
    primary,  \* the supervisor's terminal: "none", "registered", "removed"
    take,     \* each takeover: its opener, child, watchdog, operator_closed
    listed,   \* PtySessionRegistry.takeovers
    log,      \* run events of each takeover
    closer, sock,
    lease,    \* writer_lease of each terminal: a socket or "free"
    newest,   \* the last socket that took each lease
    calls, lapses

termVars == <<primary, take, listed, log, closer, sock, lease, newest, calls, lapses>>
leases   == <<lease, newest>>

\* open: the handler; dog: the watchdog; closed: operator_closed.
NewTake  == [open |-> "none", alive |-> FALSE, dog |-> "none", closed |-> FALSE]
NewClose == [pc |-> "idle", of |-> None]
NewSock  == [pc |-> "idle", to |-> Primary]

TermInit ==
    /\ primary = "none" /\ take = [t \in Takeovers |-> NewTake] /\ listed = {}
    /\ log = [t \in Takeovers |-> <<>>]
    /\ closer = [c \in Closers |-> NewClose] /\ sock = [x \in Sockets |-> NewSock]
    /\ lease = [p \in Ptys |-> "free"] /\ newest = [p \in Ptys |-> "free"]
    /\ calls = 0 /\ lapses = 0

Lapse == lapses < MaxLapses /\ lapses' = lapses + 1
Call  == calls < MaxCalls /\ calls' = calls + 1
Says(t, what) == log' = [log EXCEPT ![t] = Append(@, what)]

\* The supervisor registers the agent's terminal and later removes it.
PrimaryMoves ==
    /\ \/ primary = "none" /\ primary' = "registered"
       \/ primary = "registered" /\ primary' = "removed"
    /\ UNCHANGED <<take, listed, log, closer, sock, leases, calls, lapses>>

-----------------------------------------------------------------------------
(* open_takeover                                                           *)

\* A continuation joins the agent's terminal while that is live; everything
\* else gets a terminal of its own.
Look(t) ==
    /\ take[t].open = "none" /\ \A u \in Takeovers : u < t => take[u].open # "none"
    /\ Call
    /\ \/ primary = "registered" /\ take' = [take EXCEPT ![t].open = "attach"]
       \/ take' = [take EXCEPT ![t].open = "spawn"]
    /\ UNCHANGED <<primary, listed, log, closer, sock, leases, lapses>>

\* The watchdog runs before the entry exists.
Spawn(t) ==
    /\ take[t].open = "spawn"
    /\ take' = [take EXCEPT ![t] = [NewTake EXCEPT !.open = "register", !.alive = TRUE, !.dog = "wait"]]
    /\ UNCHANGED <<primary, listed, log, closer, sock, leases, calls, lapses>>

Register(t) ==
    /\ take[t].open = "register" /\ listed' = listed \cup {t}
    /\ take' = [take EXCEPT ![t].open = "emit"]
    /\ UNCHANGED <<primary, log, closer, sock, leases, calls, lapses>>

EmitOpened(t) ==
    /\ take[t].open \in {"emit", "attach"} /\ Says(t, "opened")
    /\ take' = [take EXCEPT ![t].open = "done"]
    /\ UNCHANGED <<primary, listed, closer, sock, leases, calls, lapses>>

\* The event cannot be inserted, or the handler is dropped while it waits.
OpenLapses(t) ==
    /\ take[t].open \in {"spawn", "emit", "attach"} /\ Lapse
    /\ take' = [take EXCEPT ![t].open = "done"]
    /\ UNCHANGED <<primary, listed, log, closer, sock, leases, calls>>

Open(t) == Look(t) \/ Spawn(t) \/ Register(t) \/ EmitOpened(t) \/ OpenLapses(t)

-----------------------------------------------------------------------------
(* The child and its watchdog                                              *)

Exit(t) ==
    /\ take[t].alive /\ take' = [take EXCEPT ![t].alive = FALSE]
    /\ UNCHANGED <<primary, listed, log, closer, sock, leases, calls, lapses>>

Wake(t) ==
    /\ take[t].dog = "wait" /\ ~take[t].alive
    /\ take' = [take EXCEPT ![t].dog = IF take[t].closed THEN "done" ELSE "unregister"]
    /\ UNCHANGED <<primary, listed, log, closer, sock, leases, calls, lapses>>

\* Mutant: the watchdog records the end only of an entry it has removed.
UnregisterFirst(t) ==
    /\ take[t].dog = "unregister" /\ listed' = listed \ {t}
    /\ take' = [take EXCEPT ![t].dog = IF t \in listed THEN "emit" ELSE "done"]
    /\ UNCHANGED <<primary, log, closer, sock, leases, calls, lapses>>

Unregister(t) ==
    /\ take[t].dog = "unregister" /\ listed' = listed \ {t}
    /\ take' = [take EXCEPT ![t].dog = "emit"]
    /\ UNCHANGED <<primary, log, closer, sock, leases, calls, lapses>>

EmitClosed(t) ==
    /\ take[t].dog = "emit" /\ take' = [take EXCEPT ![t].dog = "done"]
    /\ \/ Says(t, "closed") /\ UNCHANGED lapses
       \/ Lapse /\ UNCHANGED log
    /\ UNCHANGED <<primary, listed, closer, sock, leases, calls>>

Watchdog(t) == Wake(t) \/ Unregister(t) \/ EmitClosed(t)

-----------------------------------------------------------------------------
(* close: marks the entry and records the end; the child lives on.         *)

CloseMark(c, t) ==
    /\ closer[c].pc = "idle" /\ t \in listed /\ Call
    /\ take' = [take EXCEPT ![t].closed = TRUE]
    /\ closer' = [closer EXCEPT ![c] = [pc |-> "emit", of |-> t]]
    /\ UNCHANGED <<primary, listed, log, sock, leases, lapses>>

CloseEmit(c) ==
    /\ closer[c].pc = "emit" /\ closer' = [closer EXCEPT ![c].pc = "unregister"]
    /\ \/ Says(closer[c].of, "closed") /\ UNCHANGED lapses
       \/ Lapse /\ UNCHANGED log
    /\ UNCHANGED <<primary, take, listed, sock, leases, calls>>

CloseUnregister(c) ==
    /\ closer[c].pc = "unregister" /\ listed' = listed \ {closer[c].of}
    /\ closer' = [closer EXCEPT ![c] = NewClose]
    /\ UNCHANGED <<primary, take, log, sock, leases, calls, lapses>>

\* Dropped while it inserts the event: marked, still listed, never recorded.
CloseDropped(c) ==
    /\ closer[c].pc = "emit" /\ Lapse /\ closer' = [closer EXCEPT ![c] = NewClose]
    /\ UNCHANGED <<primary, take, listed, log, sock, leases, calls>>

Close(c) ==
    (\E t \in Takeovers : CloseMark(c, t)) \/ CloseEmit(c) \/ CloseUnregister(c) \/ CloseDropped(c)

-----------------------------------------------------------------------------
(* attach_terminal, attach_takeover_terminal, handle_terminal_socket       *)

Live(p) == IF p = Primary THEN primary = "registered" ELSE p \in listed

Connect(x, p) ==
    /\ sock[x].pc = "idle" /\ Live(p) /\ Call
    /\ sock' = [sock EXCEPT ![x] = [pc |-> "upgrade", to |-> p]]
    /\ UNCHANGED <<primary, take, listed, log, closer, leases, lapses>>

\* acquire_writer: a browser always takes the lease from a browser.
Attach(x) ==
    /\ sock[x].pc = "upgrade" /\ sock' = [sock EXCEPT ![x].pc = "attached"]
    /\ lease' = [lease EXCEPT ![sock[x].to] = x] /\ newest' = [newest EXCEPT ![sock[x].to] = x]
    /\ UNCHANGED <<primary, take, listed, log, closer, calls, lapses>>

\* Mutant: whoever leaves frees the lease.
ReleaseAny(p, x) == "free"

\* release_writer: the lease stays with another holder.
Release(p, x) == IF lease[p] = x THEN "free" ELSE lease[p]

\* The socket ends, or its upgrade does.
Leave(x) ==
    /\ sock[x].pc # "idle" /\ sock' = [sock EXCEPT ![x] = NewSock]
    /\ lease' = (IF sock[x].pc = "attached"
                 THEN [lease EXCEPT ![sock[x].to] = Release(sock[x].to, x)] ELSE lease)
    /\ UNCHANGED <<primary, take, listed, log, closer, newest, calls, lapses>>

Browse(x) == (\E p \in Ptys : Connect(x, p)) \/ Attach(x) \/ Leave(x)

-----------------------------------------------------------------------------

TermNext ==
    \/ PrimaryMoves
    \/ \E t \in Takeovers : Open(t) \/ Exit(t) \/ Watchdog(t)
    \/ \E c \in Closers : Close(c)
    \/ \E x \in Sockets : Browse(x)

\* A restart loses every terminal, watchdog, handler and connection; the
\* run events stay.
TermCrash ==
    /\ primary' = (IF primary = "registered" THEN "removed" ELSE primary)
    /\ take' = [t \in Takeovers |-> IF take[t].open = "none" THEN NewTake ELSE [NewTake EXCEPT !.open = "done"]]
    /\ listed' = {} /\ closer' = [c \in Closers |-> NewClose] /\ sock' = [x \in Sockets |-> NewSock]
    /\ lease' = [p \in Ptys |-> "free"] /\ newest' = [p \in Ptys |-> "free"]
    /\ UNCHANGED <<log, calls, lapses>>
=============================================================================
