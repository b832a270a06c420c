------------------------------ MODULE Ownership ------------------------------
(***************************************************************************)
(* Who orchestrates one agent session: the ownership service, its lock per *)
(* session (created on demand, evicted by its reference count), the owner  *)
(* on the session's row with its audit trail, and the run events.          *)
(***************************************************************************)
EXTENDS Integers, Sequences

CONSTANTS
    Requesters,   \* handlers at work at once
    Operators,
    MaxAsks,      \* bound: requests
    MaxFaults     \* bound: failed reads, writes and emissions, dropped handlers, restarts

ASSUME OperatorAssumption == {"orchestrator", "suspended", "none"} \cap Operators = {}
ASSUME AskAssumption == MaxAsks \in Nat /\ MaxFaults \in Nat

VARIABLES
    owner,    \* agent_sessions: ownership_state, ownership_operator_id
    trail,    \* session_ownership_events, in the order of their inserts
    events,   \* run events of ownership, each naming its audit row
    entry,    \* session_locks: the session's lock, or 0
    minted,   \* locks created so far
    req,      \* each handler: control point and locals
    asks, faults

ownVars == <<owner, trail, events, entry, minted, req, asks, faults>>
rows    == <<owner, trail>>
locks   == <<entry, minted>>

Kinds  == {"takeover", "release", "suspend", "resume"}
Owners == Operators \cup {"orchestrator", "suspended"}

\* lock: the Arc this handler holds, or 0; seen: the owner it has read;
\* n: the audit row it has written.
NewReq == [pc |-> "idle", kind |-> "takeover", by |-> "none", lock |-> 0, seen |-> "orchestrator", n |-> 0]

OwnInit ==
    /\ owner = "orchestrator" /\ trail = <<>> /\ events = <<>>
    /\ entry = 0 /\ minted = 0 /\ req = [r \in Requesters |-> NewReq]
    /\ asks = 0 /\ faults = 0

-----------------------------------------------------------------------------
(* transition_takeover, _release, _suspend, _resume                        *)

Allowed(kind, current, by) ==
    \/ kind = "takeover" /\ (current \in Operators => current = by)
    \/ kind = "release"  /\ current = by
    \/ kind = "suspend"  /\ current # "suspended"
    \/ kind = "resume"   /\ current = "suspended"

Target(kind, by) ==
    IF kind = "takeover" THEN by ELSE IF kind = "suspend" THEN "suspended" ELSE "orchestrator"

-----------------------------------------------------------------------------
(* apply                                                                   *)

Holds(r) == req[r].pc \in {"read", "write", "emit"}   \* r is inside the lock
Goto(r, p) == req' = [req EXCEPT ![r].pc = p]

Ask(r, kind, by) ==
    /\ req[r].pc = "idle" /\ asks < MaxAsks /\ asks' = asks + 1
    /\ by \in (IF kind \in {"takeover", "release"} THEN Operators ELSE {"none"})
    /\ minted' = (IF entry = 0 THEN minted + 1 ELSE minted)
    /\ entry' = (IF entry = 0 THEN minted + 1 ELSE entry)
    /\ req' = [req EXCEPT ![r] = [NewReq EXCEPT !.pc = "acquire", !.kind = kind, !.by = by, !.lock = entry']]
    /\ UNCHANGED <<rows, events, faults>>

Acquire(r) ==
    /\ req[r].pc = "acquire" /\ \A s \in Requesters : Holds(s) => req[s].lock # req[r].lock
    /\ Goto(r, "read") /\ UNCHANGED <<rows, events, locks, asks, faults>>

\* A refused transition leaves the lock at once.
Read(r) ==
    /\ req[r].pc = "read"
    /\ req' = [req EXCEPT ![r].seen = owner,
                          ![r].pc = IF Allowed(req[r].kind, owner, req[r].by) THEN "write" ELSE "evict"]
    /\ UNCHANGED <<rows, events, locks, asks, faults>>

\* The snapshot and the audit row are written in one transaction.
Write(r) ==
    /\ req[r].pc = "write" /\ owner' = Target(req[r].kind, req[r].by)
    /\ trail' = Append(trail, [from |-> req[r].seen, to |-> owner'])
    /\ req' = [req EXCEPT ![r].pc = "emit", ![r].n = Len(trail')]
    /\ UNCHANGED <<events, locks, asks, faults>>

Emit(r) ==
    /\ req[r].pc = "emit" /\ events' = Append(events, req[r].n) /\ Goto(r, "evict")
    /\ UNCHANGED <<rows, locks, asks, faults>>

\* Mutant: the lock is evicted whoever still holds a reference to it.
EvictBlind(r) ==
    /\ req[r].pc = "evict" /\ entry' = 0 /\ req' = [req EXCEPT ![r] = NewReq]
    /\ UNCHANGED <<rows, events, minted, asks, faults>>

\* evict_lock_if_uncontended: drops its own reference, then counts the others.
Evict(r) ==
    /\ req[r].pc = "evict"
    /\ entry' = (IF \E s \in Requesters \ {r} : req[s].lock = entry THEN entry ELSE 0)
    /\ req' = [req EXCEPT ![r] = NewReq]
    /\ UNCHANGED <<rows, events, minted, asks, faults>>

Fault == faults < MaxFaults /\ faults' = faults + 1

\* A read or a write that fails is an error for the caller; an event that
\* cannot be inserted is only logged.
Fails(r) ==
    /\ Holds(r) /\ Fault /\ Goto(r, "evict")
    /\ UNCHANGED <<rows, events, locks, asks>>

\* The client goes away and the handler is dropped where it waits: the guard
\* and the reference go, the entry stays.
Dropped(r) ==
    /\ Holds(r) \/ req[r].pc = "acquire"
    /\ Fault /\ req' = [req EXCEPT ![r] = NewReq]
    /\ UNCHANGED <<rows, events, locks, asks>>

Request(r) ==
    \/ \E kind \in Kinds, by \in Operators \cup {"none"} : Ask(r, kind, by)
    \/ Acquire(r)
    \/ Read(r)
    \/ Write(r)
    \/ Emit(r)
    \/ Evict(r)
    \/ Fails(r)
    \/ Dropped(r)

\* A restart forgets locks and handlers.
OwnCrash ==
    /\ Fault /\ req' = [r \in Requesters |-> NewReq] /\ entry' = 0
    /\ UNCHANGED <<rows, events, minted, asks>>
=============================================================================
