---------------------------- MODULE ControlProofs ----------------------------
(***************************************************************************)
(* Theorems about Control for any number of handlers, operators, terminals *)
(* and browsers: what the lock per session is for, and what a terminal's   *)
(* lease and its run events say.  Then what one session leaves to the      *)
(* next, for any rows a snapshot is built from and any handoff.            *)
(***************************************************************************)
EXTENDS Control, HandoverRules, WellFoundedInduction, SequenceTheorems, TLAPS

-----------------------------------------------------------------------------
(* The session lock.  Its entry comes and goes with the handlers that hold *)
(* a reference; while one does, every handler that works holds that lock,  *)
(* so one at most is inside, and what it has read is still on the row.     *)

ReqPCs == {"idle", "acquire", "read", "write", "emit", "evict"}
Reqs   == [pc : ReqPCs, kind : Kinds, by : Operators \cup {"none"}, lock : Nat, seen : Owners, n : Nat]
TrailRows == [from : Owners, to : Owners]

OwnTypes ==
    /\ owner \in Owners /\ trail \in Seq(TrailRows) /\ events \in Seq(Nat)
    /\ entry \in Nat /\ minted \in Nat /\ req \in [Requesters -> Reqs]

\* What handler r, whose locals are q, may rely on.
Guarded(q) ==
    /\ q.pc = "idle" => q.lock = 0
    /\ q.pc # "idle" => q.lock = entry /\ entry # 0
    /\ q.pc # "idle" /\ q.kind \in {"takeover", "release"} => q.by \in Operators
    /\ q.pc = "write" => q.seen = owner /\ Allowed(q.kind, owner, q.by)
    /\ q.pc = "emit" => q.n = Len(trail) /\ \A i \in 1 .. Len(events) : events[i] < q.n

OneInside == \A r, s \in Requesters : Holds(r) /\ Holds(s) => r = s
Numbered  == \A i \in 1 .. Len(events) : events[i] <= Len(trail)

Owned == OwnTypes /\ (\A r \in Requesters : Guarded(req[r])) /\ OneInside /\ Numbered /\ AuditChain

LEMMA OwnedInit == OwnInit => Owned
<1> SUFFICES ASSUME OwnInit PROVE Owned OBVIOUS
<1>1. NewReq \in Reqs BY DEF NewReq, Reqs, ReqPCs, Kinds, Owners
<1>2. OwnTypes BY <1>1 DEF OwnInit, OwnTypes, Owners
<1>3. \A r \in Requesters : req[r] = NewReq BY DEF OwnInit
<1>n. NewReq.pc = "idle" /\ NewReq.lock = 0 BY DEF NewReq
<1>4. \A r \in Requesters : Guarded(req[r]) /\ ~Holds(r) BY <1>3, <1>n DEF Guarded, Holds
<1>5. trail = <<>> /\ events = <<>> /\ owner = "orchestrator" BY DEF OwnInit
<1>6. AuditChain BY <1>5 DEF AuditChain, Chain, NoOneDisplaced, EventsInOrder
<1> QED BY <1>2, <1>4, <1>5, <1>6 DEF Owned, OneInside, Numbered

\* A handler that is not inside moves, or one that is leaves or stays inside,
\* and the row, its trail and the events are left alone.
LEMMA HandlerMoves ==
    ASSUME Owned, UNCHANGED <<owner, trail, events>>, entry' \in Nat, minted' \in Nat,
           NEW r \in Requesters, NEW q \in Reqs, req' = [req EXCEPT ![r] = q],
           q.pc \in {"read", "write", "emit"} => \A s \in Requesters \ {r} : ~Holds(s),
           Guarded(q)',
           \A s \in Requesters \ {r} : req[s].pc # "idle" => entry' = entry
    PROVE  Owned'
<1>r. req' \in [Requesters -> Reqs] /\ req'[r] = q /\ \A s \in Requesters \ {r} : req'[s] = req[s]
  BY DEF Owned, OwnTypes
<1>1. OwnTypes' BY <1>r DEF Owned, OwnTypes
<1>2. \A s \in Requesters : Guarded(req[s])'
  <2> SUFFICES ASSUME NEW s \in Requesters PROVE Guarded(req[s])' OBVIOUS
  <2>1. CASE s = r BY <1>r, <2>1
  <2>2. CASE s # r
    <3>1. req'[s] = req[s] /\ Guarded(req[s]) /\ (req[s].pc # "idle" => entry' = entry) BY <1>r, <2>2 DEF Owned
    <3> QED BY <3>1 DEF Guarded
  <2> QED BY <2>1, <2>2
<1>3. OneInside' BY <1>r DEF Owned, OneInside, Holds
<1> QED BY <1>1, <1>2, <1>3 DEF Owned, Numbered, AuditChain, Chain, NoOneDisplaced, EventsInOrder

\* A field or two of a handler's locals change.
LEMMA ReqUpdates ==
    ASSUME NEW q \in Reqs
    PROVE  /\ \A p \in ReqPCs : [q EXCEPT !.pc = p] \in Reqs
           /\ \A p \in ReqPCs, o \in Owners : [q EXCEPT !.seen = o, !.pc = p] \in Reqs
           /\ \A p \in ReqPCs, n \in Nat : [q EXCEPT !.pc = p, !.n = n] \in Reqs
           /\ NewReq \in Reqs /\ NewReq.pc = "idle" /\ NewReq.lock = 0
BY DEF Reqs, NewReq, ReqPCs, Kinds, Owners

LEMMA AskKeeps ==
    ASSUME Owned, NEW r \in Requesters, NEW kind \in Kinds, NEW by \in Operators \cup {"none"}, Ask(r, kind, by)
    PROVE  Owned'
<1>t. OwnTypes /\ req[r] \in Reqs BY DEF Owned, OwnTypes
<1>n. entry' \in Nat /\ minted' \in Nat /\ entry' # 0 BY <1>t DEF Ask, OwnTypes
<1>1. PICK q \in Reqs : q = [NewReq EXCEPT !.pc = "acquire", !.kind = kind, !.by = by, !.lock = entry']
  <2>1. [NewReq EXCEPT !.pc = "acquire", !.kind = kind, !.by = by, !.lock = entry'] \in Reqs
    BY <1>n DEF NewReq, Reqs, ReqPCs, Owners
  <2> QED BY <2>1
<1>2. q.pc = "acquire" /\ q.kind = kind /\ q.by = by /\ q.lock = entry' BY <1>1 DEF NewReq
<1>3. /\ req' = [req EXCEPT ![r] = q] /\ UNCHANGED <<owner, trail, events>>
      /\ by \in (IF kind \in {"takeover", "release"} THEN Operators ELSE {"none"})
      /\ (entry # 0 => entry' = entry)
  BY <1>1 DEF Ask, rows
<1>4. \A s \in Requesters : req[s].pc # "idle" => entry # 0 BY DEF Owned, Guarded
<1>5. Guarded(q)' BY <1>n, <1>2, <1>3 DEF Guarded
<1> QED BY <1>n, <1>2, <1>3, <1>4, <1>5, HandlerMoves

\* Steps that only move a handler on, out of the lock, or into it.
LEMMA AcquireKeeps ==
    ASSUME Owned, NEW r \in Requesters, Acquire(r)
    PROVE  Owned'
<1>t. OwnTypes /\ req[r] \in Reqs /\ entry \in Nat /\ minted \in Nat BY DEF Owned, OwnTypes
<1>1. PICK q \in Reqs : q = [req[r] EXCEPT !.pc = "read"] BY <1>t, ReqUpdates DEF ReqPCs
<1>2. q.pc = "read" /\ q.kind = req[r].kind /\ q.by = req[r].by /\ q.lock = req[r].lock BY <1>1, <1>t DEF Reqs
<1>3. /\ req[r].pc = "acquire" /\ req' = [req EXCEPT ![r] = q] /\ UNCHANGED <<owner, trail, events, entry, minted>>
      /\ \A s \in Requesters : Holds(s) => req[s].lock # req[r].lock
  BY <1>1, <1>t DEF Acquire, Goto, rows, locks, OwnTypes
<1>4. \A s \in Requesters : Guarded(req[s]) BY DEF Owned
<1>5. \A s \in Requesters : ~Holds(s)
  <2> SUFFICES ASSUME NEW s \in Requesters, Holds(s) PROVE FALSE OBVIOUS
  <2>1. req[s].lock = entry BY <1>4 DEF Holds, Guarded
  <2>2. req[r].lock = entry BY <1>3, <1>4 DEF Guarded
  <2> QED BY <1>3, <2>1, <2>2
<1>6. Guarded(q)' BY <1>2, <1>3, <1>4 DEF Guarded
<1> QED BY <1>t, <1>2, <1>3, <1>5, <1>6, HandlerMoves

LEMMA ReadKeeps ==
    ASSUME Owned, NEW r \in Requesters, Read(r)
    PROVE  Owned'
<1>t. OwnTypes /\ req[r] \in Reqs /\ entry \in Nat /\ minted \in Nat /\ owner \in Owners BY DEF Owned, OwnTypes
<1> DEFINE next == IF Allowed(req[r].kind, owner, req[r].by) THEN "write" ELSE "evict"
<1>n. next \in ReqPCs BY DEF ReqPCs
<1>1. PICK q \in Reqs : q = [req[r] EXCEPT !.seen = owner, !.pc = next] BY <1>t, <1>n, ReqUpdates
<1>2. /\ q.pc = next /\ q.seen = owner /\ q.kind = req[r].kind /\ q.by = req[r].by /\ q.lock = req[r].lock
      /\ q.pc \in {"write", "evict"} /\ (q.pc = "write" => Allowed(q.kind, owner, q.by))
  BY <1>1, <1>t DEF Reqs
<1>3. req[r].pc = "read" /\ req' = [req EXCEPT ![r] = q] /\ UNCHANGED <<owner, trail, events, entry, minted>>
  BY <1>1 DEF Read, rows, locks
<1>4. Guarded(req[r]) /\ Holds(r) BY <1>3 DEF Owned, Holds
<1>5. \A s \in Requesters \ {r} : ~Holds(s) BY <1>4 DEF Owned, OneInside
<1>6. Guarded(q)' BY <1>2, <1>3, <1>4 DEF Guarded, Allowed
<1> QED BY <1>t, <1>2, <1>3, <1>5, <1>6, HandlerMoves

LEMMA LeaveKeeps ==
    ASSUME Owned, NEW r \in Requesters, Fails(r) \/ Dropped(r) \/ Evict(r)
    PROVE  Owned'
<1>t. OwnTypes /\ req[r] \in Reqs /\ entry \in Nat /\ minted \in Nat BY DEF Owned, OwnTypes
<1>g. \A s \in Requesters : Guarded(req[s]) BY DEF Owned
<1>1. CASE Fails(r)
  <2>1. PICK q \in Reqs : q = [req[r] EXCEPT !.pc = "evict"] BY <1>t, ReqUpdates DEF ReqPCs
  <2>2. q.pc = "evict" /\ q.kind = req[r].kind /\ q.by = req[r].by /\ q.lock = req[r].lock BY <2>1, <1>t DEF Reqs
  <2>3. Holds(r) /\ req' = [req EXCEPT ![r] = q] /\ UNCHANGED <<owner, trail, events, entry, minted>>
    BY <1>1, <2>1, <1>t DEF Fails, Goto, rows, locks, OwnTypes
  <2>4. Guarded(q)' BY <1>g, <2>2, <2>3 DEF Guarded, Holds
  <2> QED BY <1>t, <2>2, <2>3, <2>4, HandlerMoves
<1>2. CASE Dropped(r)
  <2>1. PICK q \in Reqs : q = NewReq BY <1>t, ReqUpdates
  <2>2. q.pc = "idle" /\ q.lock = 0 BY <2>1, <1>t, ReqUpdates
  <2>3. req' = [req EXCEPT ![r] = q] /\ UNCHANGED <<owner, trail, events, entry, minted>>
    BY <1>2, <2>1 DEF Dropped, rows, locks
  <2>4. Guarded(q)' BY <2>2 DEF Guarded
  <2> QED BY <1>t, <2>2, <2>3, <2>4, HandlerMoves
<1>3. CASE Evict(r)
  <2>1. PICK q \in Reqs : q = NewReq BY <1>t, ReqUpdates
  <2>2. q.pc = "idle" /\ q.lock = 0 BY <2>1, <1>t, ReqUpdates
  <2>3. /\ req[r].pc = "evict" /\ req' = [req EXCEPT ![r] = q] /\ UNCHANGED <<owner, trail, events, minted>>
        /\ entry' = (IF \E s \in Requesters \ {r} : req[s].lock = entry THEN entry ELSE 0)
    BY <1>3, <2>1 DEF Evict, rows
  <2>4. Guarded(q)' BY <2>2 DEF Guarded
  <2>5. \A s \in Requesters \ {r} : req[s].pc # "idle" => entry' = entry BY <1>g, <2>3 DEF Guarded
  <2>6. entry' \in Nat BY <1>t, <2>3
  <2> QED BY <1>t, <2>2, <2>3, <2>4, <2>5, <2>6, HandlerMoves
<1> QED BY <1>1, <1>2, <1>3

\* The owner moves.  Only who is inside writes, from the owner it has read.
LEMMA WriteKeeps ==
    ASSUME Owned, NEW r \in Requesters, Write(r)
    PROVE  Owned'
<1>t. OwnTypes /\ req[r] \in Reqs /\ trail \in Seq(TrailRows) /\ Len(trail) \in Nat /\ Len(events) \in Nat
  BY DEF Owned, OwnTypes
<1>g. \A s \in Requesters : Guarded(req[s]) BY DEF Owned
<1>1. /\ req[r].pc = "write" /\ owner' = Target(req[r].kind, req[r].by)
      /\ trail' = Append(trail, [from |-> req[r].seen, to |-> owner'])
      /\ req' = [req EXCEPT ![r].pc = "emit", ![r].n = Len(trail')] /\ UNCHANGED <<events, entry, minted>>
  BY DEF Write, locks
<1>2. req[r].seen = owner /\ Allowed(req[r].kind, owner, req[r].by) /\ req[r].lock = entry /\ entry # 0
  BY <1>1, <1>g DEF Guarded
<1>3. /\ req[r].kind = "takeover" => owner' = req[r].by /\ req[r].by \in Operators
      /\ req[r].kind # "takeover" => owner' \in {"orchestrator", "suspended"}
  BY <1>1, <1>g DEF Guarded, Target
<1>4. owner \in Owners /\ owner' \in Owners BY <1>t, <1>3 DEF Owners, OwnTypes
<1>5. [from |-> req[r].seen, to |-> owner'] \in TrailRows BY <1>2, <1>4 DEF TrailRows
<1>6. /\ trail' \in Seq(TrailRows) /\ Len(trail') = Len(trail) + 1 /\ Len(trail') \in Nat
      /\ \A i \in 1 .. Len(trail) : trail'[i] = trail[i]
      /\ trail'[Len(trail')] = [from |-> req[r].seen, to |-> owner']
  BY <1>1, <1>5, <1>t
<1>7. PICK q \in Reqs : q = [req[r] EXCEPT !.pc = "emit", !.n = Len(trail')]
  <2>1. [req[r] EXCEPT !.pc = "emit", !.n = Len(trail')] \in Reqs BY <1>t, <1>6, ReqUpdates DEF ReqPCs
  <2> QED BY <2>1
<1>8. q.pc = "emit" /\ q.n = Len(trail') /\ q.kind = req[r].kind /\ q.by = req[r].by /\ q.lock = req[r].lock
  BY <1>7, <1>t DEF Reqs
<1>9. req' \in [Requesters -> Reqs] /\ req'[r] = q /\ \A s \in Requesters \ {r} : req'[s] = req[s]
  BY <1>1, <1>7, <1>t DEF OwnTypes
<1>10. \A s \in Requesters \ {r} : ~Holds(s) BY <1>1 DEF Owned, OneInside, Holds
<1>11. OwnTypes' BY <1>1, <1>4, <1>6, <1>9, <1>t DEF OwnTypes
<1>12. \A i \in 1 .. Len(events) : events[i] < Len(trail')
  <2> SUFFICES ASSUME NEW i \in 1 .. Len(events) PROVE events[i] < Len(trail') OBVIOUS
  <2>1. events[i] \in Nat /\ events[i] <= Len(trail) BY <1>t DEF OwnTypes, Owned, Numbered
  <2> QED BY <2>1, <1>6, <1>t
<1>13. \A s \in Requesters : Guarded(req[s])'
  <2> SUFFICES ASSUME NEW s \in Requesters PROVE Guarded(req[s])' OBVIOUS
  <2>1. CASE s = r BY <1>1, <1>2, <1>8, <1>9, <1>12, <1>g, <2>1 DEF Guarded
  <2>2. CASE s # r
    <3>1. req'[s] = req[s] /\ Guarded(req[s]) /\ req[s].pc \notin {"read", "write", "emit"}
      BY <1>9, <1>10, <1>g, <2>2 DEF Holds
    <3> QED BY <1>1, <3>1 DEF Guarded
  <2> QED BY <2>1, <2>2
<1>14. OneInside' BY <1>9, <1>10 DEF OneInside, Holds
<1>15. Numbered'
  <2> SUFFICES ASSUME NEW i \in 1 .. Len(events) PROVE events[i] <= Len(trail') BY <1>1 DEF Numbered
  <2>1. events[i] \in Nat /\ events[i] < Len(trail') BY <1>12, <1>t DEF OwnTypes
  <2> QED BY <2>1, <1>6
\* The trail stays one chain, and no operator takes another's place.
<1>16. Chain'
  <2>1. owner' = trail'[Len(trail')].to /\ trail' # <<>> /\ trail'[Len(trail')].from = owner
    <3>1. Len(<<>>) = 0 OBVIOUS
    <3> QED BY <1>2, <1>6, <1>t, <3>1
  <2>2. owner = (IF trail = <<>> THEN "orchestrator" ELSE trail[Len(trail)].to) BY DEF Owned, AuditChain, Chain
  <2>3. trail = <<>> <=> Len(trail) = 0 BY <1>t
  <2> SUFFICES ASSUME NEW i \in 1 .. Len(trail')
               PROVE  trail'[i].from = (IF i = 1 THEN "orchestrator" ELSE trail'[i - 1].to)
    BY <2>1 DEF Chain
  <2>4. CASE i \in 1 .. Len(trail)
    <3>1. trail[i].from = (IF i = 1 THEN "orchestrator" ELSE trail[i - 1].to)
      BY <2>4 DEF Owned, AuditChain, Chain
    <3>2. trail'[i] = trail[i] /\ (i # 1 => trail'[i - 1] = trail[i - 1]) BY <1>6, <1>t, <2>4
    <3> QED BY <3>1, <3>2
  <2>5. CASE i = Len(trail')
    <3>1. CASE Len(trail) = 0 BY <1>6, <2>1, <2>2, <2>3, <2>5, <3>1
    <3>2. CASE Len(trail) # 0
      <4>1. i # 1 /\ i - 1 = Len(trail) /\ trail'[i - 1] = trail[Len(trail)] BY <1>6, <1>t, <2>5, <3>2
      <4> QED BY <4>1, <2>1, <2>2, <2>3, <2>5, <3>2
    <3> QED BY <3>1, <3>2
  <2> QED BY <1>6, <1>t, <2>4, <2>5
<1>17. NoOneDisplaced'
  <2>1. trail'[Len(trail')].from \in Operators /\ trail'[Len(trail')].to \in Operators =>
          trail'[Len(trail')].from = trail'[Len(trail')].to
    BY <1>2, <1>3, <1>6, OperatorAssumption DEF Allowed
  <2> SUFFICES ASSUME NEW i \in 1 .. Len(trail'), trail'[i].from \in Operators, trail'[i].to \in Operators
               PROVE  trail'[i].from = trail'[i].to
    BY DEF NoOneDisplaced
  <2>2. CASE i \in 1 .. Len(trail) BY <1>6, <2>2 DEF Owned, AuditChain, NoOneDisplaced
  <2>3. CASE i = Len(trail') BY <2>1, <2>3
  <2> QED BY <1>6, <1>t, <2>2, <2>3
<1>18. EventsInOrder' BY <1>1 DEF Owned, AuditChain, EventsInOrder
<1> QED BY <1>11, <1>13, <1>14, <1>15, <1>16, <1>17, <1>18 DEF Owned, AuditChain

\* The event of the last audit row, before anyone else can write another.
LEMMA EmitKeeps ==
    ASSUME Owned, NEW r \in Requesters, Emit(r)
    PROVE  Owned'
<1>t. OwnTypes /\ req[r] \in Reqs /\ events \in Seq(Nat) /\ Len(trail) \in Nat /\ Len(events) \in Nat
  BY DEF Owned, OwnTypes
<1>g. \A s \in Requesters : Guarded(req[s]) BY DEF Owned
<1>1. /\ req[r].pc = "emit" /\ events' = Append(events, req[r].n)
      /\ req' = [req EXCEPT ![r].pc = "evict"] /\ UNCHANGED <<owner, trail, entry, minted>>
  BY DEF Emit, Goto, rows, locks
<1>2. req[r].n = Len(trail) /\ (\A i \in 1 .. Len(events) : events[i] < Len(trail)) BY <1>1, <1>g DEF Guarded
<1>3. /\ events' \in Seq(Nat) /\ Len(events') = Len(events) + 1 /\ events'[Len(events')] = Len(trail)
      /\ \A i \in 1 .. Len(events) : events'[i] = events[i] /\ events[i] \in Nat
  BY <1>1, <1>2, <1>t
<1>4. PICK q \in Reqs : q = [req[r] EXCEPT !.pc = "evict"] BY <1>t, ReqUpdates DEF ReqPCs
<1>5. q.pc = "evict" /\ q.kind = req[r].kind /\ q.by = req[r].by /\ q.lock = req[r].lock BY <1>4, <1>t DEF Reqs
<1>6. req' \in [Requesters -> Reqs] /\ req'[r] = q /\ \A s \in Requesters \ {r} : req'[s] = req[s]
  BY <1>1, <1>4, <1>t DEF OwnTypes
<1>7. \A s \in Requesters \ {r} : ~Holds(s) BY <1>1 DEF Owned, OneInside, Holds
<1>8. OwnTypes' BY <1>1, <1>3, <1>6, <1>t DEF OwnTypes
<1>9. \A s \in Requesters : Guarded(req[s])'
  <2> SUFFICES ASSUME NEW s \in Requesters PROVE Guarded(req[s])' OBVIOUS
  <2>1. CASE s = r BY <1>1, <1>5, <1>6, <1>g, <2>1 DEF Guarded
  <2>2. CASE s # r
    <3>1. req'[s] = req[s] /\ Guarded(req[s]) /\ req[s].pc \notin {"read", "write", "emit"}
      BY <1>6, <1>7, <1>g, <2>2 DEF Holds
    <3> QED BY <1>1, <3>1 DEF Guarded, Allowed
  <2> QED BY <2>1, <2>2
<1>10. OneInside' BY <1>6, <1>7, <1>5 DEF OneInside, Holds
<1>11. Numbered'
  <2> SUFFICES ASSUME NEW i \in 1 .. Len(events') PROVE events'[i] <= Len(trail) BY <1>1 DEF Numbered
  <2>1. CASE i \in 1 .. Len(events) BY <1>3, <2>1 DEF Owned, Numbered
  <2>2. CASE i = Len(events') BY <1>3, <1>t, <2>2
  <2> QED BY <1>3, <1>t, <2>1, <2>2
<1>12. EventsInOrder'
  <2> SUFFICES ASSUME NEW i \in 1 .. Len(events'), NEW j \in 1 .. Len(events'), i < j
               PROVE  events'[i] < events'[j]
    BY DEF EventsInOrder
  <2>1. i \in 1 .. Len(events) BY <1>3, <1>t
  <2>2. CASE j \in 1 .. Len(events) BY <1>3, <2>1, <2>2 DEF Owned, AuditChain, EventsInOrder
  <2>3. CASE j = Len(events') BY <1>2, <1>3, <2>1, <2>3
  <2>4. Len(events') = Len(events) + 1 /\ Len(events) \in Nat BY <1>3, <1>t
  <2>5. j \in 1 .. Len(events) \/ j = Len(events') BY <2>4
  <2> QED BY <2>2, <2>3, <2>5
<1>13. Chain' /\ NoOneDisplaced' BY <1>1 DEF Owned, AuditChain, Chain, NoOneDisplaced
<1> QED BY <1>8, <1>9, <1>10, <1>11, <1>12, <1>13 DEF Owned, AuditChain

LEMMA OwnedStep ==
    ASSUME Owned, [Next]_vars
    PROVE  Owned'
<1>1. ASSUME NEW r \in Requesters, Request(r) PROVE Owned'
  BY <1>1, AskKeeps, AcquireKeeps, ReadKeeps, WriteKeeps, EmitKeeps, LeaveKeeps DEF Request
<1>2. CASE OwnCrash
  <2>1. NewReq \in Reqs /\ NewReq.pc = "idle" /\ NewReq.lock = 0
    BY DEF NewReq, Reqs, ReqPCs, Kinds, Owners
  <2>2. /\ req' = [r \in Requesters |-> NewReq] /\ entry' = 0 /\ UNCHANGED <<owner, trail, events, minted>>
    BY <1>2 DEF OwnCrash, rows
  <2>3. req' \in [Requesters -> Reqs] /\ \A r \in Requesters : req'[r] = NewReq BY <2>1, <2>2
  <2>4. OwnTypes' BY <2>2, <2>3 DEF Owned, OwnTypes
  <2>5. (\A r \in Requesters : Guarded(req[r])') /\ OneInside'
    BY <2>1, <2>3 DEF Guarded, OneInside, Holds
  <2>6. Numbered' /\ AuditChain'
    BY <2>2 DEF Owned, Numbered, AuditChain, Chain, NoOneDisplaced, EventsInOrder
  <2> QED BY <2>4, <2>5, <2>6 DEF Owned
<1>3. CASE UNCHANGED ownVars
  BY <1>3 DEF ownVars, Owned, OwnTypes, Guarded, Allowed, OneInside, Holds, Numbered, AuditChain, Chain,
     NoOneDisplaced, EventsInOrder
<1> QED BY <1>1, <1>2, <1>3 DEF Next, Orchestrate, Drive, Restart, vars

\* One handler at most is inside the lock of a session, though the lock is
\* created on demand, evicted by its reference count, and dropped handlers and
\* restarts leave it where it is.
THEOREM OneInsideHolds == Spec => []OneInside
<1>1. Owned /\ [Next]_vars => Owned' BY OwnedStep
<1>2. Init => Owned BY OwnedInit DEF Init
<1>3. Owned => OneInside BY DEF Owned
<1> QED BY <1>1, <1>2, <1>3, PTL DEF Spec

\* AuditChain: whatever fails and whoever goes away, the audit trail is one
\* chain from the orchestrator to the owner on the row, no operator displaces
\* another along it, and the run events tell it in its order, none twice.
THEOREM AuditChainHolds == Spec => []AuditChain
<1>1. Owned /\ [Next]_vars => Owned' BY OwnedStep
<1>2. Init => Owned BY OwnedInit DEF Init
<1>3. Owned => AuditChain BY DEF Owned
<1> QED BY <1>1, <1>2, <1>3, PTL DEF Spec

-----------------------------------------------------------------------------
(* The terminals: the writer lease, and the record of a takeover's end.    *)

Socks == [pc : {"idle", "upgrade", "attached"}, to : Ptys]

\* The lease and the connections.
Leased ==
    /\ sock \in [Sockets -> Socks] /\ lease \in [Ptys -> Sockets \cup {"free"}]
    /\ newest \in [Ptys -> Sockets \cup {"free"}] /\ LeaseIsNewest

LEMMA LeasedInit == TermInit => Leased
<1> SUFFICES ASSUME TermInit PROVE Leased OBVIOUS
<1>1. NewSock \in Socks BY DEF NewSock, Socks, Ptys
<1>2. sock \in [Sockets -> Socks] BY <1>1 DEF TermInit
<1>3. lease \in [Ptys -> Sockets \cup {"free"}] /\ newest \in [Ptys -> Sockets \cup {"free"}] BY DEF TermInit
<1>4. \A p \in Ptys : lease[p] = "free" /\ newest[p] = "free" BY DEF TermInit
<1> QED BY <1>2, <1>3, <1>4 DEF Leased, LeaseIsNewest

\* Browser x moves: the connections of the others stay.
LEMMA SocketMoves ==
    ASSUME Leased, NEW x \in Sockets, NEW s \in Socks, sock' = [sock EXCEPT ![x] = s]
    PROVE  /\ sock' \in [Sockets -> Socks] /\ sock'[x] = s
           /\ \A y \in Sockets \ {x} : sock'[y] = sock[y]
BY DEF Leased

LEMMA LeasedStep ==
    ASSUME Leased, TermNext \/ TermCrash \/ UNCHANGED <<sock, lease, newest>>
    PROVE  Leased'
<1> USE DEF leases
<1>1. CASE UNCHANGED <<sock, lease, newest>> BY <1>1 DEF Leased, LeaseIsNewest
<1>2. ASSUME NEW x \in Sockets, NEW p \in Ptys, Connect(x, p) PROVE Leased'
  <2>1. PICK s \in Socks : s = [pc |-> "upgrade", to |-> p] BY DEF Socks
  <2>2. sock[x].pc = "idle" /\ sock' = [sock EXCEPT ![x] = s] /\ UNCHANGED <<lease, newest>> BY <1>2, <2>1 DEF Connect
  <2>3. s.pc = "upgrade" BY <2>1
  <2> QED BY <2>2, <2>3, SocketMoves DEF Leased, LeaseIsNewest
<1>3. ASSUME NEW x \in Sockets, Attach(x) PROVE Leased'
  <2>1. sock[x] \in Socks BY DEF Leased
  <2>2. PICK p \in Ptys : p = sock[x].to BY <2>1 DEF Socks
  <2>3. PICK s \in Socks : s = [pc |-> "attached", to |-> p] BY DEF Socks
  <2>4. /\ sock[x].pc = "upgrade" /\ sock' = [sock EXCEPT ![x] = s]
        /\ lease' = [lease EXCEPT ![p] = x] /\ newest' = [newest EXCEPT ![p] = x]
    <3>1. [sock[x] EXCEPT !.pc = "attached"] = s BY <2>1, <2>2, <2>3 DEF Socks
    <3> QED BY <1>3, <2>2, <3>1 DEF Attach
  <2>5. /\ sock' \in [Sockets -> Socks] /\ sock'[x] = s /\ \A y \in Sockets \ {x} : sock'[y] = sock[y]
    BY <2>4, SocketMoves
  <2>6. /\ lease' \in [Ptys -> Sockets \cup {"free"}] /\ newest' \in [Ptys -> Sockets \cup {"free"}]
        /\ lease'[p] = x /\ newest'[p] = x
        /\ \A o \in Ptys \ {p} : lease'[o] = lease[o] /\ newest'[o] = newest[o]
    BY <2>4 DEF Leased
  <2>7. LeaseIsNewest'
    <3> SUFFICES ASSUME NEW o \in Ptys
                 PROVE  /\ newest'[o] # "free" =>
                             (sock'[newest'[o]] = [pc |-> "attached", to |-> o] => lease'[o] = newest'[o])
                        /\ lease'[o] # "free" => sock'[lease'[o]] = [pc |-> "attached", to |-> o]
      BY DEF LeaseIsNewest
    <3>1. CASE o = p BY <2>3, <2>5, <2>6, <3>1
    <3>2. CASE o # p
      <4>1. /\ newest[o] # "free" => (sock[newest[o]] = [pc |-> "attached", to |-> o] => lease[o] = newest[o])
            /\ lease[o] # "free" => sock[lease[o]] = [pc |-> "attached", to |-> o] /\ lease[o] \in Sockets
            /\ newest[o] # "free" => newest[o] \in Sockets
        BY DEF Leased, LeaseIsNewest
      <4>2. lease[o] # "free" => lease[o] # x BY <2>4, <4>1
      <4>3. newest[o] = x => sock'[x] # [pc |-> "attached", to |-> o] BY <2>3, <2>5, <3>2
      <4> QED BY <2>5, <2>6, <3>2, <4>1, <4>2, <4>3
    <3> QED BY <3>1, <3>2
  <2> QED BY <2>5, <2>6, <2>7 DEF Leased
<1>4. ASSUME NEW x \in Sockets, Leave(x) PROVE Leased'
  <2>1. sock[x] \in Socks BY DEF Leased
  <2>2. PICK p \in Ptys : p = sock[x].to BY <2>1 DEF Socks
  <2>n. NewSock \in Socks BY DEF NewSock, Socks, Ptys
  <2>i. NewSock.pc = "idle" BY DEF NewSock
  <2>3. PICK s \in Socks : s = NewSock /\ s.pc = "idle" BY <2>n, <2>i
  <2>4. /\ sock' = [sock EXCEPT ![x] = s] /\ UNCHANGED newest
        /\ lease' = (IF sock[x].pc = "attached" THEN [lease EXCEPT ![p] = Release(p, x)] ELSE lease)
    BY <1>4, <2>2, <2>3 DEF Leave
  <2>5. /\ sock' \in [Sockets -> Socks] /\ sock'[x] = s /\ \A y \in Sockets \ {x} : sock'[y] = sock[y]
    BY <2>4, SocketMoves
  <2>6. /\ lease' \in [Ptys -> Sockets \cup {"free"}] /\ lease'[p] \in {lease[p], "free"}
        /\ sock[x].pc = "attached" => lease'[p] = (IF lease[p] = x THEN "free" ELSE lease[p])
        /\ sock[x].pc # "attached" => lease' = lease
        /\ \A o \in Ptys \ {p} : lease'[o] = lease[o]
    BY <2>4 DEF Leased, Release
  <2>7. LeaseIsNewest'
    <3> SUFFICES ASSUME NEW o \in Ptys
                 PROVE  /\ newest[o] # "free" =>
                             (sock'[newest[o]] = [pc |-> "attached", to |-> o] => lease'[o] = newest[o])
                        /\ lease'[o] # "free" => sock'[lease'[o]] = [pc |-> "attached", to |-> o]
      BY <2>4 DEF LeaseIsNewest
    <3>1. /\ newest[o] # "free" => (sock[newest[o]] = [pc |-> "attached", to |-> o] => lease[o] = newest[o])
          /\ lease[o] # "free" => sock[lease[o]] = [pc |-> "attached", to |-> o] /\ lease[o] \in Sockets
          /\ newest[o] # "free" => newest[o] \in Sockets
      BY DEF Leased, LeaseIsNewest
    <3>2. sock'[x] # [pc |-> "attached", to |-> o] BY <2>3, <2>5
    <3>3. lease[o] = x /\ lease[o] # "free" => o = p /\ sock[x].pc = "attached" BY <2>2, <3>1
    <3>4. lease[o] # x => lease'[o] = lease[o] BY <2>6
    <3>5. lease[o] = x /\ lease[o] # "free" => lease'[o] = "free" BY <2>6, <3>3
    <3>6. lease'[o] \in {lease[o], "free"} BY <2>6
    <3> QED BY <2>5, <3>1, <3>2, <3>4, <3>5, <3>6
  <2> QED BY <2>4, <2>5, <2>6, <2>7 DEF Leased
<1>5. CASE TermCrash
  <2>1. NewSock \in Socks BY DEF NewSock, Socks, Ptys
  <2>2. /\ sock' = [x \in Sockets |-> NewSock] /\ lease' = [p \in Ptys |-> "free"]
        /\ newest' = [p \in Ptys |-> "free"]
    BY <1>5 DEF TermCrash
  <2>3. sock' \in [Sockets -> Socks] BY <2>1, <2>2
  <2> QED BY <2>2, <2>3 DEF Leased, LeaseIsNewest
<1>6. ASSUME NEW t \in Takeovers, Open(t) \/ Exit(t) \/ Watchdog(t) PROVE Leased'
  BY <1>1, <1>6 DEF Open, Look, Spawn, Register, EmitOpened, OpenLapses, Exit, Watchdog, Wake, Unregister, EmitClosed
<1>7. ASSUME NEW c \in Closers, Close(c) PROVE Leased'
  BY <1>1, <1>7 DEF Close, CloseMark, CloseEmit, CloseUnregister, CloseDropped
<1>8. CASE PrimaryMoves BY <1>1, <1>8 DEF PrimaryMoves
<1> QED BY <1>1, <1>2, <1>3, <1>4, <1>5, <1>6, <1>7, <1>8 DEF TermNext, Browse

\* LeaseIsNewest: on every terminal, in any order of arrivals, departures and
\* restarts, the browser that connected last writes for as long as it stays,
\* and a lease is only held by a browser that is there.
THEOREM LeaseIsNewestHolds == Spec => []LeaseIsNewest
<1>1. Leased /\ [Next]_vars => Leased'
  BY LeasedStep DEF Next, Orchestrate, Drive, Restart, vars, termVars, leases
<1>2. Init => Leased BY LeasedInit DEF Init
<1>3. Leased => LeaseIsNewest BY DEF Leased
<1> QED BY <1>1, <1>2, <1>3, PTL DEF Spec

-----------------------------------------------------------------------------
(* The record of a takeover's end.  While nothing has failed, the operator *)
(* who closed one has its event still to insert or has inserted it, and a  *)
(* watchdog gave up its own event only to such an operator.                *)

Takes  == [open : {"none", "attach", "spawn", "register", "emit", "done"}, alive : BOOLEAN,
           dog : {"none", "wait", "unregister", "emit", "done"}, closed : BOOLEAN]
Closes == [pc : {"idle", "emit", "unregister"}, of : Takeovers \cup {None}]

Clean      == faults = 0 /\ lapses = 0
Ended(t)   == \E i \in 1 .. Len(log[t]) : log[t][i] = "closed"
Closing(t) == \E c \in Closers : closer[c].pc = "emit" /\ closer[c].of = t
Told(t)    == /\ take[t].closed => (Closing(t) \/ Ended(t))
              /\ take[t].dog = "done" => (take[t].closed \/ Ended(t))

TermTypes ==
    /\ take \in [Takeovers -> Takes] /\ log \in [Takeovers -> Seq({"opened", "closed"})]
    /\ closer \in [Closers -> Closes] /\ faults \in Nat /\ lapses \in Nat

Recorded == TermTypes /\ (Clean => \A t \in Takeovers : Told(t))

LEMMA RecordedInit == Init => Recorded
<1> SUFFICES ASSUME Init PROVE Recorded OBVIOUS
<1>1. NewTake \in Takes /\ NewTake.closed = FALSE /\ NewTake.dog = "none" BY DEF NewTake, Takes
<1>2. NewClose \in Closes BY DEF NewClose, Closes
<1>3. /\ take = [t \in Takeovers |-> NewTake] /\ log = [t \in Takeovers |-> <<>>]
      /\ closer = [c \in Closers |-> NewClose] /\ faults = 0 /\ lapses = 0
  BY DEF Init, OwnInit, TermInit
<1>4. TermTypes BY <1>1, <1>2, <1>3 DEF TermTypes
<1>5. \A t \in Takeovers : take[t] = NewTake BY <1>3
<1> QED BY <1>1, <1>4, <1>5 DEF Recorded, Told

\* An event goes to the end of its takeover's log and takes nothing from any.
LEMMA SaysAdds ==
    ASSUME TermTypes, NEW t \in Takeovers, NEW what \in {"opened", "closed"}, Says(t, what)
    PROVE  /\ log' \in [Takeovers -> Seq({"opened", "closed"})]
           /\ \A u \in Takeovers : Ended(u) => Ended(u)'
           /\ what = "closed" => Ended(t)'
<1>1. log' = [log EXCEPT ![t] = Append(log[t], what)] BY DEF Says
<1>2. log[t] \in Seq({"opened", "closed"}) BY DEF TermTypes
<1>3. /\ log' \in [Takeovers -> Seq({"opened", "closed"})] /\ log'[t] = Append(log[t], what)
      /\ \A u \in Takeovers \ {t} : log'[u] = log[u]
  BY <1>1, <1>2 DEF TermTypes
<1>4. /\ Len(log'[t]) = Len(log[t]) + 1 /\ Len(log[t]) \in Nat /\ log'[t][Len(log[t]) + 1] = what
      /\ \A i \in 1 .. Len(log[t]) : log'[t][i] = log[t][i]
  BY <1>2, <1>3
<1>5. ASSUME NEW u \in Takeovers, Ended(u) PROVE Ended(u)'
  <2>1. CASE u # t BY <1>3, <1>5, <2>1 DEF Ended
  <2>2. CASE u = t
    <3>1. PICK i \in 1 .. Len(log[t]) : log[t][i] = "closed" BY <1>5, <2>2 DEF Ended
    <3>2. i \in 1 .. Len(log'[t]) /\ log'[t][i] = "closed" BY <1>4, <3>1
    <3> QED BY <2>2, <3>2 DEF Ended
  <2> QED BY <2>1, <2>2
<1>6. what = "closed" => Ended(t)'
  <2>1. Len(log[t]) + 1 \in 1 .. Len(log'[t]) BY <1>4
  <2> QED BY <1>4, <2>1 DEF Ended
<1> QED BY <1>3, <1>5, <1>6

\* Takeover t alone moves; what it says stays true, and no other's does not.
LEMMA TakeMoves ==
    ASSUME Recorded, NEW t \in Takeovers, NEW q \in Takes, take' = [take EXCEPT ![t] = q],
           log' \in [Takeovers -> Seq({"opened", "closed"})], UNCHANGED closer,
           faults' \in Nat, lapses' \in Nat, Clean' => Clean,
           \A u \in Takeovers : Ended(u) => Ended(u)',
           Clean' => /\ q.closed => take[t].closed
                     /\ q.dog = "done" => (q.closed \/ Ended(t)' \/ (take[t].dog = "done" /\ q.closed = take[t].closed))
    PROVE  Recorded'
<1>1. take' \in [Takeovers -> Takes] /\ take'[t] = q /\ \A u \in Takeovers \ {t} : take'[u] = take[u]
  BY DEF Recorded, TermTypes
<1>2. TermTypes' BY <1>1 DEF Recorded, TermTypes
<1>3. \A u \in Takeovers : Closing(u)' <=> Closing(u) BY DEF Closing
<1>4. ASSUME Clean', NEW u \in Takeovers PROVE Told(u)'
  <2>1. Told(u) BY <1>4 DEF Recorded
  <2>2. CASE u # t BY <1>1, <1>3, <2>1, <2>2 DEF Told
  <2>3. CASE u = t BY <1>1, <1>3, <1>4, <2>1, <2>3 DEF Told
  <2> QED BY <2>2, <2>3
<1> QED BY <1>2, <1>4 DEF Recorded

LEMMA Counted == \A a, b \in Nat : b \in {a, a + 1} => (b = 0 => a = 0) OBVIOUS
LEMMA OneMore == \A a \in Nat : a + 1 \in Nat /\ a + 1 # 0 OBVIOUS

\* One takeover's own steps: its handler, its child and its watchdog.
LEMMA TakeoverStep ==
    ASSUME Recorded, NEW t \in Takeovers, Open(t) \/ Exit(t) \/ Watchdog(t), UNCHANGED faults
    PROVE  Recorded'
<1>t. take[t] \in Takes /\ lapses \in Nat /\ faults \in Nat /\ log \in [Takeovers -> Seq({"opened", "closed"})]
  BY DEF Recorded, TermTypes
<1>p. (Clean' => Clean) <=> (lapses' = 0 /\ faults = 0 => lapses = 0) BY DEF Clean
<1>k. ASSUME UNCHANGED log PROVE \A u \in Takeovers : Ended(u) => Ended(u)' BY <1>k DEF Ended
<1>l. ASSUME Lapse PROVE lapses' \in Nat /\ lapses' # 0 /\ ~Clean' BY <1>l, <1>t, OneMore DEF Lapse, Clean
\* A step of t that leaves its mark, its watchdog and the log alone.
<1>q. ASSUME NEW q \in Takes, take' = [take EXCEPT ![t] = q], q.closed = take[t].closed, q.dog = take[t].dog,
             UNCHANGED <<log, closer>>, lapses' = lapses \/ Lapse
      PROVE  Recorded'
  <2>1. lapses' \in Nat /\ (Clean' => Clean) BY <1>q, <1>l, <1>t, <1>p
  <2> QED BY <1>q, <1>k, <1>t, <2>1, TakeMoves
<1>1. CASE Look(t)
  <2>1. PICK o \in {"attach", "spawn"} : take' = [take EXCEPT ![t].open = o] BY <1>1 DEF Look
  <2>2. PICK q \in Takes : q = [take[t] EXCEPT !.open = o] BY <1>t DEF Takes
  <2>3. q.closed = take[t].closed /\ q.dog = take[t].dog BY <2>2, <1>t DEF Takes
  <2> QED BY <1>1, <1>q, <2>1, <2>2, <2>3 DEF Look
<1>2. CASE Spawn(t)
  <2>1. PICK q \in Takes : q = [NewTake EXCEPT !.open = "register", !.alive = TRUE, !.dog = "wait"]
    BY DEF NewTake, Takes
  <2>2. q.closed = FALSE /\ q.dog = "wait" BY <2>1 DEF NewTake
  <2>3. take' = [take EXCEPT ![t] = q] /\ UNCHANGED <<log, closer, lapses>> BY <1>2, <2>1 DEF Spawn
  <2> QED BY <1>k, <1>p, <1>t, <2>2, <2>3, TakeMoves
<1>3. CASE Register(t)
  <2>1. PICK q \in Takes : q = [take[t] EXCEPT !.open = "emit"] BY <1>t DEF Takes
  <2>2. q.closed = take[t].closed /\ q.dog = take[t].dog BY <2>1, <1>t DEF Takes
  <2> QED BY <1>3, <1>q, <2>1, <2>2 DEF Register
<1>4. CASE EmitOpened(t)
  <2>1. PICK q \in Takes : q = [take[t] EXCEPT !.open = "done"] BY <1>t DEF Takes
  <2>2. q.closed = take[t].closed /\ q.dog = take[t].dog BY <2>1, <1>t DEF Takes
  <2>3. take' = [take EXCEPT ![t] = q] /\ UNCHANGED <<closer, lapses>> /\ Says(t, "opened") BY <1>4, <2>1 DEF EmitOpened
  <2>4. /\ log' \in [Takeovers -> Seq({"opened", "closed"})]
        /\ \A u \in Takeovers : Ended(u) => Ended(u)'
    BY <2>3, SaysAdds DEF Recorded
  <2> QED BY <1>p, <1>t, <2>2, <2>3, <2>4, TakeMoves
<1>5. CASE OpenLapses(t)
  <2>1. PICK q \in Takes : q = [take[t] EXCEPT !.open = "done"] BY <1>t DEF Takes
  <2>2. q.closed = take[t].closed /\ q.dog = take[t].dog BY <2>1, <1>t DEF Takes
  <2> QED BY <1>5, <1>q, <2>1, <2>2 DEF OpenLapses
<1>6. CASE Exit(t)
  <2>1. PICK q \in Takes : q = [take[t] EXCEPT !.alive = FALSE] BY <1>t DEF Takes
  <2>2. q.closed = take[t].closed /\ q.dog = take[t].dog BY <2>1, <1>t DEF Takes
  <2> QED BY <1>6, <1>q, <2>1, <2>2 DEF Exit
<1>7. CASE Wake(t)
  <2>1. PICK q \in Takes : q = [take[t] EXCEPT !.dog = IF take[t].closed THEN "done" ELSE "unregister"]
    BY <1>t DEF Takes
  <2>2. q.closed = take[t].closed /\ (q.dog = "done" => q.closed) BY <2>1, <1>t DEF Takes
  <2>3. take' = [take EXCEPT ![t] = q] /\ UNCHANGED <<log, closer, lapses>> BY <1>7, <2>1 DEF Wake
  <2> QED BY <1>k, <1>p, <1>t, <2>2, <2>3, TakeMoves
<1>8. CASE Unregister(t)
  <2>1. PICK q \in Takes : q = [take[t] EXCEPT !.dog = "emit"] BY <1>t DEF Takes
  <2>2. q.closed = take[t].closed /\ q.dog = "emit" BY <2>1, <1>t DEF Takes
  <2>3. take' = [take EXCEPT ![t] = q] /\ UNCHANGED <<log, closer, lapses>> BY <1>8, <2>1 DEF Unregister
  <2> QED BY <1>k, <1>p, <1>t, <2>2, <2>3, TakeMoves
<1>9. CASE EmitClosed(t)
  <2>1. PICK q \in Takes : q = [take[t] EXCEPT !.dog = "done"] BY <1>t DEF Takes
  <2>2. q.closed = take[t].closed BY <2>1, <1>t DEF Takes
  <2>3. take' = [take EXCEPT ![t] = q] /\ UNCHANGED closer BY <1>9, <2>1 DEF EmitClosed
  <2>4. CASE Says(t, "closed") /\ UNCHANGED lapses
    <3>1. /\ log' \in [Takeovers -> Seq({"opened", "closed"})] /\ Ended(t)'
          /\ \A u \in Takeovers : Ended(u) => Ended(u)'
      BY <2>4, SaysAdds DEF Recorded
    <3> QED BY <1>p, <1>t, <2>2, <2>3, <2>4, <3>1, TakeMoves
  <2>5. CASE Lapse /\ UNCHANGED log
    <3>1. lapses' \in Nat /\ ~Clean' BY <1>l, <2>5
    <3> QED BY <1>k, <1>t, <2>3, <2>5, <3>1, TakeMoves
  <2> QED BY <1>9, <2>4, <2>5 DEF EmitClosed
<1> QED BY <1>1, <1>2, <1>3, <1>4, <1>5, <1>6, <1>7, <1>8, <1>9 DEF Open, Watchdog

\* The operator's close: marked together with the event it owes.
LEMMA CloserStep ==
    ASSUME Recorded, NEW c \in Closers, Close(c), UNCHANGED faults
    PROVE  Recorded'
<1>t. closer[c] \in Closes /\ lapses \in Nat /\ faults \in Nat /\ closer \in [Closers -> Closes]
  BY DEF Recorded, TermTypes
<1>l. ASSUME Lapse PROVE lapses' \in Nat /\ ~Clean' BY <1>l, <1>t, OneMore DEF Lapse, Clean
<1>k. ASSUME NEW k \in Closes, closer' = [closer EXCEPT ![c] = k]
      PROVE  /\ closer' \in [Closers -> Closes] /\ closer'[c] = k
             /\ \A d \in Closers \ {c} : closer'[d] = closer[d]
  BY <1>k, <1>t
<1>1. ASSUME NEW t \in Takeovers, CloseMark(c, t) PROVE Recorded'
  <2>1. PICK k \in Closes : k = [pc |-> "emit", of |-> t] BY DEF Closes
  <2>2. PICK q \in Takes : q = [take[t] EXCEPT !.closed = TRUE] BY DEF Recorded, TermTypes, Takes
  <2>3. q.dog = take[t].dog /\ q.closed = TRUE BY <2>2 DEF Recorded, TermTypes, Takes
  <2>4. /\ closer[c].pc = "idle" /\ take' = [take EXCEPT ![t] = q] /\ closer' = [closer EXCEPT ![c] = k]
        /\ UNCHANGED <<log, lapses>>
    BY <1>1, <2>1, <2>2 DEF CloseMark
  <2>5. take' \in [Takeovers -> Takes] /\ take'[t] = q /\ \A u \in Takeovers \ {t} : take'[u] = take[u]
    BY <2>4 DEF Recorded, TermTypes
  <2>6. k.pc = "emit" /\ k.of = t BY <2>1
  <2>7. Closing(t)' BY <1>k, <2>4, <2>6 DEF Closing
  <2>8. \A u \in Takeovers : (Closing(u) => Closing(u)') /\ (Ended(u) => Ended(u)')
    BY <1>k, <2>4 DEF Closing, Ended
  <2>9. TermTypes' BY <1>k, <2>4, <2>5 DEF Recorded, TermTypes
  <2>10. ASSUME Clean', NEW u \in Takeovers PROVE Told(u)'
    <3>1. Told(u) BY <2>4, <2>10 DEF Recorded, Clean
    <3>2. CASE u = t BY <2>3, <2>5, <2>7, <3>2 DEF Told
    <3>3. CASE u # t BY <2>5, <2>8, <3>1, <3>3 DEF Told
    <3> QED BY <3>2, <3>3
  <2> QED BY <2>9, <2>10 DEF Recorded
<1>2. CASE CloseEmit(c)
  <2>1. PICK k \in Closes : k = [closer[c] EXCEPT !.pc = "unregister"] BY <1>t DEF Closes
  <2>2. k.pc = "unregister" /\ k.of = closer[c].of BY <1>t, <2>1 DEF Closes
  <2>3. closer[c].pc = "emit" /\ closer' = [closer EXCEPT ![c] = k] /\ UNCHANGED take BY <1>2, <2>1 DEF CloseEmit
  <2>4. PICK t : t = closer[c].of OBVIOUS
  <2>5. \A u \in Takeovers : u # t => (Closing(u) => Closing(u)') BY <1>k, <2>3, <2>4 DEF Closing
  <2>6. CASE Says(t, "closed") /\ UNCHANGED lapses
    <3>1. CASE t \in Takeovers
      <4>1. /\ log' \in [Takeovers -> Seq({"opened", "closed"})] /\ Ended(t)'
            /\ \A u \in Takeovers : Ended(u) => Ended(u)'
        BY <2>6, <3>1, SaysAdds DEF Recorded
      <4>2. TermTypes' BY <1>k, <2>3, <2>6, <4>1 DEF Recorded, TermTypes
      <4>3. ASSUME Clean', NEW u \in Takeovers PROVE Told(u)'
        <5>1. Told(u) BY <2>6, <4>3 DEF Recorded, Clean
        <5> QED BY <2>3, <2>5, <4>1, <5>1 DEF Told
      <4> QED BY <4>2, <4>3 DEF Recorded
    <3>2. CASE t \notin Takeovers
      <4>1. log' = log BY <2>6, <3>2 DEF Says, Recorded, TermTypes
      <4>2. TermTypes' BY <1>k, <2>3, <2>6, <4>1 DEF Recorded, TermTypes
      <4>3. ASSUME Clean', NEW u \in Takeovers PROVE Told(u)'
        <5>1. Told(u) BY <2>6, <4>3 DEF Recorded, Clean
        <5> QED BY <2>3, <2>5, <3>2, <4>1, <5>1 DEF Told, Ended
      <4> QED BY <4>2, <4>3 DEF Recorded
    <3> QED BY <3>1, <3>2
  <2>7. CASE Lapse /\ UNCHANGED log
    BY <1>k, <1>l, <2>3, <2>7 DEF Recorded, TermTypes
  <2> QED BY <1>2, <2>4, <2>6, <2>7 DEF CloseEmit
<1>3. CASE CloseUnregister(c)
  <2>1. PICK k \in Closes : k = NewClose BY DEF NewClose, Closes
  <2>2. closer[c].pc = "unregister" /\ closer' = [closer EXCEPT ![c] = k] /\ UNCHANGED <<take, log, lapses>>
    BY <1>3, <2>1 DEF CloseUnregister
  <2>3. \A u \in Takeovers : (Closing(u) => Closing(u)') /\ (Ended(u) => Ended(u)')
    BY <1>k, <2>2 DEF Closing, Ended
  <2>4. TermTypes' BY <1>k, <2>2 DEF Recorded, TermTypes
  <2> QED BY <2>2, <2>3, <2>4 DEF Recorded, Clean, Told
<1>4. CASE CloseDropped(c)
  <2>1. PICK k \in Closes : k = NewClose BY DEF NewClose, Closes
  <2>2. closer' = [closer EXCEPT ![c] = k] /\ Lapse /\ UNCHANGED <<take, log>> BY <1>4, <2>1 DEF CloseDropped
  <2> QED BY <1>k, <1>l, <2>2 DEF Recorded, TermTypes
<1> QED BY <1>1, <1>2, <1>3, <1>4 DEF Close

LEMMA RecordedStep ==
    ASSUME Recorded, [Next]_vars
    PROVE  Recorded'
<1>t. faults \in Nat /\ lapses \in Nat BY DEF Recorded, TermTypes
<1>f. ASSUME Fault PROVE faults' \in Nat /\ ~Clean' BY <1>f, <1>t, OneMore DEF Fault, Clean
<1>s. ASSUME UNCHANGED <<take, log, closer, lapses>>, UNCHANGED faults \/ Fault PROVE Recorded'
  <2>1. CASE UNCHANGED faults BY <1>s, <2>1 DEF Recorded, TermTypes, Clean, Told, Closing, Ended
  <2>2. CASE Fault BY <1>s, <1>f, <2>2 DEF Recorded, TermTypes
  <2> QED BY <1>s, <2>1, <2>2
<1>1. ASSUME NEW r \in Requesters, Request(r) PROVE UNCHANGED faults \/ Fault
  BY <1>1 DEF Request, Ask, Acquire, Read, Write, Emit, Evict, Fails, Dropped
<1>2. CASE Orchestrate BY <1>2, <1>1, <1>s DEF Orchestrate, termVars
<1>3. ASSUME TermNext, UNCHANGED faults PROVE Recorded'
  <2>1. ASSUME NEW x \in Sockets, Browse(x) PROVE UNCHANGED <<take, log, closer, lapses>>
    BY <2>1 DEF Browse, Connect, Attach, Leave
  <2>2. PrimaryMoves => UNCHANGED <<take, log, closer, lapses>> BY DEF PrimaryMoves
  <2> QED BY <1>3, <1>s, <2>1, <2>2, TakeoverStep, CloserStep DEF TermNext
<1>4. CASE Drive BY <1>3, <1>4 DEF Drive, ownVars
<1>5. CASE Restart
  <2>1. Fault /\ TermCrash BY <1>5 DEF Restart, OwnCrash
  <2>2. NewTake \in Takes /\ [NewTake EXCEPT !.open = "done"] \in Takes BY DEF NewTake, Takes
  <2>3. NewClose \in Closes BY DEF NewClose, Closes
  <2>4. take' \in [Takeovers -> Takes] /\ closer' \in [Closers -> Closes] /\ UNCHANGED <<log, lapses>>
    BY <2>1, <2>2, <2>3 DEF TermCrash
  <2> QED BY <1>f, <2>1, <2>4 DEF Recorded, TermTypes
<1>6. CASE UNCHANGED vars BY <1>6, <1>s DEF vars, ownVars, termVars
<1> QED BY <1>2, <1>4, <1>5, <1>6 DEF Next

LEMMA NoneOfTwo == \A a, b \in Nat : a + b = 0 => a = 0 /\ b = 0 OBVIOUS

\* ClosedOnRecord: a takeover whose watchdog is done and which no close is
\* busy with has a "closed" event, as long as no insert failed, no handler
\* was dropped and the process did not restart.
THEOREM ClosedOnRecordHolds == Spec => []ClosedOnRecord
<1>1. Recorded /\ [Next]_vars => Recorded' BY RecordedStep
<1>2. Init => Recorded BY RecordedInit
<1>3. Recorded => ClosedOnRecord
  <2> SUFFICES ASSUME Recorded, NEW t \in Takeovers, take[t].dog = "done", faults + lapses = 0,
                      \A c \in Closers : closer[c].of # t
               PROVE  Ended(t)
    BY DEF ClosedOnRecord, Ended
  <2>1. Clean BY NoneOfTwo DEF Recorded, TermTypes, Clean
  <2>2. Told(t) /\ ~Closing(t) BY <2>1 DEF Recorded, Closing
  <2> QED BY <2>2 DEF Told
<1> QED BY <1>1, <1>2, <1>3, PTL DEF Spec
-----------------------------------------------------------------------------
(* HandoverRules: what one session leaves to the next                      *)

\* An optional value has at most one element.
Optional(value) == \A a, b \in value : a = b

-----------------------------------------------------------------------------
(* Numbers: there is a least and a greatest, and there is induction, as    *)
(* statements about sets.                                                  *)

Below == {ss \in Nat \X Nat : ss[1] < ss[2]}

LEMMA LeastExists ==
    ASSUME NEW S, S \subseteq Nat, S # {}
    PROVE  \E i \in S : \A j \in S : i <= j
  <1>1. IsWellFoundedOn(Below, Nat)
    BY NatLessThanWellFounded DEF OpToRel, Below
  <1>2. PICK i \in S : \A j \in S : ~(<<j, i>> \in Below)
    BY <1>1, WFMin
  <1>3. ASSUME NEW j \in S PROVE i <= j
    <2>1. i \in Nat /\ j \in Nat /\ ~(<<j, i>> \in Below)
      BY <1>2
    <2>2. ~(j < i)
      BY <2>1 DEF Below
    <2> QED
      BY <2>1, <2>2
  <1> QED
    BY <1>2, <1>3

LEMMA GreatestExists ==
    ASSUME NEW n \in Nat, NEW S, S \subseteq 1 .. n, S # {}
    PROVE  \E i \in S : \A j \in S : j <= i
  <1> DEFINE T == {k \in Nat : n - k \in S}
  <1>1. T # {}
    <2>1. PICK i \in S : TRUE
      OBVIOUS
    <2>2. n - i \in Nat /\ n - (n - i) = i
      OBVIOUS
    <2> QED
      BY <2>1, <2>2
  <1>2. PICK k \in T : \A j \in T : k <= j
    <2>1. T \subseteq Nat
      OBVIOUS
    <2> HIDE DEF T
    <2> QED
      BY <1>1, <2>1, LeastExists
  <1>3. ASSUME NEW j \in S PROVE j <= n - k
    <2>1. j \in Nat /\ n - j \in Nat /\ n - (n - j) = j
      OBVIOUS
    <2>2. n - j \in T
      BY <2>1
    <2>3. k <= n - j /\ k \in Nat
      BY <1>2, <2>2
    <2> QED
      BY <2>1, <2>3
  <1> QED
    BY <1>2, <1>3

LEMMA Induction ==
    ASSUME NEW S, S \subseteq Nat, 0 \in S, \A n \in S : n + 1 \in S
    PROVE  Nat \subseteq S
  <1>1. SUFFICES ASSUME Nat \ S # {} PROVE FALSE
    OBVIOUS
  <1>2. PICK i \in Nat \ S : \A j \in Nat \ S : i <= j
    <2>1. Nat \ S \subseteq Nat
      OBVIOUS
    <2> QED
      BY <1>1, <2>1, LeastExists
  <1>3. i # 0 /\ i - 1 \in Nat /\ i - 1 \notin Nat \ S
    BY <1>2
  <1> QED
    BY <1>2, <1>3

-----------------------------------------------------------------------------
(* Where the task is                                                       *)

\* focus_step: whoever takes over is given exactly one step's agent unless there
\* are no steps, and the current step's if there is one.
THEOREM FocusIsOneStep ==
    ASSUME NEW Step, NEW steps \in Seq(Step), NEW task, Optional(task.current)
    PROVE  /\ focus_step(task, steps) \subseteq DOMAIN steps /\ Optional(focus_step(task, steps))
           /\ focus_step(task, steps) = {} <=> steps = <<>>
           /\ task.current \cap DOMAIN steps # {} => focus_step(task, steps) = task.current
  <1> DEFINE Started == {i \in DOMAIN steps : steps[i].status # "pending"}
  <1>1. DOMAIN steps = 1 .. Len(steps) /\ Len(steps) \in Nat
    OBVIOUS
  <1>2. /\ LastOf(Started) \subseteq DOMAIN steps /\ Optional(LastOf(Started))
        /\ FirstOf(DOMAIN steps) \subseteq DOMAIN steps /\ Optional(FirstOf(DOMAIN steps))
    BY <1>1 DEF LastOf, FirstOf, Optional
  <1>3. Started # {} => LastOf(Started) # {}
    <2>1. Started \subseteq 1 .. Len(steps)
      BY <1>1
    <2> HIDE DEF Started
    <2> QED
      BY <1>1, <2>1, GreatestExists DEF LastOf
  <1>4. DOMAIN steps # {} => FirstOf(DOMAIN steps) # {}
    <2>1. DOMAIN steps \subseteq Nat
      BY <1>1
    <2> QED
      BY <2>1, LeastExists DEF FirstOf
  <1>5. DOMAIN steps = {} <=> steps = <<>>
    <2>1. Len(steps) = 0 <=> steps = <<>>
      BY EmptySeq
    <2>2. Len(steps) # 0 => 1 \in 1 .. Len(steps)
      BY <1>1
    <2>3. Len(steps) = 0 => 1 .. Len(steps) = {}
      OBVIOUS
    <2> QED
      BY <1>1, <2>1, <2>2, <2>3
  <1>6. Started = {} \/ DOMAIN steps # {}
    OBVIOUS
  <1>7. focus_step(task, steps) = OrElse(task.current \cap DOMAIN steps,
                                         OrElse(LastOf(Started), FirstOf(DOMAIN steps)))
    BY DEF focus_step, current_step
  <1> HIDE DEF Started
  <1> QED
    BY <1>2, <1>3, <1>4, <1>5, <1>6, <1>7 DEF OrElse, Optional, Absent

\* provider_session_id: the key to resume comes from the newest session that has
\* one, and never from a background session, whose handle no --resume accepts.
THEOREM KeyIsResumable ==
    ASSUME NEW SessionRow, NEW sessions \in Seq(SessionRow), NEW key \in provider_session(sessions)
    PROVE  \E i \in DOMAIN sessions :
              /\ sessions[i].mode # "background" /\ key \in sessions[i].key
              /\ \A j \in DOMAIN sessions : i < j => sessions[j].mode = "background" \/ sessions[j].key = {}
  <1>1. PICK i \in LastOf(Keyed(sessions)) : key \in sessions[i].key
    BY DEF provider_session
  <1>2. i \in Keyed(sessions) /\ \A j \in Keyed(sessions) : j <= i
    BY <1>1 DEF LastOf
  <1>3. i \in DOMAIN sessions /\ sessions[i].mode # "background"
    BY <1>2 DEF Keyed
  <1>4. ASSUME NEW j \in DOMAIN sessions, i < j, sessions[j].mode # "background", sessions[j].key # {}
        PROVE  FALSE
    <2>1. j \in Keyed(sessions)
      BY <1>4 DEF Keyed, Absent
    <2>2. j <= i /\ i \in Nat /\ j \in Nat
      BY <1>2, <1>3, <2>1
    <2> QED
      BY <1>4, <2>2
  <1> QED
    BY <1>1, <1>3, <1>4

-----------------------------------------------------------------------------
(* What blocks it, and who must decide                                     *)

RunKinds == {"run_waiting_human", "run_failed", "run_cancelled", "run_paused"}
KindsOf(blocks) == {b.kind : b \in blocks}

LEMMA BlocksKind ==
    ASSUME NEW kind, NEW reason
    PROVE  /\ reason # {} => KindsOf(Blocks(kind, reason)) = {kind}
           /\ reason = {} => KindsOf(Blocks(kind, reason)) = {}
  <1>1. ASSUME NEW r \in reason PROVE KindsOf(Blocks(kind, reason)) = {kind}
    <2>1. [kind |-> kind, reason |-> redact(r)] \in Blocks(kind, reason)
      BY DEF Blocks, Masked
    <2>2. kind \in KindsOf(Blocks(kind, reason))
      BY <2>1 DEF KindsOf
    <2>3. \A b \in Blocks(kind, reason) : b.kind = kind
      BY DEF Blocks
    <2> QED
      BY <2>2, <2>3 DEF KindsOf
  <1>2. reason = {} => Blocks(kind, reason) = {}
    BY DEF Blocks, Masked
  <1> QED
    BY <1>1, <1>2 DEF KindsOf

LEMMA DefaultNeverEmpty ==
    ASSUME NEW value, NEW default, default # {}
    PROVE  OrElse(value, default) # {}
  BY DEF OrElse, Absent

\* derive_blocking: a run that waits, failed, was cancelled or is paused is what
\* blocks, whatever the task says; only without one does the task speak.
THEOREM RunBlocksFirst ==
    ASSUME NEW task, NEW r, NEW steps, r.paused \in BOOLEAN
    PROVE  LET kinds == KindsOf(derive_blocking(task, {r}, steps))
               stuck == r.state \in {"waiting_human", "failed", "cancelled"} \/ r.paused
           IN  /\ stuck => \E k \in RunKinds : kinds = {k}
               /\ ~stuck => derive_blocking(task, {r}, steps) = BlockingTask(task, steps)
  <1>1. UNION {BlockingRun(x, steps) : x \in {r}} = BlockingRun(r, steps)
    OBVIOUS
  <1> DEFINE stuck == r.state \in {"waiting_human", "failed", "cancelled"} \/ r.paused
  <1>2. ~stuck => BlockingRun(r, steps) = {}
    BY DEF BlockingRun, Absent
  <1>3. ASSUME stuck PROVE \E k \in RunKinds : KindsOf(BlockingRun(r, steps)) = {k}
    <2>1. CASE r.state = "waiting_human"
      <3>1. KindsOf(BlockingRun(r, steps)) = {"run_waiting_human"}
        <4> DEFINE why == OrElse(r.pause_reason, OrElse(needs_human_reason(steps), {{"waiting"}}))
        <4>1. why # {}
          BY DefaultNeverEmpty
        <4>2. BlockingRun(r, steps) = Blocks("run_waiting_human", why)
          BY <2>1 DEF BlockingRun
        <4> HIDE DEF why
        <4> QED
          BY <4>1, <4>2, BlocksKind
      <3> QED
        BY <3>1 DEF RunKinds
    <2>2. CASE r.state = "failed"
      <3>1. KindsOf(BlockingRun(r, steps)) = {"run_failed"}
        <4> DEFINE why == OrElse(r.error, OrElse(failure_reason(steps), {{"failed"}}))
        <4>1. why # {}
          BY DefaultNeverEmpty
        <4>2. BlockingRun(r, steps) = Blocks("run_failed", why)
          BY <2>2 DEF BlockingRun
        <4> HIDE DEF why
        <4> QED
          BY <4>1, <4>2, BlocksKind
      <3> QED
        BY <3>1 DEF RunKinds
    <2>3. CASE r.state = "cancelled"
      <3>1. KindsOf(BlockingRun(r, steps)) = {"run_cancelled"}
        BY <2>3, BlocksKind DEF BlockingRun
      <3> QED
        BY <3>1 DEF RunKinds
    <2>4. CASE r.state \notin {"waiting_human", "failed", "cancelled"} /\ r.paused
      <3>1. KindsOf(BlockingRun(r, steps)) = {"run_paused"}
        <4> DEFINE why == OrElse(r.pause_reason, {{"paused"}})
        <4>1. why # {}
          BY DefaultNeverEmpty
        <4>2. BlockingRun(r, steps) = Blocks("run_paused", why)
          BY <2>4 DEF BlockingRun
        <4> HIDE DEF why
        <4> QED
          BY <4>1, <4>2, BlocksKind
      <3> QED
        BY <3>1 DEF RunKinds
    <2> QED
      BY <1>3, <2>1, <2>2, <2>3, <2>4
  <1>4. stuck => BlockingRun(r, steps) # {}
    BY <1>3 DEF KindsOf
  <1>5. derive_blocking(task, {r}, steps)
          = IF BlockingRun(r, steps) = {} THEN BlockingTask(task, steps) ELSE BlockingRun(r, steps)
    BY <1>1 DEF derive_blocking, OrElse, Absent
  <1> HIDE DEF stuck
  <1>6. /\ stuck => \E k \in RunKinds : KindsOf(derive_blocking(task, {r}, steps)) = {k}
        /\ ~stuck => derive_blocking(task, {r}, steps) = BlockingTask(task, steps)
    BY <1>2, <1>3, <1>4, <1>5
  <1> QED
    BY <1>6 DEF stuck
\* derive_pending_decisions: what waits for a person says so twice, as the block
\* (a waiting run hides the task's, being the one to act on) and in the list.
THEOREM WaitingIsListed ==
    ASSUME NEW task, NEW r, NEW steps, r.paused \in BOOLEAN
    PROVE  LET shown == KindsOf(derive_pending_decisions(task, {r}, steps)) IN
           /\ r.state = "waiting_human" => "run_waiting_human" \in shown
           /\ r.paused => "run_paused" \in shown
           /\ task.status = "needs_human" => "task_needs_human" \in shown
           /\ task.status = "needs_human" => derive_blocking(task, {r}, steps) # {}
  <1> DEFINE D == derive_pending_decisions(task, {r}, steps)
  <1>0. RunDecisions(r) \subseteq D
    BY DEF derive_pending_decisions
  <1>1. ASSUME NEW kind, NEW step, NEW text, text # {}, Decision(kind, step, text) \subseteq D
        PROVE  kind \in KindsOf(D)
    <2>1. PICK t \in text : TRUE
      BY <1>1
    <2>2. [kind |-> kind, step |-> step, detail |-> redact(t)] \in D
      BY <1>1, <2>1 DEF Decision, Masked
    <2> HIDE DEF D
    <2> QED
      BY <2>2 DEF KindsOf
  <1>2. ASSUME r.state = "waiting_human" PROVE "run_waiting_human" \in KindsOf(D)
    <2>1. Decision("run_waiting_human", {}, {{"waiting"}}) \subseteq D
      BY <1>0, <1>2 DEF RunDecisions, Absent
    <2> HIDE DEF D
    <2> QED
      BY <1>1, <2>1
  <1>3. ASSUME r.paused PROVE "run_paused" \in KindsOf(D)
    <2> DEFINE why == OrElse(r.pause_reason, {{"paused"}})
    <2>1. Decision("run_paused", {}, why) \subseteq D
      BY <1>0, <1>3 DEF RunDecisions, Absent
    <2>2. why # {}
      BY DefaultNeverEmpty
    <2> HIDE DEF D, why
    <2> QED
      BY <1>1, <2>1, <2>2
  <1>4. ASSUME task.status = "needs_human" PROVE "task_needs_human" \in KindsOf(D)
    <2> DEFINE why == OrElse(task.summary, {{"needs human"}})
    <2>1. Decision("task_needs_human", {}, why) \subseteq D
      BY <1>4 DEF derive_pending_decisions, Absent
    <2>2. why # {}
      BY DefaultNeverEmpty
    <2> HIDE DEF D, why
    <2> QED
      BY <1>1, <2>1, <2>2
  <1>5. ASSUME task.status = "needs_human" PROVE derive_blocking(task, {r}, steps) # {}
    <2> DEFINE why == OrElse(needs_human_reason(steps), {{"needs human"}})
    <2>1. BlockingTask(task, steps) = Blocks("task_needs_human", why)
      BY <1>5 DEF BlockingTask
    <2>2. why # {}
      BY DefaultNeverEmpty
    <2> HIDE DEF why
    <2>3. KindsOf(BlockingTask(task, steps)) = {"task_needs_human"}
      BY <2>1, <2>2, BlocksKind
    <2>4. BlockingTask(task, steps) # {}
      BY <2>3 DEF KindsOf
    <2> QED
      BY <2>4 DEF derive_blocking, OrElse, Absent
  <1> HIDE DEF D
  <1>6. /\ r.state = "waiting_human" => "run_waiting_human" \in KindsOf(D)
        /\ r.paused => "run_paused" \in KindsOf(D)
        /\ task.status = "needs_human" => "task_needs_human" \in KindsOf(D)
    BY <1>2, <1>3, <1>4
  <1> QED
    BY <1>5, <1>6 DEF D
-----------------------------------------------------------------------------
(* The files of a task                                                     *)

Listed(paths, x) == \E k \in DOMAIN paths : paths[k] = x
Add(paths, x)    == IF Listed(paths, x) THEN paths ELSE Append(paths, x)
NoRepeat(paths)  == \A j, k \in DOMAIN paths : paths[j] = paths[k] => j = k

LEMMA AddListed ==
    ASSUME NEW Path, NEW paths \in Seq(Path), NEW x \in Path
    PROVE  /\ Add(paths, x) \in Seq(Path)
           /\ NoRepeat(paths) => NoRepeat(Add(paths, x))
           /\ \A y : Listed(Add(paths, x), y) <=> Listed(paths, y) \/ y = x
  <1> DEFINE q == Append(paths, x)
  <1>1. /\ q \in Seq(Path) /\ Len(paths) \in Nat /\ DOMAIN paths = 1 .. Len(paths)
        /\ DOMAIN q = 1 .. Len(paths) + 1 /\ q[Len(paths) + 1] = x
        /\ \A k \in 1 .. Len(paths) : q[k] = paths[k]
    OBVIOUS
  <1> HIDE DEF q
  <1>2. \A y : Listed(q, y) <=> Listed(paths, y) \/ y = x
    BY <1>1 DEF Listed
  <1>3. ASSUME NoRepeat(paths), ~Listed(paths, x) PROVE NoRepeat(q)
    BY <1>1, <1>3 DEF NoRepeat, Listed
  <1> QED
    BY <1>1, <1>2, <1>3 DEF Add, q

\* The function first_paths folds along the files, and what defines it.
Folded(files, n, f) == f = [i \in 0 .. n |-> IF i = 0 THEN <<>> ELSE Add(f[i - 1], files[i])]

LEMMA FoldExists ==
    ASSUME NEW files, NEW n \in Nat
    PROVE  \E f : Folded(files, n, f)
  <1> DEFINE S == {m \in Nat : \E f : Folded(files, m, f)}
  <1>1. 0 \in S
    <2> DEFINE f == [i \in 0 .. 0 |-> <<>>]
    <2>1. Folded(files, 0, f)
      BY DEF Folded
    <2> QED
      BY <2>1
  <1>2. ASSUME NEW m \in S PROVE m + 1 \in S
    <2>1. PICK f : Folded(files, m, f)
      BY <1>2
    <2> DEFINE g == [i \in 0 .. m + 1 |-> IF i = m + 1 THEN Add(f[m], files[m + 1]) ELSE f[i]]
    <2>2. ASSUME NEW i \in 0 .. m + 1
          PROVE  g[i] = IF i = 0 THEN <<>> ELSE Add(g[i - 1], files[i])
      <3>1. CASE i = m + 1
        <4>1. i - 1 = m /\ m \in 0 .. m + 1 /\ m # m + 1 /\ i # 0
          BY <3>1
        <4>2. g[m] = f[m] /\ g[i] = Add(f[m], files[m + 1])
          BY <3>1, <4>1
        <4> HIDE DEF g
        <4> QED
          BY <3>1, <4>1, <4>2
      <3>2. CASE i = 0
        <4>1. g[i] = f[i] /\ i \in 0 .. m
          BY <3>2
        <4> QED
          BY <2>1, <3>2, <4>1 DEF Folded
      <3>3. CASE i # 0 /\ i # m + 1
        <4>1. i \in 0 .. m /\ i - 1 \in 0 .. m + 1 /\ i - 1 # m + 1
          BY <3>3
        <4>2. g[i] = f[i] /\ g[i - 1] = f[i - 1]
          BY <3>3, <4>1
        <4>3. f[i] = Add(f[i - 1], files[i])
          BY <2>1, <3>3, <4>1 DEF Folded
        <4> HIDE DEF g
        <4> QED
          BY <3>3, <4>2, <4>3
      <3> QED
        BY <3>1, <3>2, <3>3
    <2>3. Folded(files, m + 1, g)
      BY <2>2 DEF Folded
    <2>4. m + 1 \in Nat
      OBVIOUS
    <2> HIDE DEF g
    <2> QED
      BY <2>3, <2>4
  <1>3. Nat \subseteq S
    <2>1. S \subseteq Nat
      OBVIOUS
    <2> HIDE DEF S
    <2> QED
      BY <1>1, <1>2, <2>1, Induction
  <1> QED
    BY <1>3

LEMMA FoldLists ==
    ASSUME NEW Path, NEW files \in Seq(Path), NEW f, Folded(files, Len(files), f)
    PROVE  LET p == f[Len(files)] IN
           p \in Seq(Path) /\ NoRepeat(p) /\ \A x : Listed(p, x) <=> Listed(files, x)
  <1> DEFINE N == Len(files)
             Upto(n, x) == \E k \in 1 .. n : files[k] = x
             Good(n, p) == p \in Seq(Path) /\ NoRepeat(p) /\ \A x : Listed(p, x) <=> Upto(n, x)
             S == {n \in Nat : n <= N => Good(n, f[n])}
  <1>0. N \in Nat /\ DOMAIN files = 1 .. N
    OBVIOUS
  <1>1. 0 \in S
    <2>1. f[0] = <<>>
      BY <1>0 DEF Folded
    <2>2. <<>> \in Seq(Path) /\ DOMAIN <<>> = {}
      OBVIOUS
    <2>3. NoRepeat(<<>>) /\ \A x : ~Listed(<<>>, x)
      BY <2>2 DEF NoRepeat, Listed
    <2>4. \A x : ~Upto(0, x)
      OBVIOUS
    <2> QED
      BY <2>1, <2>2, <2>3, <2>4
  <1>2. ASSUME NEW n \in S PROVE n + 1 \in S
    <2>1. SUFFICES ASSUME n + 1 <= N PROVE Good(n + 1, f[n + 1])
      OBVIOUS
    <2>2. n \in Nat /\ Good(n, f[n])
      BY <1>0, <2>1
    <2>3. files[n + 1] \in Path
      BY <1>0, <2>1, <2>2
    <2>4. f[n + 1] = Add(f[n], files[n + 1])
      <3>1. n + 1 \in 0 .. N /\ n + 1 # 0 /\ (n + 1) - 1 = n
        BY <1>0, <2>1, <2>2
      <3> QED
        BY <3>1 DEF Folded
    <2>5. \A x : Upto(n + 1, x) <=> Upto(n, x) \/ x = files[n + 1]
      BY <2>2
    <2>6. f[n] \in Seq(Path) /\ NoRepeat(f[n]) /\ \A x : Listed(f[n], x) <=> Upto(n, x)
      BY <2>2
    <2>7. /\ f[n + 1] \in Seq(Path) /\ NoRepeat(f[n + 1])
          /\ \A x : Listed(f[n + 1], x) <=> Listed(f[n], x) \/ x = files[n + 1]
      <3> DEFINE p == f[n]
                 x == files[n + 1]
      <3>1. p \in Seq(Path) /\ NoRepeat(p) /\ x \in Path /\ f[n + 1] = Add(p, x)
        BY <2>3, <2>4, <2>6
      <3> HIDE DEF p, x
      <3>2. /\ Add(p, x) \in Seq(Path) /\ NoRepeat(Add(p, x))
            /\ \A y : Listed(Add(p, x), y) <=> Listed(p, y) \/ y = x
        BY <3>1, AddListed
      <3> QED
        BY <3>1, <3>2 DEF p, x
    <2> HIDE DEF Upto
    <2> QED
      BY <2>5, <2>6, <2>7
  <1>3. Nat \subseteq S
    <2>1. S \subseteq Nat
      OBVIOUS
    <2> HIDE DEF S
    <2> QED
      BY <1>1, <1>2, <2>1, Induction
  <1>4. Good(N, f[N])
    <2> HIDE DEF Good
    <2> QED
      BY <1>0, <1>3
  <1> QED
    BY <1>0, <1>4 DEF Listed

\* aggregate_changed_files: however often the steps report a file, it is shown
\* once, none is forgotten and none made up.
THEOREM FilesListedOnce ==
    ASSUME NEW Path, NEW files \in Seq(Path)
    PROVE  LET p == first_paths(files) IN
           p \in Seq(Path) /\ NoRepeat(p) /\ \A x : Listed(p, x) <=> Listed(files, x)
  <1> DEFINE f == CHOOSE g : g = [n \in 0 .. Len(files) |->
                                  IF n = 0 THEN <<>>
                                  ELSE IF \E k \in DOMAIN g[n - 1] : g[n - 1][k] = files[n] THEN g[n - 1]
                                  ELSE Append(g[n - 1], files[n])]
  <1>1. first_paths(files) = f[Len(files)]
    BY DEF first_paths
  <1>2. Folded(files, Len(files), f)
    <2>1. Len(files) \in Nat
      OBVIOUS
    <2>2. \E g : Folded(files, Len(files), g)
      BY <2>1, FoldExists
    <2> QED
      BY <2>2 DEF Folded, Add, Listed
  <1> HIDE DEF f
  <1> QED
    BY <1>1, <1>2, FoldLists

-----------------------------------------------------------------------------
(* What is masked                                                          *)

SecretFree(text) == text \cap Secrets = {}

LEMMA RedactCleans ==
    ASSUME NEW text
    PROVE  SecretFree(redact(text)) /\ (SecretFree(text) => redact(text) = text)
  <1>1. "masked" \notin Secrets
    <2>1. DOMAIN Shapes = 1 .. 5
      BY DEF Shapes
    <2>2. \A k \in 1 .. 5 : Shapes[k] # "masked"
      BY DEF Shapes
    <2> QED
      BY <2>1, <2>2 DEF Secrets
  <1> QED
    BY <1>1 DEF redact, SecretFree

LEMMA MaskedCleans ==
    ASSUME NEW texts
    PROVE  \A t \in Masked(texts) : SecretFree(t)
  BY RedactCleans DEF Masked

LEMMA DecisionsClean ==
    ASSUME NEW task, NEW run, NEW steps
    PROVE  \A d \in derive_pending_decisions(task, run, steps) : SecretFree(d.detail)
  <1>1. ASSUME NEW kind, NEW step, NEW texts
        PROVE  \A d \in Decision(kind, step, texts) : SecretFree(d.detail)
    BY MaskedCleans DEF Decision
  <1>2. ASSUME NEW r PROVE \A d \in RunDecisions(r) : SecretFree(d.detail)
    BY <1>1 DEF RunDecisions
  <1>3. ASSUME NEW i, NEW step PROVE \A d \in StepDecisions(i, step) : SecretFree(d.detail)
    BY <1>1 DEF StepDecisions
  <1> QED
    BY <1>1, <1>2, <1>3 DEF derive_pending_decisions

LEMMA BlocksClean ==
    ASSUME NEW task, NEW run, NEW steps
    PROVE  \A b \in derive_blocking(task, run, steps) : SecretFree(b.reason)
  <1>1. ASSUME NEW kind, NEW texts
        PROVE  \A b \in Blocks(kind, texts) : SecretFree(b.reason)
    BY MaskedCleans DEF Blocks
  <1>2. ASSUME NEW r PROVE \A b \in BlockingRun(r, steps) : SecretFree(b.reason)
    BY <1>1 DEF BlockingRun, Absent
  <1>3. \A b \in BlockingTask(task, steps) : SecretFree(b.reason)
    BY <1>1 DEF BlockingTask, Absent
  <1> QED
    BY <1>2, <1>3 DEF derive_blocking, OrElse

LEMMA ExcerptOfBody ==
    ASSUME NEW text, NEW caps, "secret_part" \notin {text[i] : i \in DOMAIN text}
    PROVE  "secret_part" \in redact(truncate_chars(text, caps))
               <=> ~caps.known /\ \E i \in DOMAIN text : i = caps.body + 1 /\ text[i] \in Secrets
  <1>1. "secret_part" \notin Secrets /\ "secret_part" # "masked"
    <2>1. DOMAIN Shapes = 1 .. 5
      BY DEF Shapes
    <2>2. \A k \in 1 .. 5 : Shapes[k] # "secret_part"
      BY DEF Shapes
    <2> QED
      BY <2>1, <2>2 DEF Secrets
  <1>2. "secret_part" \in redact(truncate_chars(text, caps)) <=> "secret_part" \in truncate_chars(text, caps)
    BY <1>1 DEF redact
  <1>3. \A i \in DOMAIN text : "secret_part" = AtCap(text[i], caps) <=> ~caps.known /\ text[i] \in Secrets
    BY <1>1 DEF AtCap
  <1> QED
    BY <1>2, <1>3 DEF truncate_chars

\* run_context_snapshot.rs, "every free-text field is redacted": no prose of a
\* snapshot holds a secret the patterns know, wherever in the rows it was.  The
\* excerpt of the issue is cut before it is masked: it shows part of a secret
\* exactly if the cut falls in one and the patterns do not know what is left.
\* What is no prose is not masked: the worktree with its path and branches is
\* carried as the run has it, whatever it spells, and so is a step's agent.
THEOREM ProseIsMasked ==
    ASSUME NEW task, NEW steps, NEW db, NEW caps
    PROVE  LET s == build_run_context_snapshot(task, steps, db, caps) IN
           /\ \A t \in s.task.summary \cup s.task.objective : SecretFree(t)
           /\ \A i \in DOMAIN steps : \A t \in s.steps[i].summary \cup s.steps[i].failure : SecretFree(t)
           /\ \A r \in s.run : \A t \in r.error : SecretFree(t)
           /\ \A e \in s.events : \A k \in DOMAIN e : SecretFree(e[k])
           /\ \A d \in s.decisions : SecretFree(d.detail)
           /\ \A b \in s.blocking : SecretFree(b.reason)
           /\ \A c \in s.issue : SecretFree(c.title) /\ SecretFree(c.status) /\ SecretFree(c.body)
           /\ \A c \in db.context :
                 "secret_part" \notin {c.body[i] : i \in DOMAIN c.body}
                     => \E x \in s.issue :
                           /\ x.identifier = c.identifier
                           /\ "secret_part" \in x.body
                                 <=> ~caps.known /\ \E i \in DOMAIN c.body : i = caps.body + 1 /\ c.body[i] \in Secrets
           /\ \A i \in DOMAIN steps : s.steps[i].agent = steps[i].agent
           /\ \A id \in linked_run(steps) : \A r \in db.runs[id] : r.worktree \in s.worktree
  <1> DEFINE s == build_run_context_snapshot(task, steps, db, caps)
  <1>1. /\ \A t \in s.task.summary \cup s.task.objective : SecretFree(t)
        /\ \A i \in DOMAIN steps : \A t \in s.steps[i].summary \cup s.steps[i].failure : SecretFree(t)
        /\ \A r \in s.run : \A t \in r.error : SecretFree(t)
        /\ \A e \in s.events : \A k \in DOMAIN e : SecretFree(e[k])
    BY RedactCleans, MaskedCleans DEF build_run_context_snapshot
  <1>2. /\ \A d \in s.decisions : SecretFree(d.detail)
        /\ \A b \in s.blocking : SecretFree(b.reason)
    BY DecisionsClean, BlocksClean DEF build_run_context_snapshot
  <1>3. \A c \in s.issue : SecretFree(c.title) /\ SecretFree(c.status) /\ SecretFree(c.body)
    BY RedactCleans DEF build_run_context_snapshot
  <1>4. ASSUME NEW c \in db.context, "secret_part" \notin {c.body[i] : i \in DOMAIN c.body}
        PROVE  \E x \in s.issue :
                  /\ x.identifier = c.identifier
                  /\ "secret_part" \in x.body
                        <=> ~caps.known /\ \E i \in DOMAIN c.body : i = caps.body + 1 /\ c.body[i] \in Secrets
    <2> DEFINE x == [identifier |-> c.identifier, title |-> redact(c.title), status |-> redact(c.status),
                     body |-> redact(truncate_chars(c.body, caps))]
    <2>1. x \in s.issue
      BY DEF build_run_context_snapshot
    <2>2. "secret_part" \in x.body
              <=> ~caps.known /\ \E i \in DOMAIN c.body : i = caps.body + 1 /\ c.body[i] \in Secrets
      BY <1>4, ExcerptOfBody
    <2>3. x.identifier = c.identifier
      OBVIOUS
    <2> HIDE DEF x, s
    <2> QED
      BY <2>1, <2>2, <2>3
  <1>5. /\ \A i \in DOMAIN steps : s.steps[i].agent = steps[i].agent
        /\ \A id \in linked_run(steps) : \A r \in db.runs[id] : r.worktree \in s.worktree
    BY DEF build_run_context_snapshot
  <1> HIDE DEF s
  <1>6. QED
    BY <1>1, <1>2, <1>3, <1>4, <1>5 DEF s

-----------------------------------------------------------------------------
(* Handoffs                                                                *)

\* What the record holds in each status.
Fits(h) ==
    /\ h.session # {} => h.status # "pending"
    /\ h.status \in {"delivered", "accepted", "completed", "failed", "escalated"} => h.session # {} /\ h.delivered
    /\ h.result <=> h.status = "completed"
    /\ h.failure <=> h.status \in {"failed", "escalated"}
    /\ h.attention # {} <=> h.status = "escalated"
    /\ h.ended <=> is_terminal(h.status)

Moves(h, session, request) ==
    mark_delivered(h, session) \cup mark_accepted(h) \cup complete(h) \cup fail(h)
        \cup escalate(h, request) \cup supersede(h)

\* The constructor's record fits.
LEMMA NewHandoffFits ==
    ASSUME NEW Sessions, NEW Requests
    PROVE  new_handoff \in Handoffs(Sessions, Requests) /\ Fits(new_handoff)
  <1>1. Fits(new_handoff)
    BY DEF Fits, new_handoff, is_terminal, Absent
  <1>2. new_handoff \in Handoffs(Sessions, Requests)
    BY DEF new_handoff, Handoffs, HandoffStatus, HandoffEdges, Absent
  <1> QED
    BY <1>1, <1>2

\* handoff.rs: no order of calls leaves a record whose parts do not fit its
\* status: a result only when completed, a reason only when it failed, an
\* attention request only when escalated, an end exactly when it is over.
THEOREM HandoffFits ==
    ASSUME NEW Sessions, NEW Requests, NEW h \in Handoffs(Sessions, Requests), Fits(h),
           NEW session \in Sessions, NEW request \in Requests, NEW g \in Moves(h, session, request)
    PROVE  g \in Handoffs(Sessions, Requests) /\ Fits(g)
  <1>1. HandoffStatus = {"pending", "delivered", "accepted", "completed", "failed", "escalated", "superseded"}
    BY DEF HandoffStatus, HandoffEdges
  <1>2. CASE g \in mark_delivered(h, session)
    <2> DEFINE d == [h EXCEPT !.status = "delivered", !.session = {session}, !.delivered = TRUE]
    <2>1. h.status = "pending" /\ g = d
      BY <1>1, <1>2 DEF mark_delivered, Moved, HandoffEdges, Handoffs
    <2>2. d \in Handoffs(Sessions, Requests)
      BY <1>1 DEF Handoffs
    <2>3. Fits(d)
      BY <1>1, <2>1 DEF Handoffs, Fits, is_terminal
    <2> HIDE DEF d
    <2> QED
      BY <2>1, <2>2, <2>3
  <1>3. CASE g \in mark_accepted(h)
    <2> DEFINE d == [h EXCEPT !.status = "accepted"]
    <2>1. h.status = "delivered" /\ g = d
      BY <1>1, <1>3 DEF mark_accepted, Moved, HandoffEdges, Handoffs
    <2>2. d \in Handoffs(Sessions, Requests)
      BY <1>1 DEF Handoffs
    <2>3. Fits(d)
      BY <1>1, <2>1 DEF Handoffs, Fits, is_terminal
    <2> HIDE DEF d
    <2> QED
      BY <2>1, <2>2, <2>3
  <1>4. CASE g \in complete(h)
    <2> DEFINE d == [h EXCEPT !.status = "completed", !.result = TRUE, !.ended = TRUE]
    <2>1. h.status = "accepted" /\ g = d
      BY <1>1, <1>4 DEF complete, Moved, HandoffEdges, Handoffs
    <2>2. d \in Handoffs(Sessions, Requests)
      BY <1>1 DEF Handoffs
    <2>3. Fits(d)
      BY <1>1, <2>1 DEF Handoffs, Fits, is_terminal
    <2> HIDE DEF d
    <2> QED
      BY <2>1, <2>2, <2>3
  <1>5. CASE g \in fail(h)
    <2> DEFINE d == [h EXCEPT !.status = "failed", !.failure = TRUE, !.ended = TRUE]
    <2>1. h.status \in {"delivered", "accepted"} /\ g = d
      BY <1>1, <1>5 DEF fail, Moved, HandoffEdges, Handoffs
    <2>2. d \in Handoffs(Sessions, Requests)
      BY <1>1 DEF Handoffs
    <2>3. Fits(d)
      BY <1>1, <2>1 DEF Handoffs, Fits, is_terminal
    <2> HIDE DEF d
    <2> QED
      BY <2>1, <2>2, <2>3
  <1>6. CASE g \in escalate(h, request)
    <2> DEFINE d == [h EXCEPT !.status = "escalated", !.failure = TRUE, !.attention = {request}, !.ended = TRUE]
    <2>1. h.status = "failed" /\ g = d
      BY <1>1, <1>6 DEF escalate, Moved, HandoffEdges, Handoffs
    <2>2. d \in Handoffs(Sessions, Requests)
      BY <1>1 DEF Handoffs
    <2>3. Fits(d)
      BY <1>1, <2>1 DEF Handoffs, Fits, is_terminal
    <2> HIDE DEF d
    <2> QED
      BY <2>1, <2>2, <2>3
  <1>7. CASE g \in supersede(h)
    <2> DEFINE d == [h EXCEPT !.status = "superseded", !.ended = TRUE]
    <2>1. h.status \in {"pending", "delivered", "accepted"} /\ g = d
      BY <1>1, <1>7 DEF supersede, Moved, HandoffEdges, Handoffs
    <2>2. d \in Handoffs(Sessions, Requests)
      BY <1>1 DEF Handoffs
    <2>3. Fits(d)
      BY <1>1, <2>1 DEF Handoffs, Fits, is_terminal
    <2> HIDE DEF d
    <2> QED
      BY <2>1, <2>2, <2>3
  <1> QED
    BY <1>2, <1>3, <1>4, <1>5, <1>6, <1>7 DEF Moves

\* is_terminal against the edges: what is completed, escalated or superseded
\* never moves again; what failed is called terminal too, and may still be
\* escalated, which is the one way out of it.
THEOREM FinalIsFinal ==
    ASSUME NEW h, h.status \in HandoffStatus, NEW session, NEW request
    PROVE  /\ Moves(h, session, request) = {} <=> h.status \in {"completed", "escalated", "superseded"}
           /\ h.status = "failed" => Moves(h, session, request) = escalate(h, request)
  <1>1. HandoffStatus = {"pending", "delivered", "accepted", "completed", "failed", "escalated", "superseded"}
    BY DEF HandoffStatus, HandoffEdges
  <1> QED
    BY <1>1 DEF Moves, Moved, mark_delivered, mark_accepted, complete, fail, escalate, supersede, HandoffEdges
=============================================================================
