---------------------------- MODULE IntakeProofs ----------------------------
(***************************************************************************)
(* The launch queue and the overseers, for any runs, relations and polls;  *)
(* then the queue a run or an issue is shown in, for any card.             *)
(***************************************************************************)
EXTENDS Intake, QueueBuckets, SequenceTheorems, TLAPS

LEMMA TypeInit == Init => TypeOK
  <1> SUFFICES ASSUME Init PROVE TypeOK
    OBVIOUS
  <1> QED
    BY DEF Init, QueueInit, OverInit, TypeOK, Row, RunStates, NoRow, NoPoll, PollState, NoTick, NoNews, Kinds, RowOf

\* A write of a whole row leaves the table well formed.
LEMMA SaveType ==
    ASSUME TypeOK, NEW r \in Runs, NEW s \in RunStates, NEW u \in {"fresh", "old"},
           NEW b \in {"null", "fresh", "old"}, Save(r, s, u, b)
    PROVE  rows' \in [Runs -> Row]
  BY DEF TypeOK, Save, Row

LEMMA PollType == ASSUME TypeOK, Poll PROVE TypeOK'
  <1>a. PollNext /\ UNCHANGED <<rows, engine, bus, sched, trail, told, pulses, slips, restarts>>
    BY DEF Poll, overVars
  <1>0. ASSUME NEW q \in Polls
        PROVE  /\ NoPoll \in PollState /\ [NoPoll EXCEPT !.pc = "lock", !.fetched = linear] \in PollState
               /\ [poll[q] EXCEPT !.pc = "persist", !.due = Transitions(q)] \in PollState
               /\ [poll[q] EXCEPT !.pc = "emit"] \in PollState
    <2>1. /\ poll[q] \in PollState /\ Transitions(q) \in SUBSET Pairs
          /\ linear \in [Pairs -> {"open", "closed", "gone"}]
      BY DEF Transitions, TypeOK
    <2> QED
      BY <2>1 DEF PollState, NoPoll
  <1>1. ASSUME NEW p \in Pairs, LinearMoves(p) PROVE TypeOK'
    BY <1>a, <1>1 DEF LinearMoves, Visit, TypeOK
  <1>2. ASSUME NEW q \in Polls, Fetch(q) PROVE TypeOK'
    <2>1. poll' = [poll EXCEPT ![q] = [NoPoll EXCEPT !.pc = "lock", !.fetched = linear]]
      BY <1>2 DEF Fetch
    <2>2. poll' \in [Polls -> PollState]
      BY <1>0, <2>1 DEF TypeOK
    <2> QED
      BY <1>a, <1>2, <2>2 DEF Fetch, Visit, TypeOK
  <1>3. ASSUME NEW q \in Polls, Diff(q) PROVE TypeOK'
    <2>1. poll' = [poll EXCEPT ![q] = [poll[q] EXCEPT !.pc = "persist", !.due = Transitions(q)]]
      BY <1>3 DEF Diff
    <2>2. poll' \in [Polls -> PollState]
      BY <1>0, <2>1 DEF TypeOK
    <2> QED
      BY <1>a, <1>3, <2>2 DEF Diff, Calm, TypeOK
  <1>4. ASSUME NEW q \in Polls, Persist(q) PROVE TypeOK'
    <2>1. snapshot' \in [Pairs -> {"none", "open", "closed"}]
      <3>1. \A p \in Pairs : poll[q].fetched[p] \in {"open", "closed", "gone"}
        BY DEF PollState, TypeOK
      <3> QED
        BY <1>4, <3>1 DEF Persist, RowOf
    <2>2. opened' \in [Pairs -> Nat]
      BY <1>4 DEF Persist, TypeOK
    <2>3. poll' = [poll EXCEPT ![q] = [poll[q] EXCEPT !.pc = "emit"]]
      BY <1>4 DEF Persist
    <2>4. poll' \in [Polls -> PollState]
      BY <1>0, <2>3 DEF TypeOK
    <2> QED
      BY <1>a, <1>4, <2>1, <2>2, <2>4 DEF Persist, Calm, TypeOK
  <1>5. ASSUME NEW q \in Polls, PersistFails(q) PROVE TypeOK'
    <2>1. poll' \in [Polls -> PollState]
      BY <1>0, <1>5 DEF PersistFails, TypeOK
    <2> QED
      BY <1>a, <1>5, <2>1 DEF PersistFails, Mishap, TypeOK
  <1>6. ASSUME NEW q \in Polls, Emit(q) PROVE TypeOK'
    <2>1. announced' \in [Pairs -> Nat]
      BY <1>6 DEF Emit, TypeOK
    <2>2. poll' \in [Polls -> PollState]
      BY <1>0, <1>6 DEF Emit, TypeOK
    <2> QED
      BY <1>a, <1>6, <2>1, <2>2 DEF Emit, Calm, TypeOK
  <1> QED
    BY <1>a, <1>1, <1>2, <1>3, <1>4, <1>5, <1>6 DEF PollNext

LEMMA RequestType == ASSUME TypeOK, Request PROVE TypeOK'
  BY DEF TypeOK, Request, Admit, Visit, relations, overVars

LEMMA SpawnType == ASSUME TypeOK, NEW r \in Runs, SpawnRun(r) PROVE TypeOK'
  <1>1. rows' \in [Runs -> Row]
    BY SaveType DEF SpawnRun, Insert, RunStates
  <1> QED
    BY <1>1 DEF TypeOK, SpawnRun, Insert, Calm, relations, audit

LEMMA EngineType ==
    ASSUME TypeOK, NEW r \in Runs, EngineMoves(r) \/ EngineSaves(r) \/ ServiceMoves(r) \/ Silence(r),
           UNCHANGED <<queueVars, restarts>>
    PROVE  TypeOK'
  <1>0. rows[r] \in Row
    BY DEF TypeOK
  <1>1. rows' \in [Runs -> Row]
    <2>1. CASE EngineMoves(r)
      BY <2>1, SaveType DEF EngineMoves, RunStates
    <2>2. CASE EngineSaves(r)
      BY <1>0, <2>2, SaveType DEF EngineSaves, RunStates, Row
    <2>3. CASE ServiceMoves(r)
      BY <1>0, <2>3, SaveType DEF ServiceMoves, RunStates, Row
    <2>4. CASE Silence(r)
      BY <1>0, <2>4, SaveType DEF Silence, Row, Grow
    <2> QED
      BY <2>1, <2>2, <2>3, <2>4
  <1>2. engine' \subseteq Runs
    BY DEF TypeOK, EngineMoves, EngineSaves, ServiceMoves, Silence
  <1>3. pulses' \in Nat /\ slips' \in Nat /\ UNCHANGED <<bus, audit>>
    BY DEF TypeOK, EngineMoves, EngineSaves, ServiceMoves, Silence, Pulse, Quiet
  <1> QED
    BY <1>1, <1>2, <1>3 DEF TypeOK, audit, queueVars

LEMMA BusType ==
    ASSUME TypeOK, (\E r \in Runs : SessionEvent(r)) \/ Listener, UNCHANGED <<queueVars, restarts>>
    PROVE  TypeOK'
  <1>1. CASE \E r \in Runs : SessionEvent(r)
    <2> PICK r \in Runs : SessionEvent(r)
      BY <1>1
    <2>1. bus' \in Seq(Runs)
      <3>1. CASE Len(bus) = BusCapacity
        <4>1. bus # <<>>
          BY <3>1, PulseAssumption DEF TypeOK
        <4>2. Tail(bus) \in Seq(Runs)
          BY <4>1 DEF TypeOK
        <4> QED
          BY <3>1, <4>2 DEF SessionEvent
      <3>2. CASE Len(bus) # BusCapacity
        BY <3>2 DEF SessionEvent, TypeOK
      <3> QED
        BY <3>1, <3>2
    <2> QED
      BY <2>1 DEF TypeOK, SessionEvent, Pulse, audit, queueVars
  <1>2. CASE Listener
    <2>1. Head(bus) \in Runs /\ bus' \in Seq(Runs)
      <3>1. bus \in Seq(Runs) /\ bus # <<>> /\ bus' = Tail(bus)
        BY <1>2 DEF Listener, Listen, ListenFails, TypeOK
      <3> QED
        BY <3>1, HeadTailProperties
    <2>2. rows' \in [Runs -> Row]
      <3>1. rows[Head(bus)] \in Row
        BY <2>1 DEF TypeOK
      <3>2. CASE Listen
        <4>1. CASE Active(Head(bus))
          <5>1. Save(Head(bus), rows[Head(bus)].state, rows[Head(bus)].updated, "fresh")
            BY <3>2, <4>1 DEF Listen, Stamp
          <5>2. rows[Head(bus)].state \in RunStates /\ rows[Head(bus)].updated \in {"fresh", "old"}
            BY <3>1 DEF Row
          <5> QED
            BY <2>1, <5>1, <5>2, SaveType
        <4>2. CASE ~Active(Head(bus))
          BY <3>2, <4>2 DEF Listen, Stamp, TypeOK
        <4> QED
          BY <4>1, <4>2
      <3> QED
        BY <1>2, <3>2 DEF Listener, ListenFails, TypeOK
    <2>3. /\ UNCHANGED <<engine, audit>> /\ pulses' \in Nat /\ slips' \in Nat
      BY <1>2 DEF TypeOK, Listener, Listen, ListenFails, Quiet, Slip
    <2> QED
      BY <2>1, <2>2, <2>3 DEF TypeOK, audit, queueVars
  <1> QED
    BY <1>1, <1>2

LEMMA SchedType ==
    ASSUME TypeOK, Scheduler \/ (\E r \in Runs : VisitFails(r)), UNCHANGED <<queueVars, restarts>>
    PROVE  TypeOK'
  <1> DEFINE Tickings == [pc : {"idle", "scan", "publish"}, left : SUBSET Runs, silent : SUBSET Runs,
                          news : News \cup {NoNews}]
  <1>0. sched \in Tickings
    BY DEF TypeOK
  <1>1. ASSUME NEW left \in SUBSET Runs, Pass(left) PROVE sched' \in Tickings
    BY <1>0, <1>1 DEF Pass, NoTick
  <1>2. CASE Tick
    <2>1. sched' \in Tickings
      BY <1>2 DEF Tick, Silent
    <2> QED
      BY <1>2, <2>1 DEF Tick, TypeOK, Quiet, queueVars
  <1>3. CASE Publish
    <2>1. sched' \in Tickings
      BY <1>0, <1>1, <1>3 DEF Publish
    <2>2. told' \in [Runs -> Seq(Kinds)]
      <3> DEFINE n == sched.news
      <3>1. CASE n \in News
        BY <1>3, <3>1 DEF Publish, TypeOK, News
      <3>2. CASE n = NoNews
        <4>1. n.run \notin Runs
          BY <3>2, RunAssumption DEF NoNews
        <4>2. told' = [r \in Runs |-> told[r]]
          BY <1>3, <4>1 DEF Publish, TypeOK
        <4> QED
          BY <4>2 DEF TypeOK
      <3> QED
        BY <1>0, <3>1, <3>2
    <2> QED
      BY <1>3, <2>1, <2>2 DEF Publish, TypeOK, Quiet, queueVars
  <1>4. CASE \E r \in Runs : Skip(r) \/ VisitFails(r)
    <2> PICK r \in Runs : Skip(r) \/ VisitFails(r)
      BY <1>4
    <2>1. sched.left \ {r} \in SUBSET Runs /\ Pass(sched.left \ {r})
      BY <1>0 DEF Skip, VisitFails
    <2>2. sched' \in Tickings
      BY <1>1, <2>1
    <2>3. /\ UNCHANGED <<rows, engine, bus, trail, told>> /\ pulses' \in Nat /\ slips' \in Nat
      BY DEF Skip, VisitFails, Quiet, Slip, TypeOK
    <2> QED
      BY <2>2, <2>3 DEF TypeOK, queueVars
  <1>5. CASE \E r \in Runs : Report(r)
    <2> PICK r \in Runs : Report(r)
      BY <1>5
    <2> PICK k \in Decide(r) :
               /\ trail' = [trail EXCEPT ![r] = Append(@, k)]
               /\ sched' = [sched EXCEPT !.pc = "publish", !.left = @ \ {r}, !.news = [run |-> r, kind |-> k]]
      BY DEF Report
    <2>1. k \in Kinds
      BY DEF Decide, Kinds
    <2>2. sched' \in Tickings
      BY <1>0, <2>1 DEF News
    <2>3. trail' \in [Runs -> Seq(Kinds)]
      BY <2>1 DEF TypeOK
    <2> QED
      BY <2>2, <2>3 DEF Report, TypeOK, Quiet, queueVars
  <1> QED
    BY <1>2, <1>3, <1>4, <1>5 DEF Scheduler

LEMMA RestartType == ASSUME TypeOK, Restart PROVE TypeOK'
  <1>1. poll' \in [Polls -> PollState]
    BY DEF Restart, QueueCrash, NoPoll, PollState
  <1>2. sched' = NoTick /\ NoTick \in [pc : {"idle", "scan", "publish"}, left : SUBSET Runs,
                                       silent : SUBSET Runs, news : News \cup {NoNews}]
    BY DEF Restart, OverCrash, NoTick
  <1> QED
    BY <1>1, <1>2 DEF TypeOK, Restart, QueueCrash, OverCrash

LEMMA TypeStep == TypeOK /\ [Next]_vars => TypeOK'
  <1> SUFFICES ASSUME TypeOK, [Next]_vars PROVE TypeOK'
    OBVIOUS
  <1>1. CASE Poll
    BY <1>1, PollType
  <1>2. CASE Request
    BY <1>2, RequestType
  <1>3. CASE \E r \in Runs : SpawnRun(r)
    BY <1>3, SpawnType
  <1>4. CASE Oversee
    BY <1>4, EngineType, BusType, SchedType DEF Oversee, OverNext
  <1>5. CASE Restart
    BY <1>5, RestartType
  <1>6. CASE UNCHANGED vars
    BY <1>6 DEF vars, queueVars, overVars, TypeOK
  <1> QED
    BY <1>1, <1>2, <1>3, <1>4, <1>5, <1>6 DEF Next

\* Every row, request, event and counter keeps a value of its type, however
\* many runs, relations and polls there are.
THEOREM TypeCorrect == Spec => []TypeOK
  BY TypeInit, TypeStep, PTL DEF Spec

-----------------------------------------------------------------------------
\* A relation about to be announced, or still open in the snapshot, is owed one
\* announcement at most.
Owed(p) ==
    IF snapshot[p] = "open" \/ (\E q \in Polls : poll[q].pc = "emit" /\ p \in poll[q].due) THEN 1 ELSE 0

Reconciling(q) == poll[q].pc \in {"persist", "emit"}

\* What is read under the lock stays true until it is announced.
LockedPolls == \A q \in Polls : Reconciling(q) => lock = q
DueTrue ==
    \A q \in Polls : \A p \in poll[q].due :
        /\ Reconciling(q)
        /\ poll[q].pc = "persist" => snapshot[p] = "open" /\ poll[q].fetched[p] = "closed"
        /\ poll[q].pc = "emit" => snapshot[p] = "closed"
Accounted == \A p \in Pairs : announced[p] + Owed(p) <= opened[p]

QueueInv == LockedPolls /\ DueTrue /\ Accounted

LEMMA QueueInvInit == Init => QueueInv
  <1> SUFFICES ASSUME Init PROVE QueueInv
    OBVIOUS
  <1>1. \A q \in Polls : poll[q] = NoPoll
    BY DEF Init, QueueInit
  <1>2. \A p \in Pairs : opened[p] = (IF snapshot[p] = "open" THEN 1 ELSE 0) /\ announced[p] = 0
    BY DEF Init, QueueInit
  <1> QED
    BY <1>1, <1>2 DEF QueueInv, LockedPolls, DueTrue, Accounted, Owed, Reconciling, NoPoll

\* One request's step that leaves the relations' counters and the snapshot alone.
LEMMA PollAlone ==
    ASSUME TypeOK, QueueInv, NEW q \in Polls, NEW s \in PollState,
           poll' = [poll EXCEPT ![q] = s], s.pc # "emit", poll[q].pc # "emit",
           UNCHANGED <<snapshot, opened, announced>>
    PROVE  Accounted'
  <1>1. \A p \in Pairs : Owed(p)' = Owed(p)
    BY DEF Owed, TypeOK
  <1> QED
    BY <1>1 DEF QueueInv, Accounted

LEMMA QueueInvPoll == ASSUME TypeOK, QueueInv, PollNext PROVE QueueInv'
  <1> USE DEF QueueInv
  <1>0. /\ poll \in [Polls -> PollState] /\ snapshot \in [Pairs -> {"none", "open", "closed"}]
        /\ opened \in [Pairs -> Nat] /\ announced \in [Pairs -> Nat]
        /\ linear \in [Pairs -> {"open", "closed", "gone"}]
    BY DEF TypeOK
  <1>1. ASSUME NEW p \in Pairs, LinearMoves(p) PROVE QueueInv'
    BY <1>1 DEF LinearMoves, LockedPolls, DueTrue, Accounted, Owed, Reconciling
  <1>2. ASSUME NEW q \in Polls, Fetch(q) PROVE QueueInv'
    <2> DEFINE s == [NoPoll EXCEPT !.pc = "lock", !.fetched = linear]
    <2>1. poll' = [poll EXCEPT ![q] = s] /\ s.pc = "lock" /\ s.due = {} /\ poll[q].pc = "idle"
      BY <1>2 DEF Fetch, NoPoll
    <2>2. UNCHANGED <<snapshot, lock, opened, announced>>
      BY <1>2 DEF Fetch
    <2>3. s \in PollState
      BY <1>0 DEF NoPoll, PollState
    <2>4. Accounted'
      BY <2>1, <2>2, <2>3, PollAlone
    <2> HIDE DEF s
    <2>5. LockedPolls' /\ DueTrue'
      BY <1>0, <2>1, <2>2 DEF LockedPolls, DueTrue, Reconciling
    <2> QED
      BY <2>4, <2>5
  <1>3. ASSUME NEW q \in Polls, Diff(q) PROVE QueueInv'
    <2> DEFINE s == [poll[q] EXCEPT !.pc = "persist", !.due = Transitions(q)]
    <2>1. poll' = [poll EXCEPT ![q] = s] /\ poll[q].pc = "lock"
      BY <1>3 DEF Diff
    <2>2. /\ s \in PollState /\ s.pc = "persist" /\ s.due = Transitions(q)
          /\ s.fetched = poll[q].fetched
      BY <1>0 DEF PollState, Transitions
    <2>3. UNCHANGED <<snapshot, opened, announced>> /\ lock = "free" /\ lock' = q
      BY <1>3 DEF Diff
    <2>4. Accounted'
      BY <2>1, <2>2, <2>3, PollAlone
    <2> HIDE DEF s
    <2>5. \A x \in Polls : ~Reconciling(x) /\ poll[x].due = {}
      BY <1>0, <2>3, FreeAssumption DEF LockedPolls, DueTrue
    <2>6. LockedPolls' /\ DueTrue'
      BY <1>0, <2>1, <2>2, <2>3, <2>5 DEF LockedPolls, DueTrue, Reconciling, Transitions
    <2> QED
      BY <2>4, <2>6
  <1>4. ASSUME NEW q \in Polls, Persist(q) PROVE QueueInv'
    <2> DEFINE s == [poll[q] EXCEPT !.pc = "emit"]
    <2>1. poll' = [poll EXCEPT ![q] = s] /\ UNCHANGED <<lock, announced>> /\ poll[q].pc = "persist"
      BY <1>4 DEF Persist
    <2>2. s.pc = "emit" /\ s.due = poll[q].due /\ poll[q].fetched \in [Pairs -> {"open", "closed", "gone"}]
      BY <1>0 DEF PollState
    <2>3. /\ snapshot' = [p \in Pairs |-> RowOf(poll[q].fetched[p])]
          /\ opened' = [p \in Pairs |-> opened[p] + IF snapshot'[p] = "open" /\ snapshot[p] # "open" THEN 1 ELSE 0]
      BY <1>4 DEF Persist
    <2> HIDE DEF s
    <2>4. lock = q /\ \A x \in Polls \ {q} : ~Reconciling(x) /\ poll[x].due = {}
      BY <1>0, <2>1 DEF LockedPolls, DueTrue, Reconciling
    <2>5. poll[q].due \subseteq Pairs
      BY <1>0 DEF PollState
    <2>6. \A p \in poll[q].due : snapshot[p] = "open" /\ snapshot'[p] = "closed"
      BY <2>1, <2>3, <2>5 DEF DueTrue, RowOf
    <2>7. LockedPolls' /\ DueTrue'
      BY <1>0, <2>1, <2>2, <2>4, <2>6 DEF LockedPolls, DueTrue, Reconciling
    <2>8. ASSUME NEW p \in Pairs PROVE announced'[p] + Owed(p)' <= opened'[p]
      <3>1. announced[p] \in Nat /\ opened[p] \in Nat /\ announced[p] + Owed(p) <= opened[p]
        BY <1>0 DEF Accounted
      <3>2. opened'[p] = opened[p] + IF snapshot'[p] = "open" /\ snapshot[p] # "open" THEN 1 ELSE 0
        BY <2>3
      <3>3. CASE p \in poll[q].due
        <4>1. Owed(p) = 1
          BY <2>6, <3>3 DEF Owed
        <4>2. Owed(p)' \in {0, 1}
          BY DEF Owed
        <4> QED
          BY <2>1, <3>1, <3>2, <4>1, <4>2
      <3>4. CASE p \notin poll[q].due
        <4>1. Owed(p)' = IF snapshot'[p] = "open" THEN 1 ELSE 0
          BY <1>0, <2>1, <2>2, <2>4, <3>4 DEF Owed
        <4>2. Owed(p) \in {0, 1} /\ (snapshot[p] = "open" => Owed(p) = 1)
          BY DEF Owed
        <4> QED
          BY <2>1, <3>1, <3>2, <4>1, <4>2
      <3> QED
        BY <3>3, <3>4
    <2> QED
      BY <2>7, <2>8 DEF Accounted
  <1>5. ASSUME NEW q \in Polls, PersistFails(q) PROVE QueueInv'
    <2>1. poll' = [poll EXCEPT ![q] = NoPoll] /\ poll[q].pc = "persist" /\ NoPoll \in PollState
      BY <1>5 DEF PersistFails, NoPoll, PollState
    <2>2. UNCHANGED <<snapshot, opened, announced>>
      BY <1>5 DEF PersistFails
    <2>3. Accounted'
      BY <2>1, <2>2, PollAlone DEF NoPoll
    <2>4. \A x \in Polls \ {q} : ~Reconciling(x)
      BY <2>1 DEF LockedPolls, Reconciling
    <2>5. LockedPolls' /\ DueTrue'
      BY <1>0, <2>1, <2>2, <2>4 DEF LockedPolls, DueTrue, Reconciling, NoPoll
    <2> QED
      BY <2>3, <2>5
  <1>6. ASSUME NEW q \in Polls, Emit(q) PROVE QueueInv'
    <2>1. /\ poll' = [poll EXCEPT ![q] = NoPoll] /\ poll[q].pc = "emit" /\ UNCHANGED <<snapshot, opened>>
          /\ announced' = [p \in Pairs |-> announced[p] + IF p \in poll[q].due THEN 1 ELSE 0]
      BY <1>6 DEF Emit
    <2>2. \A x \in Polls \ {q} : ~Reconciling(x) /\ poll[x].due = {}
      BY <2>1 DEF LockedPolls, DueTrue, Reconciling
    <2>3. LockedPolls' /\ DueTrue'
      BY <1>0, <2>1, <2>2 DEF LockedPolls, DueTrue, Reconciling, NoPoll
    <2>4. ASSUME NEW p \in Pairs PROVE announced'[p] + Owed(p)' <= opened'[p]
      <3>1. announced[p] \in Nat /\ opened[p] \in Nat /\ announced[p] + Owed(p) <= opened[p]
        BY <1>0 DEF Accounted
      <3>2. Owed(p)' = IF snapshot[p] = "open" THEN 1 ELSE 0
        BY <1>0, <2>1, <2>2 DEF Owed, Reconciling, NoPoll
      <3>3. CASE p \in poll[q].due
        BY <2>1, <3>1, <3>2, <3>3 DEF Owed, DueTrue
      <3>4. CASE p \notin poll[q].due
        BY <2>1, <3>1, <3>2, <3>4 DEF Owed
      <3> QED
        BY <3>3, <3>4
    <2> QED
      BY <2>3, <2>4 DEF Accounted
  <1> QED
    BY <1>1, <1>2, <1>3, <1>4, <1>5, <1>6 DEF PollNext

LEMMA QueueInvStep == TypeOK /\ QueueInv /\ [Next]_vars => QueueInv'
  <1> SUFFICES ASSUME TypeOK, QueueInv, [Next]_vars PROVE QueueInv'
    OBVIOUS
  <1>1. CASE Poll
    BY <1>1, QueueInvPoll DEF Poll
  <1>2. CASE Request \/ (\E r \in Runs : SpawnRun(r)) \/ Oversee \/ UNCHANGED vars
    <2>1. UNCHANGED <<snapshot, lock, poll, opened, announced>>
      BY <1>2 DEF Request, Admit, SpawnRun, Insert, Oversee, relations, queueVars, vars
    <2> QED
      BY <2>1 DEF QueueInv, LockedPolls, DueTrue, Accounted, Owed, Reconciling
  <1>3. CASE Restart
    <2>1. UNCHANGED <<snapshot, opened, announced>> /\ \A q \in Polls : poll'[q] = NoPoll
      BY <1>3 DEF Restart, QueueCrash
    <2>2. \A p \in Pairs : Owed(p)' \in Nat /\ Owed(p) \in Nat /\ Owed(p)' <= Owed(p)
      BY <2>1 DEF Owed, NoPoll
    <2>3. Accounted'
      BY <2>1, <2>2 DEF Accounted, QueueInv, TypeOK
    <2> QED
      BY <2>1, <2>3 DEF QueueInv, LockedPolls, DueTrue, Reconciling, NoPoll
  <1> QED
    BY <1>1, <1>2, <1>3 DEF Next

\* However many polls race and whatever Linear says to each of them, a relation
\* is announced as resolved at most once for each time it was recorded as open.
THEOREM AnnouncedOnceHolds == Spec => []AnnouncedOnce
  <1>1. TypeOK /\ QueueInv => AnnouncedOnce
    <2> SUFFICES ASSUME TypeOK, QueueInv, NEW p \in Pairs PROVE announced[p] <= opened[p]
      BY DEF AnnouncedOnce
    <2>1. announced[p] \in Nat /\ opened[p] \in Nat /\ Owed(p) \in {0, 1}
      BY DEF TypeOK, Owed
    <2> QED
      BY <2>1 DEF QueueInv, Accounted
  <1> QED
    BY <1>1, TypeInit, TypeStep, QueueInvInit, QueueInvStep, PTL DEF Spec

\* What a poll announces is what the table says when it does so.
THEOREM AnnouncedOnRecordHolds == Spec => AnnouncedOnRecord
  <1>1. TypeOK /\ QueueInv /\ [Next]_vars =>
            [\A p \in Pairs : announced'[p] # announced[p] => snapshot[p] = "closed"]_vars
    <2> SUFFICES ASSUME TypeOK, QueueInv, Next, NEW p \in Pairs, announced'[p] # announced[p]
                 PROVE  snapshot[p] = "closed"
      OBVIOUS
    <2>1. PollNext
      BY DEF Next, Poll, Request, Admit, SpawnRun, Insert, Oversee, Restart, QueueCrash, relations, queueVars
    <2>2. PICK q \in Polls : Emit(q)
      BY <2>1 DEF PollNext, LinearMoves, Fetch, Diff, Persist, PersistFails
    <2>3. p \in poll[q].due /\ poll[q].pc = "emit"
      BY <2>2 DEF Emit, TypeOK
    <2> QED
      BY <2>3 DEF QueueInv, DueTrue
  <1> QED
    BY <1>1, TypeInit, TypeStep, QueueInvInit, QueueInvStep, PTL DEF Spec, AnnouncedOnRecord

-----------------------------------------------------------------------------
\* Between two rows the tick carries no news; one it carries is of a run.
NewsCarried ==
    /\ sched.pc = "publish" => sched.news \in News
    /\ sched.pc # "publish" => sched.news = NoNews

TrailInv == NewsCarried /\ TrailAlternates

LEMMA TrailInvInit == Init => TrailInv
  BY RunAssumption DEF Init, OverInit, NoTick, NoNews, TrailInv, NewsCarried, TrailAlternates

LEMMA Parity == ASSUME NEW n \in Nat PROVE n % 2 \in {0, 1} /\ ((n + 1) % 2 = 1 <=> n % 2 # 1)
  OBVIOUS

LEMMA TrailInvReport ==
    ASSUME TypeOK, TrailInv, NEW r \in Runs, Report(r), restarts' = restarts
    PROVE  TrailInv'
  <1> PICK k \in Decide(r) :
             /\ trail' = [trail EXCEPT ![r] = Append(@, k)]
             /\ sched' = [sched EXCEPT !.pc = "publish", !.left = @ \ {r}, !.news = [run |-> r, kind |-> k]]
    BY DEF Report
  <1>1. k \in Kinds /\ trail[r] \in Seq(Kinds) /\ told' = told
    BY DEF Decide, Kinds, TypeOK, Report
  <1>2. sched'.pc = "publish" /\ sched'.news = [run |-> r, kind |-> k]
    BY DEF TypeOK
  <1>3. sched.news = NoNews
    BY DEF Report, Visits, TrailInv, NewsCarried
  <1> DEFINE n == Len(trail[r])
  <1>4. n \in Nat /\ n % 2 \in {0, 1} /\ ((n + 1) % 2 = 1 <=> n % 2 # 1)
    <2>1. n \in Nat
      BY <1>1
    <2> QED
      BY <2>1, Parity
  <1>5. trail[r] # <<>> => n \in 1 .. n /\ trail[r][n] = IF n % 2 = 1 THEN "stalled" ELSE "recovered"
    <2> SUFFICES ASSUME trail[r] # <<>>
                 PROVE  n \in 1 .. n /\ trail[r][n] = IF n % 2 = 1 THEN "stalled" ELSE "recovered"
      OBVIOUS
    <2>1. n # 0
      BY <1>1, EmptySeq
    <2>2. n \in 1 .. n
      BY <1>4, <2>1
    <2> QED
      BY <2>2 DEF TrailInv, TrailAlternates
  <1>6. k = IF (n + 1) % 2 = 1 THEN "stalled" ELSE "recovered"
    <2>1. CASE trail[r] = <<>>
      <3>1. n = 0 /\ (n + 1) % 2 = 1
        BY <2>1
      <3>2. Latest(r) = "none"
        BY <2>1 DEF Latest
      <3> QED
        BY <3>1, <3>2 DEF Decide
    <2>2. CASE trail[r] # <<>>
      BY <1>4, <1>5, <2>2 DEF Decide, Latest
    <2> QED
      BY <2>1, <2>2
  <1>7. trail'[r] = Append(trail[r], k) /\ \A q \in Runs \ {r} : trail'[q] = trail[q]
    BY DEF TypeOK
  <1>8. \A q \in Runs : \A i \in 1 .. Len(trail'[q]) :
            trail'[q][i] = IF i % 2 = 1 THEN "stalled" ELSE "recovered"
    <2> SUFFICES ASSUME NEW q \in Runs, NEW i \in 1 .. Len(trail'[q])
                 PROVE  trail'[q][i] = IF i % 2 = 1 THEN "stalled" ELSE "recovered"
      OBVIOUS
    <2>1. CASE q # r
      BY <1>7, <2>1 DEF TrailInv, TrailAlternates
    <2>2. CASE q = r
      <3>1. i \in 1 .. n + 1 /\ trail'[q][i] = IF i = n + 1 THEN k ELSE trail[r][i]
        BY <1>1, <1>7, <2>2
      <3>2. CASE i = n + 1
        BY <1>6, <3>1, <3>2
      <3>3. CASE i # n + 1
        <4>1. i \in 1 .. Len(trail[r])
          BY <1>4, <3>1, <3>3
        <4> QED
          BY <3>1, <3>3, <4>1 DEF TrailInv, TrailAlternates
      <3> QED
        BY <3>2, <3>3
    <2> QED
      BY <2>1, <2>2
  <1>9. restarts = 0 => \A q \in Runs :
            trail'[q] = IF sched'.news.run = q THEN Append(told'[q], sched'.news.kind) ELSE told'[q]
    <2> SUFFICES ASSUME restarts = 0, NEW q \in Runs
                 PROVE  trail'[q] = IF sched'.news.run = q THEN Append(told'[q], sched'.news.kind) ELSE told'[q]
      OBVIOUS
    <2>1. trail[q] = told[q]
      BY <1>3, RunAssumption DEF TrailInv, TrailAlternates, NoNews
    <2>2. sched'.news.run = r /\ sched'.news.kind = k
      BY <1>2
    <2> QED
      BY <1>1, <1>7, <2>1, <2>2
  <1>10. NewsCarried'
    BY <1>1, <1>2 DEF NewsCarried, News
  <1> QED
    BY <1>8, <1>9, <1>10 DEF TrailInv, TrailAlternates

LEMMA TrailInvPublish ==
    ASSUME TypeOK, TrailInv, Publish, restarts' = restarts
    PROVE  TrailInv'
  <1>1. /\ sched.news \in News /\ trail' = trail
        /\ told' = [told EXCEPT ![sched.news.run] = Append(@, sched.news.kind)]
    BY DEF Publish, TrailInv, NewsCarried
  <1>2. sched'.pc # "publish" /\ sched'.news = NoNews
    BY DEF Publish, Pass, NoTick, TypeOK
  <1>3. \A r \in Runs :
            told'[r] = IF sched.news.run = r THEN Append(told[r], sched.news.kind) ELSE told[r]
    BY <1>1 DEF TypeOK
  <1>4. \A r \in Runs : sched'.news.run # r
    BY <1>2, RunAssumption DEF NoNews
  <1> QED
    BY <1>1, <1>2, <1>3, <1>4 DEF TrailInv, NewsCarried, TrailAlternates

LEMMA TrailInvStep == TypeOK /\ TrailInv /\ [Next]_vars => TrailInv'
  <1> SUFFICES ASSUME TypeOK, TrailInv, [Next]_vars PROVE TrailInv'
    OBVIOUS
  <1>0. ASSUME UNCHANGED <<sched, trail, told, restarts>> PROVE TrailInv'
    BY <1>0 DEF TrailInv, NewsCarried, TrailAlternates
  <1>1. ASSUME UNCHANGED <<trail, told>>, sched.news = NoNews, sched'.news = NoNews,
               sched'.pc # "publish", restarts' = restarts
        PROVE  TrailInv'
    BY <1>1, RunAssumption DEF TrailInv, NewsCarried, TrailAlternates, NoNews
  <1>2. CASE Poll \/ Request \/ (\E r \in Runs : SpawnRun(r)) \/ UNCHANGED vars
    BY <1>0, <1>2 DEF Poll, Request, SpawnRun, overVars, audit, vars
  <1>3. CASE Oversee
    <2>0. restarts' = restarts
      BY <1>3 DEF Oversee
    <2>1. CASE Listener \/ \E r \in Runs : \/ EngineMoves(r) \/ EngineSaves(r) \/ ServiceMoves(r)
                                           \/ SessionEvent(r) \/ Silence(r)
      BY <1>0, <2>0, <2>1 DEF Listener, Listen, ListenFails, EngineMoves, EngineSaves, ServiceMoves,
                              SessionEvent, Silence, audit
    <2>2. CASE Tick
      BY <1>1, <2>0, <2>2 DEF Tick, TrailInv, NewsCarried
    <2>3. CASE Publish
      BY <2>0, <2>3, TrailInvPublish
    <2>4. CASE \E r \in Runs : Skip(r) \/ VisitFails(r)
      <3>1. sched.pc = "scan" /\ UNCHANGED <<trail, told>> /\ \E left \in SUBSET Runs : Pass(left)
        BY <2>4 DEF Skip, VisitFails, Visits, TypeOK
      <3>2. sched'.pc # "publish" /\ sched'.news = NoNews
        BY <3>1 DEF Pass, NoTick, TypeOK
      <3> QED
        BY <1>1, <2>0, <3>1, <3>2 DEF TrailInv, NewsCarried
    <2>5. CASE \E r \in Runs : Report(r)
      BY <2>0, <2>5, TrailInvReport
    <2> QED
      BY <1>3, <2>1, <2>2, <2>3, <2>4, <2>5 DEF Oversee, OverNext, Scheduler
  <1>4. CASE Restart
    <2>1. UNCHANGED <<trail, told>> /\ sched' = NoTick /\ restarts' # 0
      BY <1>4 DEF Restart, OverCrash, TypeOK
    <2> QED
      BY <2>1 DEF TrailInv, NewsCarried, TrailAlternates, NoTick
  <1> QED
    BY <1>2, <1>3, <1>4 DEF Next

\* Stalls and recoveries of every run alternate on record, however long it is
\* watched and whichever queries fail; the bus tells the same, but for a restart.
THEOREM TrailAlternatesHolds == Spec => []TrailAlternates
  <1>1. TrailInv => TrailAlternates
    BY DEF TrailInv
  <1> QED
    BY <1>1, TypeInit, TypeStep, TrailInvInit, TrailInvStep, PTL DEF Spec
-----------------------------------------------------------------------------
(* QueueBuckets: the columns a run and an issue are shown in               *)

\* "The precedence mirrors classify so the reason string always describes the
\* same signal the bucket was picked on": so it does for every run that is
\* neither completed nor cancelled.
THEOREM ReasonFitsQueue ==
    ASSUME NEW Issues, NEW r \in RunCards(Issues), r.state \notin {"completed", "cancelled"}
    PROVE  OperatorQueue(r) = QueueOfReason[CardReason(r)]
  <1>1. r.state \in RunState
    BY DEF RunCards
  <1> QED
    BY <1>1 DEF OperatorQueue, CardReason, QueueOfReason, RunState

\* A completed run sits in the done column whatever else it has open, and its
\* card says that it completed only if there is nothing else to say: a question
\* never answered, a handoff or a pull request is named instead.
THEOREM DoneCardNamesWhatIsOpen ==
    ASSUME NEW Issues, NEW r \in RunCards(Issues), r.state = "completed"
    PROVE  /\ OperatorQueue(r) = "done"
           /\ CardReason(r) = "state" <=> ~(r.attention \/ r.interrupt \/ r.handoff \/ r.openPr)
  <1>1. /\ r.attention \in BOOLEAN /\ r.interrupt \in BOOLEAN
        /\ r.handoff \in BOOLEAN /\ r.openPr \in BOOLEAN
    BY DEF RunCards
  <1> QED
    BY <1>1 DEF OperatorQueue, CardReason

-----------------------------------------------------------------------------
\* The horizon of the queues cuts no active run off, and each active run has
\* a queue of its own: an operator sees everything that is in flight.
THEOREM ActiveRunsAreSeen ==
    ASSUME NEW Issues, NEW runs \in SUBSET RunCards(Issues), NEW newest \in SUBSET runs,
           NEW r \in runs, ActiveRun(r)
    PROVE  /\ r \in Trimmed(runs, newest)
           /\ LaunchOfRun(OperatorQueue(r)) \in {"active", "in-pr", "needs-human", "blocked"}
  <1>1. r.state \in {"queued", "working", "waiting"}
    BY DEF ActiveRun, TerminalRun, RunCards, RunState
  <1> QED
    BY <1>1 DEF Trimmed, LaunchOfRun, OperatorQueue

\* The trim takes no active run away, whichever completed ones stay.
LEMMA TrimKeepsActive ==
    ASSUME NEW runs, NEW newest \in SUBSET runs, NEW issue
    PROVE  ActiveOn(Trimmed(runs, newest), issue) = ActiveOn(runs, issue)
  BY DEF ActiveOn, Trimmed, ActiveRun, TerminalRun

\* What is offered for launch would be admitted: neither the issue nor its
\* parent has an active run among all the runs of the database, no blocker is
\* open, and the cap is not reached.
THEOREM LaunchableIsFree ==
    ASSUME NEW Issues, NEW IssueState, NEW i \in IssueCards(Issues, IssueState),
           NEW runs \in SUBSET RunCards(Issues), NEW newest \in SUBSET runs,
           NEW trigger, NEW cap \in Nat,
           IssueQueue(i, Trimmed(runs, newest), trigger, cap) = {"launchable"}
    PROVE  /\ ActiveOn(runs, i.id) = {} /\ ActiveOn(runs, i.parent) = {}
           /\ i.blockers \subseteq TerminalIssue /\ ~i.approval /\ i.state = trigger
           /\ ~(Cardinality({r \in runs : ActiveRun(r)}) >= cap)
  <1> DEFINE seen == Trimmed(runs, newest)
  <1>1. ActiveOn(seen, i.id) = {}
    <2> SUFFICES ASSUME NEW r \in ActiveOn(seen, i.id) PROVE FALSE
      OBVIOUS
    <2>1. r \in runs /\ ActiveRun(r)
      BY DEF ActiveOn, Trimmed
    <2>2. LaunchOfRun(OperatorQueue(r)) # "launchable"
      BY <2>1, ActiveRunsAreSeen
    <2>3. LaunchOfRun(OperatorQueue(r)) \in IssueQueue(i, seen, trigger, cap)
      BY DEF IssueQueue
    <2> QED
      BY <2>2, <2>3
  <1>2. Gates(i, seen, trigger, cap) = "launchable"
    <2>1. IssueQueue(i, seen, trigger, cap) = {Gates(i, seen, trigger, cap)}
      BY <1>1 DEF IssueQueue
    <2> QED
      BY <2>1
  <1>3. /\ i.state \notin TerminalIssue /\ i.blockers \ TerminalIssue = {}
        /\ ActiveOn(seen, i.parent) = {} /\ i.state = trigger /\ ~i.approval
        /\ ~(Cardinality({r \in seen : ActiveRun(r)}) >= cap)
    BY <1>2 DEF Gates
  <1>4. {r \in seen : ActiveRun(r)} = {r \in runs : ActiveRun(r)}
    BY DEF Trimmed, ActiveRun, TerminalRun
  <1> QED
    BY <1>1, <1>3, <1>4, TrimKeepsActive
=============================================================================
