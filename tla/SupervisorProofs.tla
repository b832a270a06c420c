--------------------------- MODULE SupervisorProofs ---------------------------
(***************************************************************************)
(* Theorems about Supervisor for any set of sessions.  Sessions share only *)
(* the registry and the cleanup timers, so what is known of one (Scanned,  *)
(* OnRecord) is disturbed by its own steps and by a restart alone.  Then   *)
(* the rules on either side of a session: which agent a step of a recipe   *)
(* is given, and what its end means for the step.                          *)
(***************************************************************************)
EXTENDS Supervisor, AgentRules, OutcomeRules, SequenceTheorems, TLAPS

-----------------------------------------------------------------------------
(* The types                                                               *)

Points == {"none", "spawning", "spawn", "rowRunning", "running", "work", "poll", "stop", "wait",
           "stuck", "drain", "rowEnd", "end", "done", "gone"}
Heard  == {"unsent", "none", "bad", "usable", "taken"}
Sups   == [kind : {"pty", "structured", "background"}, pc : Points, rx : Heard,
           stash : {"empty", "none", "bad"}, phase : EndPhases, marker : Markers,
           misses : Nat, errors : Nat]
Children == [alive : BOOLEAN, said : Markers, open : BOOLEAN]
Statuses == {"absent", "starting", "running"} \cup {RowOf(p) : p \in EndPhases}
Phases == {"spawning", "running"} \cup EndPhases

Types ==
    /\ sup \in [Sessions -> Sups] /\ agent \in [Sessions -> Children]
    /\ row \in [Sessions -> Statuses] /\ phases \in [Sessions -> Seq(Phases)]
    /\ registry \in Sessions \cup {None} /\ cleanups \in Nat /\ faults \in Nat

-----------------------------------------------------------------------------
(* What is known of one session                                            *)

Idle    == {"none", "spawning", "spawn"}
Working == {"work", "poll", "stop", "wait", "stuck", "drain"}
Tended  == {"rowRunning", "running", "rowEnd"} \cup Working

\* Before the child there is nothing to hear.  While the child is tended, a value
\* in the scanner's channel or put aside is what it makes of all that was said,
\* and only a usable block is sent before the terminal closes.
Scanned(q, a) ==
    /\ q.pc \in Idle => q.rx = "unsent" /\ q.stash = "empty" /\ a = NewAgent
    /\ q.pc = "none" => q.kind = "pty"
    /\ q.pc = "done" => a = NewAgent
    /\ q.pc \in Tended =>
          /\ a.alive => a.open
          /\ q.rx = "unsent" => a.open /\ a.said # "usable"
          /\ q.rx \in {"none", "bad"} => ~a.open /\ a.said = q.rx
          /\ q.rx = "usable" => a.said = "usable"
          /\ q.rx = "taken" => /\ ~a.alive
                               /\ \/ q.stash = a.said /\ ~a.open
                                  \/ /\ q.stash = "empty" /\ a.said = "usable"
                                     /\ q.pc = "rowEnd" \/ (q.pc = "drain" /\ q.marker = "usable")
          /\ q.stash # "empty" => q.rx = "taken"
    /\ q.pc = "drain" => ~a.alive /\ q.kind = "pty"
    /\ q.pc \in {"poll", "stop"} => q.kind = "background"
    /\ q.pc \in {"wait", "stuck"} => q.kind = "structured"
    /\ q.pc \in {"rowEnd", "end"} /\ q.kind # "background" => ~a.alive /\ q.marker = a.said

\* The row and the published phases at each control point; lossy: a write may
\* have failed.
OnRecord(q, r, p, lossy) ==
    /\ q.pc = "none" => r = "absent" /\ p = <<>>
    /\ q.pc = "spawning" => r = "starting" /\ p = <<>>
    /\ q.pc \in {"spawn", "rowRunning"} => r = "starting" /\ p = <<"spawning">>
    /\ q.pc = "running" => p = <<"spawning">>
    /\ q.pc \in {"rowEnd", "end"} \cup Working => Len(p) = 2
    /\ q.pc \in {"running", "rowEnd"} \cup Working => r = "running" \/ (lossy /\ r = "starting")
    /\ q.pc = "end" => r = RowOf(q.phase) \/ lossy
    /\ q.pc = "done" => p # <<>>

\* The run's terminal is that of its newest session, and a timer runs for one
\* that is over.
Attached ==
    /\ \A s \in Sessions :
          sup[s].kind = "pty" /\ sup[s].pc \in Tended \ {"rowEnd"} =>
              registry = s \/ \E u \in Sessions \ {s} : phases[u] # <<>>
    /\ cleanups > 0 => \E u \in Sessions : sup[u].pc = "done"
    /\ registry # None =>
          /\ sup[registry].kind = "pty" /\ sup[registry].pc \notin Idle
          /\ faults = 0 => sup[registry].pc # "done" \/ cleanups > 0

Supervised ==
    /\ Types /\ Attached
    /\ \A s \in Sessions : Scanned(sup[s], agent[s]) /\ OnRecord(sup[s], row[s], phases[s], faults > 0)

-----------------------------------------------------------------------------
(* Steps of one session                                                    *)

LEMMA Fields ==
    ASSUME Types, NEW s \in Sessions
    PROVE  /\ sup[s] \in Sups /\ agent[s] \in Children /\ row[s] \in Statuses /\ phases[s] \in Seq(Phases)
           /\ sup[s].kind \in {"pty", "structured", "background"} /\ sup[s].pc \in Points
           /\ sup[s].rx \in Heard /\ sup[s].stash \in {"empty", "none", "bad"}
           /\ sup[s].phase \in EndPhases /\ sup[s].marker \in Markers
           /\ sup[s].misses \in Nat /\ sup[s].errors \in Nat
           /\ agent[s].alive \in BOOLEAN /\ agent[s].said \in Markers /\ agent[s].open \in BOOLEAN
  <1>1. sup[s] \in Sups /\ agent[s] \in Children /\ row[s] \in Statuses /\ phases[s] \in Seq(Phases) BY DEF Types
  <1> QED BY <1>1 DEF Sups, Children

LEMMA News == /\ NewAgent \in Children /\ NewSup \in Sups
              /\ \A s, p : /\ Over(s, p).pc = p /\ Over(s, p).kind = sup[s].kind /\ Over(s, p).rx = "unsent"
                           /\ Over(s, p).stash = "empty" /\ Over(s, p).phase = "failed"
  BY DEF NewAgent, Children, Markers, NewSup, Sups, Points, Heard, EndPhases, Over

\* Only session s moves: to locals k, child a, row r and phases p.
Moves(s, k, a, r, p) ==
    /\ sup' = [sup EXCEPT ![s] = k] /\ agent' = [agent EXCEPT ![s] = a]
    /\ row' = [row EXCEPT ![s] = r] /\ phases' = [phases EXCEPT ![s] = p]

Apart(s, k, a, r, p) ==
    /\ sup'[s] = k /\ agent'[s] = a /\ row'[s] = r /\ phases'[s] = p
    /\ \A u \in Sessions \ {s} : /\ sup'[u] = sup[u] /\ agent'[u] = agent[u]
                                 /\ row'[u] = row[u] /\ phases'[u] = phases[u]

LEMMA MovesApart ==
    ASSUME Types, NEW s \in Sessions, NEW k \in Sups, NEW a \in Children, NEW r \in Statuses,
           NEW p \in Seq(Phases), Moves(s, k, a, r, p),
           registry' \in Sessions \cup {None}, cleanups' \in Nat, faults' \in Nat
    PROVE  Types' /\ Apart(s, k, a, r, p)
  <1>1. sup' \in [Sessions -> Sups] /\ agent' \in [Sessions -> Children] BY DEF Moves, Types
  <1>2. row' \in [Sessions -> Statuses] /\ phases' \in [Sessions -> Seq(Phases)] BY DEF Moves, Types
  <1>3. Apart(s, k, a, r, p) BY DEF Moves, Types, Apart
  <1> QED BY <1>1, <1>2, <1>3 DEF Types

LEMMA MovedKeeps ==
    ASSUME Supervised, NEW s \in Sessions, NEW k \in Sups, NEW a \in Children, NEW r \in Statuses,
           NEW p \in Seq(Phases), Moves(s, k, a, r, p),
           registry' \in Sessions \cup {None}, cleanups' \in Nat, faults' \in Nat, faults' >= faults,
           Scanned(k, a), OnRecord(k, r, p, faults' > 0), Attached'
    PROVE  Supervised'
  <1>1. Types' /\ Apart(s, k, a, r, p) BY MovesApart DEF Supervised
  <1>2. faults \in Nat BY DEF Supervised, Types
  <1>3. ASSUME NEW u \in Sessions PROVE (Scanned(sup[u], agent[u]) /\ OnRecord(sup[u], row[u], phases[u], faults > 0))'
    <2>1. CASE u = s
      <3>1. sup'[u] = k /\ agent'[u] = a /\ row'[u] = r /\ phases'[u] = p BY <1>1, <2>1 DEF Apart
      <3> QED BY <3>1
    <2>2. CASE u # s
      <3>1. sup'[u] = sup[u] /\ agent'[u] = agent[u] /\ row'[u] = row[u] /\ phases'[u] = phases[u]
        BY <1>1, <2>2 DEF Apart
      <3>2. Scanned(sup[u], agent[u]) /\ OnRecord(sup[u], row[u], phases[u], faults > 0) BY DEF Supervised
      <3>3. faults > 0 => faults' > 0 BY <1>2
      <3>4. OnRecord(sup[u], row[u], phases[u], faults' > 0) BY <3>2, <3>3 DEF OnRecord, Working
      <3> QED BY <3>1, <3>2, <3>4
    <2> QED BY <2>1, <2>2
  <1> QED BY <1>1, <1>3 DEF Supervised

\* The registry is left alone by a session that neither takes nor leaves it.
LEMMA QuietKeeps ==
    ASSUME Supervised, NEW s \in Sessions, NEW k \in Sups, NEW a \in Children, NEW r \in Statuses,
           NEW p \in Seq(Phases), Moves(s, k, a, r, p), UNCHANGED <<registry, cleanups>>,
           faults' \in Nat, faults' >= faults, Scanned(k, a), OnRecord(k, r, p, faults' > 0),
           sup[s].pc # "done", phases[s] # <<>> => p # <<>>,
           k.pc \in Tended \ {"rowEnd"} /\ k.kind = "pty" =>
               sup[s].kind = "pty" /\ sup[s].pc \in Tended \ {"rowEnd"},
           k.kind = sup[s].kind \/ sup[s].pc = "none",
           k.pc \in Idle => sup[s].pc \in Idle,
           k.pc = "done" => k.kind # "pty"
    PROVE  Supervised'
  <1>1. Apart(s, k, a, r, p) BY MovesApart DEF Supervised, Types
  <1>2. Attached'
    <2>1. ASSUME NEW u \in Sessions, sup'[u].kind = "pty", sup'[u].pc \in Tended \ {"rowEnd"}
          PROVE  registry = u \/ \E x \in Sessions \ {u} : phases'[x] # <<>>
      <3>1. sup[u].kind = "pty" /\ sup[u].pc \in Tended \ {"rowEnd"} BY <1>1, <2>1 DEF Apart
      <3>2. CASE registry = u BY <3>2
      <3>3. ASSUME NEW x \in Sessions \ {u}, phases[x] # <<>> PROVE phases'[x] # <<>> BY <1>1, <3>3 DEF Apart
      <3> QED BY <3>1, <3>2, <3>3 DEF Supervised, Attached
    <2>2. ASSUME NEW u \in Sessions, sup[u].pc = "done" PROVE sup'[u].pc = "done" BY <1>1, <2>2 DEF Apart
    <2>3. registry # None =>
            /\ sup'[registry].kind = "pty" /\ sup'[registry].pc \notin Idle
            /\ faults' = 0 => sup'[registry].pc # "done" \/ cleanups > 0
      <3> SUFFICES ASSUME registry # None
                   PROVE  /\ sup'[registry].kind = "pty" /\ sup'[registry].pc \notin Idle
                          /\ faults' = 0 => sup'[registry].pc # "done" \/ cleanups > 0
        OBVIOUS
      <3>1. registry \in Sessions /\ faults \in Nat BY DEF Supervised, Types
      <3>2. /\ sup[registry].kind = "pty" /\ sup[registry].pc \notin Idle
            /\ faults = 0 => sup[registry].pc # "done" \/ cleanups > 0
        BY DEF Supervised, Attached
      <3>3. faults' = 0 => faults = 0 BY <3>1
      <3>4. CASE registry = s
        <4>1. sup'[registry] = k BY <1>1, <3>4 DEF Apart
        <4> QED BY <3>2, <3>4, <4>1 DEF Idle
      <3>5. CASE registry # s
        <4>1. sup'[registry] = sup[registry] BY <1>1, <3>1, <3>5 DEF Apart
        <4> QED BY <3>2, <3>3, <4>1
      <3> QED BY <3>4, <3>5
    <2>4. cleanups > 0 => \E u \in Sessions : sup'[u].pc = "done" BY <2>2 DEF Supervised, Attached
    <2> QED BY <2>1, <2>3, <2>4 DEF Attached
  <1> QED BY <1>2, MovedKeeps DEF Supervised, Types

LEMMA Stays ==
    ASSUME Types, NEW s \in Sessions
    PROVE  /\ sup = [sup EXCEPT ![s] = sup[s]] /\ agent = [agent EXCEPT ![s] = agent[s]]
           /\ row = [row EXCEPT ![s] = row[s]] /\ phases = [phases EXCEPT ![s] = phases[s]]
  BY DEF Types

LEMMA Known ==
    ASSUME Supervised, NEW s \in Sessions
    PROVE  /\ Types /\ Attached /\ faults \in Nat
           /\ Scanned(sup[s], agent[s]) /\ OnRecord(sup[s], row[s], phases[s], faults > 0)
  BY DEF Supervised, Types

LEMMA GotoIs ==
    ASSUME Types, NEW s \in Sessions, NEW p \in Points
    PROVE  \E k \in Sups :
              /\ Goto(s, p) => sup' = [sup EXCEPT ![s] = k]
              /\ k.pc = p /\ k.kind = sup[s].kind /\ k.rx = sup[s].rx /\ k.stash = sup[s].stash
              /\ k.phase = sup[s].phase /\ k.marker = sup[s].marker
  <1> DEFINE k == [sup[s] EXCEPT !.pc = p]
  <1>1. sup[s] \in Sups BY Fields
  <1>2. k \in Sups BY <1>1 DEF Sups
  <1>3. k.pc = p /\ k.kind = sup[s].kind /\ k.rx = sup[s].rx /\ k.stash = sup[s].stash
        /\ k.phase = sup[s].phase /\ k.marker = sup[s].marker
    BY <1>1 DEF Sups
  <1>4. Goto(s, p) => sup' = [sup EXCEPT ![s] = k] BY DEF Goto
  <1> QED BY <1>2, <1>3, <1>4

-----------------------------------------------------------------------------
(* Launching                                                               *)

LEMMA InsertKeeps ==
    ASSUME Supervised, NEW s \in Sessions, NEW kd \in {"pty", "structured", "background"}, Insert(s, kd)
    PROVE  Supervised'
  <1> DEFINE k == [sup[s] EXCEPT !.kind = kd, !.pc = "spawning"]
  <1>0. sup[s].pc = "none" /\ sup[s] \in Sups BY Fields, Known DEF Insert, MayLaunch
  <1>1. k \in Sups BY <1>0 DEF Sups, Points
  <1>2. k.pc = "spawning" /\ k.kind = kd /\ k.rx = sup[s].rx /\ k.stash = sup[s].stash BY <1>0 DEF Sups
  <1>3. sup' = [sup EXCEPT ![s] = k] BY DEF Insert
  <1> HIDE DEF k
  <1>4. Moves(s, k, agent[s], "starting", phases[s])
    BY <1>3, Known, Stays DEF Insert, Moves
  <1>5. Scanned(k, agent[s]) BY <1>0, <1>2, Known DEF Scanned, Idle, Tended, Working
  <1>6. OnRecord(k, "starting", phases[s], faults > 0) BY <1>0, <1>2, Known DEF OnRecord, Working
  <1>7. agent[s] \in Children /\ phases[s] \in Seq(Phases) /\ "starting" \in Statuses
    BY Fields, Known DEF Statuses
  <1>8. faults' \in Nat /\ faults' >= faults /\ faults' = faults /\ UNCHANGED <<registry, cleanups>>
    BY Known DEF Insert, bounds, pty
  <1> QED BY <1>0, <1>1, <1>2, <1>4, <1>5, <1>6, <1>7, <1>8, QuietKeeps DEF Tended, Working, Idle

LEMMA RecordSpawningKeeps ==
    ASSUME Supervised, NEW s \in Sessions, RecordSpawning(s)
    PROVE  Supervised'
  <1>0. sup[s].pc = "spawning" BY DEF RecordSpawning, Record
  <1>1. PICK k \in Sups : /\ Goto(s, "spawn") => sup' = [sup EXCEPT ![s] = k]
                          /\ k.pc = "spawn" /\ k.kind = sup[s].kind /\ k.rx = sup[s].rx /\ k.stash = sup[s].stash
    BY GotoIs, Known DEF Points
  <1>2. phases[s] = <<>> /\ row[s] = "starting" BY <1>0, Known DEF OnRecord, Working
  <1>3. Append(phases[s], "spawning") = <<"spawning">> BY <1>2
  <1>4. Moves(s, k, agent[s], row[s], <<"spawning">>)
    BY <1>1, <1>3, Known, Stays DEF RecordSpawning, Record, Moves
  <1>5. Scanned(k, agent[s]) BY <1>0, <1>1, Known DEF Scanned, Idle, Tended, Working
  <1>6. OnRecord(k, row[s], <<"spawning">>, faults > 0) BY <1>1, <1>2 DEF OnRecord, Working
  <1>7. agent[s] \in Children /\ row[s] \in Statuses /\ <<"spawning">> \in Seq(Phases)
    BY Fields, Known DEF Phases
  <1>8. faults' \in Nat /\ faults' >= faults /\ faults' = faults /\ UNCHANGED <<registry, cleanups>>
    BY Known DEF RecordSpawning, Record, bounds
  <1> QED BY <1>0, <1>1, <1>4, <1>5, <1>6, <1>7, <1>8, QuietKeeps DEF Tended, Working, Idle

LEMMA SpawnFailsKeeps ==
    ASSUME Supervised, NEW s \in Sessions, SpawnFails(s)
    PROVE  Supervised'
  <1>0. sup[s].pc = "spawn" BY DEF SpawnFails
  <1>1. PICK k \in Sups : /\ Goto(s, "gone") => sup' = [sup EXCEPT ![s] = k]
                          /\ k.pc = "gone" /\ k.kind = sup[s].kind /\ k.rx = sup[s].rx /\ k.stash = sup[s].stash
    BY GotoIs, Known DEF Points
  <1>4. Moves(s, k, agent[s], row[s], phases[s]) BY <1>1, Known, Stays DEF SpawnFails, Moves
  <1>5. Scanned(k, agent[s]) BY <1>1 DEF Scanned, Idle, Tended, Working
  <1>6. OnRecord(k, row[s], phases[s], faults > 0) BY <1>1 DEF OnRecord, Working
  <1>7. agent[s] \in Children /\ row[s] \in Statuses /\ phases[s] \in Seq(Phases) BY Fields, Known
  <1>8. faults' \in Nat /\ faults' >= faults /\ faults' = faults /\ UNCHANGED <<registry, cleanups>>
    BY Known DEF SpawnFails, bounds, pty
  <1> QED BY <1>0, <1>1, <1>4, <1>5, <1>6, <1>7, <1>8, QuietKeeps DEF Tended, Working, Idle

LEMMA SpawnKeeps ==
    ASSUME Supervised, NEW s \in Sessions, Spawn(s)
    PROVE  Supervised'
  <1>0. sup[s].pc = "spawn" BY DEF Spawn
  <1>1. PICK k \in Sups : /\ Goto(s, "rowRunning") => sup' = [sup EXCEPT ![s] = k]
                          /\ k.pc = "rowRunning" /\ k.kind = sup[s].kind /\ k.rx = sup[s].rx /\ k.stash = sup[s].stash
    BY GotoIs, Known DEF Points
  <1> DEFINE a == [agent[s] EXCEPT !.alive = TRUE, !.open = TRUE]
  <1>a. a \in Children /\ a.alive = TRUE /\ a.open = TRUE /\ a.said = agent[s].said BY Fields, Known DEF Children
  <1>b. agent' = [agent EXCEPT ![s] = a] BY DEF Spawn
  <1> HIDE DEF a
  <1>2. row[s] = "starting" /\ phases[s] = <<"spawning">> BY <1>0, Known DEF OnRecord, Working
  <1>4. Moves(s, k, a, row[s], phases[s]) BY <1>1, <1>b, Known, Stays DEF Spawn, Moves
  <1>5. Scanned(k, a)
    <2>1. k.rx = "unsent" /\ k.stash = "empty" /\ a.said = "none"
      BY <1>0, <1>1, <1>a, Known DEF Scanned, Idle, NewAgent
    <2> QED BY <1>1, <1>a, <2>1 DEF Scanned, Idle, Tended, Working
  <1>6. OnRecord(k, row[s], phases[s], faults' > 0) BY <1>1, <1>2 DEF OnRecord, Working
  <1>7. row[s] \in Statuses /\ phases[s] \in Seq(Phases) BY Fields, Known
  <1>8. /\ faults' \in Nat /\ faults' >= faults /\ faults' = faults
        /\ cleanups' = cleanups /\ cleanups' \in Nat /\ registry \in Sessions \cup {None}
        /\ registry' = IF sup[s].kind = "pty" THEN s ELSE registry
    BY Known DEF Spawn, bounds, Types
  <1>9. registry' \in Sessions \cup {None} BY <1>8
  <1>p. Apart(s, k, a, row[s], phases[s]) BY <1>1, <1>4, <1>7, <1>8, <1>9, <1>a, Known, MovesApart
  <1>q. Attached /\ phases'[s] # <<>> /\ phases' = phases BY <1>2, Known DEF Attached, Spawn
  <1>10. ASSUME NEW u \in Sessions, sup'[u].kind = "pty", sup'[u].pc \in Tended \ {"rowEnd"}
         PROVE  registry' = u \/ \E x \in Sessions \ {u} : phases'[x] # <<>>
    <2>1. CASE u = s
      <3>1. sup[s].kind = "pty" BY <1>1, <1>p, <1>10, <2>1 DEF Apart
      <3> QED BY <1>8, <2>1, <3>1
    <2>2. CASE u # s BY <1>q, <2>2
    <2> QED BY <2>1, <2>2
  <1>11. ASSUME NEW u \in Sessions, sup[u].pc = "done" PROVE sup'[u].pc = "done" BY <1>0, <1>p, <1>11 DEF Apart
  <1>12. registry' # None =>
            /\ sup'[registry'].kind = "pty" /\ sup'[registry'].pc \notin Idle
            /\ faults' = 0 => sup'[registry'].pc # "done" \/ cleanups' > 0
    <2>1. CASE sup[s].kind = "pty"
      <3>1. registry' = s /\ sup'[s] = k BY <1>8, <1>p, <2>1 DEF Apart
      <3> QED BY <1>1, <2>1, <3>1 DEF Idle
    <2>2. CASE sup[s].kind # "pty" /\ registry # None
      <3>1. registry' = registry /\ registry \in Sessions /\ registry # s
        BY <1>8, <1>q, <2>2 DEF Attached
      <3>2. sup'[registry] = sup[registry] BY <1>p, <3>1 DEF Apart
      <3> QED BY <1>8, <1>q, <2>2, <3>1, <3>2 DEF Attached
    <2> QED BY <1>8, <2>1, <2>2
  <1>13. Attached' BY <1>8, <1>10, <1>11, <1>12, <1>q DEF Attached
  <1> QED BY <1>1, <1>a, <1>4, <1>5, <1>6, <1>7, <1>8, <1>9, <1>13, MovedKeeps

-----------------------------------------------------------------------------
(* The rows                                                                *)

\* A step that writes no row and publishes nothing.
LEMMA SilentKeeps ==
    ASSUME Supervised, NEW s \in Sessions, NEW k \in Sups, NEW a \in Children,
           sup' = [sup EXCEPT ![s] = k], agent' = [agent EXCEPT ![s] = a],
           UNCHANGED <<row, phases, registry, cleanups>>,
           faults' \in Nat, faults' >= faults, Scanned(k, a), OnRecord(k, row[s], phases[s], faults' > 0),
           sup[s].pc # "done", k.kind = sup[s].kind,
           k.pc \in Tended \ {"rowEnd"} /\ k.kind = "pty" => sup[s].pc \in Tended \ {"rowEnd"},
           k.pc \notin Idle, k.pc = "done" => k.kind # "pty"
    PROVE  Supervised'
  <1>1. Moves(s, k, a, row[s], phases[s]) BY Known, Stays DEF Moves
  <1>2. row[s] \in Statuses /\ phases[s] \in Seq(Phases) BY Known, Fields
  <1> QED BY <1>1, <1>2, QuietKeeps

LEMMA RowRunningKeeps ==
    ASSUME Supervised, NEW s \in Sessions, RowRunning(s)
    PROVE  Supervised'
  <1>0. sup[s].pc = "rowRunning" BY DEF RowRunning, Write
  <1>1. PICK k \in Sups : /\ Goto(s, "running") => sup' = [sup EXCEPT ![s] = k]
                          /\ k.pc = "running" /\ k.kind = sup[s].kind /\ k.rx = sup[s].rx /\ k.stash = sup[s].stash
    BY GotoIs, Known DEF Points
  <1>2. phases[s] = <<"spawning">> BY <1>0, Known DEF OnRecord, Working
  <1>4. Moves(s, k, agent[s], "running", phases[s]) BY <1>1, Known, Stays DEF RowRunning, Write, Moves
  <1>5. Scanned(k, agent[s]) BY <1>0, <1>1, Known DEF Scanned, Idle, Tended, Working
  <1>6. OnRecord(k, "running", phases[s], faults > 0) BY <1>1, <1>2 DEF OnRecord, Working
  <1>7. agent[s] \in Children /\ phases[s] \in Seq(Phases) /\ "running" \in Statuses BY Fields, Known DEF Statuses
  <1>8. faults' \in Nat /\ faults' >= faults /\ faults' = faults /\ UNCHANGED <<registry, cleanups>>
    BY Known DEF RowRunning, Write, bounds, pty
  <1> QED BY <1>0, <1>1, <1>4, <1>5, <1>6, <1>7, <1>8, QuietKeeps DEF Tended, Working, Idle

LEMMA RowEndKeeps ==
    ASSUME Supervised, NEW s \in Sessions, RowEnd(s)
    PROVE  Supervised'
  <1>0. sup[s].pc = "rowEnd" BY DEF RowEnd, Write
  <1>1. PICK k \in Sups : /\ Goto(s, "end") => sup' = [sup EXCEPT ![s] = k]
                          /\ k.pc = "end" /\ k.kind = sup[s].kind /\ k.rx = sup[s].rx /\ k.stash = sup[s].stash
                          /\ k.phase = sup[s].phase /\ k.marker = sup[s].marker
    BY GotoIs, Known DEF Points
  <1>2. Len(phases[s]) = 2 BY <1>0, Known DEF OnRecord, Working
  <1> DEFINE r == RowOf(sup[s].phase)
  <1>3. r \in Statuses BY Fields, Known DEF Statuses
  <1>4. row' = [row EXCEPT ![s] = r] BY DEF RowEnd, Write
  <1>5. OnRecord(k, r, phases[s], faults > 0) BY <1>1, <1>2 DEF OnRecord, Working
  <1> HIDE DEF r
  <1>6. Moves(s, k, agent[s], r, phases[s]) BY <1>1, <1>4, Known, Stays DEF RowEnd, Write, Moves
  <1>7. Scanned(k, agent[s]) BY <1>0, <1>1, Known DEF Scanned, Idle, Tended, Working
  <1>8. agent[s] \in Children /\ phases[s] \in Seq(Phases) BY Fields, Known
  <1>9. faults' \in Nat /\ faults' >= faults /\ faults' = faults /\ UNCHANGED <<registry, cleanups>>
    BY Known DEF RowEnd, Write, bounds, pty
  <1> QED BY <1>0, <1>1, <1>3, <1>5, <1>6, <1>7, <1>8, <1>9, QuietKeeps DEF Tended, Working, Idle

LEMMA OverIs ==
    ASSUME Types, NEW s \in Sessions, NEW p \in Points
    PROVE  Over(s, p) \in Sups
  <1>1. NewSup \in Sups /\ sup[s].kind \in {"pty", "structured", "background"} BY News, Fields
  <1> QED BY <1>1 DEF Over, Sups

LEMMA UpdateFailsKeeps ==
    ASSUME Supervised, NEW s \in Sessions, UpdateFails(s)
    PROVE  Supervised'
  <1>0. sup[s].pc \in {"rowRunning", "rowEnd"} /\ sup[s].kind \in {"pty", "structured", "background"}
    BY Known, Fields DEF UpdateFails
  <1>1. /\ faults' = faults + 1 /\ faults' \in Nat /\ faults' >= faults /\ faults' > 0
        /\ UNCHANGED <<row, phases, agent, registry, cleanups>>
    BY Known DEF UpdateFails, Fault, pty
  <1>2. agent' = [agent EXCEPT ![s] = agent[s]] /\ agent[s] \in Children BY <1>1, Known, Stays, Fields
  <1>3. CASE ~Piped(s)
    <2> DEFINE k == Over(s, "gone")
    <2>1. k \in Sups /\ k.pc = "gone" /\ k.kind = sup[s].kind BY Known, OverIs, News DEF Points
    <2>2. sup' = [sup EXCEPT ![s] = k] BY <1>3 DEF UpdateFails
    <2> HIDE DEF k
    <2>3. Scanned(k, agent[s]) /\ OnRecord(k, row[s], phases[s], faults' > 0) BY <2>1 DEF Scanned, OnRecord, Idle, Tended, Working
    <2> QED BY <1>0, <1>1, <1>2, <2>1, <2>2, <2>3, SilentKeeps DEF Tended, Working, Idle
  <1>4. CASE Piped(s)
    <2> DEFINE p == IF sup[s].pc = "rowEnd" THEN "end" ELSE "running"
    <2>p. p \in Points /\ (sup[s].pc = "rowEnd" => p = "end") /\ (sup[s].pc = "rowRunning" => p = "running")
      BY <1>0 DEF Points
    <2>g. Goto(s, p) BY <1>4 DEF UpdateFails
    <2> HIDE DEF p
    <2>1. PICK k \in Sups : /\ Goto(s, p) => sup' = [sup EXCEPT ![s] = k]
                            /\ k.pc = p /\ k.kind = sup[s].kind /\ k.rx = sup[s].rx /\ k.stash = sup[s].stash
                            /\ k.phase = sup[s].phase /\ k.marker = sup[s].marker
      BY <2>p, GotoIs, Known
    <2>2. sup[s].kind # "pty" BY <1>4, <1>0 DEF Piped
    <2>3. Scanned(k, agent[s]) BY <1>0, <2>p, <2>1, Known DEF Scanned, Idle, Tended, Working
    <2>4. OnRecord(k, row[s], phases[s], faults' > 0) BY <1>0, <1>1, <2>p, <2>1, Known DEF OnRecord, Working
    <2> QED BY <1>0, <1>1, <1>2, <2>g, <2>p, <2>1, <2>2, <2>3, <2>4, SilentKeeps DEF Tended, Working, Idle
  <1> QED BY <1>3, <1>4

LEMMA RecordRunningKeeps ==
    ASSUME Supervised, NEW s \in Sessions, RecordRunning(s)
    PROVE  Supervised'
  <1>0. sup[s].pc = "running" BY DEF RecordRunning, Record
  <1>1. PICK k \in Sups : /\ Goto(s, "work") => sup' = [sup EXCEPT ![s] = k]
                          /\ k.pc = "work" /\ k.kind = sup[s].kind /\ k.rx = sup[s].rx /\ k.stash = sup[s].stash
    BY GotoIs, Known DEF Points
  <1>2. phases[s] = <<"spawning">> /\ (row[s] = "running" \/ (faults > 0 /\ row[s] = "starting"))
    BY <1>0, Known DEF OnRecord, Working
  <1> DEFINE p == Append(phases[s], "running")
  <1>3. p \in Seq(Phases) /\ p # <<>> /\ Len(p) = 2
    <2>1. "running" \in Phases BY DEF Phases
    <2>2. phases[s] \in Seq(Phases) BY Known, Fields
    <2>3. Len(phases[s]) = 1 BY <1>2
    <2>4. p \in Seq(Phases) BY <2>1, <2>2
    <2>5. p # <<>> BY <2>2
    <2>6. Len(p) = Len(phases[s]) + 1 BY <2>1, <2>2
    <2> HIDE DEF p
    <2> QED BY <2>3, <2>4, <2>5, <2>6
  <1>p. phases' = [phases EXCEPT ![s] = p] BY DEF RecordRunning, Record
  <1> HIDE DEF p
  <1>4. Moves(s, k, agent[s], row[s], p) BY <1>1, <1>p, Known, Stays DEF RecordRunning, Record, Moves
  <1>5. Scanned(k, agent[s]) BY <1>0, <1>1, Known DEF Scanned, Idle, Tended, Working
  <1>6. OnRecord(k, row[s], p, faults > 0) BY <1>1, <1>2, <1>3 DEF OnRecord, Working
  <1>7. agent[s] \in Children /\ row[s] \in Statuses BY Fields, Known
  <1>8. faults' \in Nat /\ faults' >= faults /\ faults' = faults /\ UNCHANGED <<registry, cleanups>>
    BY Known DEF RecordRunning, Record, bounds
  <1> QED BY <1>0, <1>1, <1>3, <1>4, <1>5, <1>6, <1>7, <1>8, QuietKeeps DEF Tended, Working, Idle

\* The end of a terminal starts a timer, and its session stays in the registry
\* until the timer has run.
LEMMA EndRecorded ==
    ASSUME Supervised, NEW s \in Sessions, RecordEnd(s)
    PROVE  Supervised'
  <1>0. sup[s].pc = "end" /\ sup[s].phase \in EndPhases /\ phases[s] \in Seq(Phases) /\ row[s] \in Statuses
    BY Known, Fields DEF RecordEnd, Record
  <1> DEFINE k == Over(s, "done")
  <1>1. k \in Sups /\ k.pc = "done" /\ k.kind = sup[s].kind BY Known, OverIs, News DEF Points
  <1>2. sup' = [sup EXCEPT ![s] = k] /\ agent' = [agent EXCEPT ![s] = NewAgent] /\ NewAgent \in Children
    BY News DEF RecordEnd
  <1> HIDE DEF k
  <1> DEFINE p == Append(phases[s], sup[s].phase)
  <1>3. p \in Seq(Phases) /\ p # <<>>
    <2>1. sup[s].phase \in Phases BY <1>0 DEF Phases
    <2> QED BY <1>0, <2>1
  <1>p. phases' = [phases EXCEPT ![s] = p] BY DEF RecordEnd, Record
  <1> HIDE DEF p
  <1>4. Moves(s, k, NewAgent, row[s], p) BY <1>2, <1>p, Known, Stays DEF RecordEnd, Record, Moves
  <1>5. Scanned(k, NewAgent) BY <1>1 DEF Scanned, Idle, Tended, Working
  <1>6. OnRecord(k, row[s], p, faults' > 0) BY <1>1, <1>3 DEF OnRecord, Working
  <1>8. /\ faults' \in Nat /\ faults' >= faults /\ faults' = faults /\ registry' = registry
        /\ registry \in Sessions \cup {None} /\ cleanups \in Nat
        /\ cleanups' = IF sup[s].kind = "pty" THEN cleanups + 1 ELSE cleanups
    BY Known DEF RecordEnd, Record, bounds, Types
  <1>9. cleanups' \in Nat /\ (sup[s].kind = "pty" => cleanups' > 0) /\ (cleanups > 0 => cleanups' > 0) BY <1>8
  <1>a. Apart(s, k, NewAgent, row[s], p) BY <1>0, <1>1, <1>2, <1>3, <1>4, <1>8, <1>9, Known, MovesApart
  <1>10. Attached'
    <2>1. ASSUME NEW u \in Sessions, sup'[u].kind = "pty", sup'[u].pc \in Tended \ {"rowEnd"}
          PROVE  registry = u \/ \E x \in Sessions \ {u} : phases'[x] # <<>>
      <3>1. u # s /\ sup[u].kind = "pty" /\ sup[u].pc \in Tended \ {"rowEnd"} BY <1>1, <1>a, <2>1 DEF Apart, Tended, Working
      <3>2. phases'[s] # <<>> BY <1>3, <1>a DEF Apart
      <3> QED BY <3>1, <3>2
    <2>2. sup'[s].pc = "done" BY <1>1, <1>a DEF Apart
    <2>3. ASSUME registry # None
          PROVE  /\ sup'[registry].kind = "pty" /\ sup'[registry].pc \notin Idle
                 /\ faults' = 0 => sup'[registry].pc # "done" \/ cleanups' > 0
      <3>1. /\ registry \in Sessions /\ sup[registry].kind = "pty" /\ sup[registry].pc \notin Idle
            /\ faults = 0 => sup[registry].pc # "done" \/ cleanups > 0
        BY <1>8, <2>3, Known DEF Attached
      <3>2. CASE registry = s
        <4>1. sup'[registry] = k BY <1>a, <3>2 DEF Apart
        <4> QED BY <1>1, <1>9, <3>1, <3>2, <4>1 DEF Idle
      <3>3. CASE registry # s
        <4>1. sup'[registry] = sup[registry] BY <1>a, <3>1, <3>3 DEF Apart
        <4> QED BY <1>8, <1>9, <3>1, <4>1
      <3> QED BY <3>2, <3>3
    <2> QED BY <1>8, <2>1, <2>2, <2>3 DEF Attached
  <1> QED BY <1>0, <1>1, <1>2, <1>3, <1>4, <1>5, <1>6, <1>8, <1>9, <1>10, MovedKeeps

LEMMA CleanupKeeps == ASSUME Supervised, Cleanup PROVE Supervised'
  <1>1. UNCHANGED <<row, phases, agent, sup, faults>> /\ registry' = None /\ cleanups > 0 /\ cleanups' = cleanups - 1
    BY DEF Cleanup, bounds
  <1>2. Types' BY <1>1 DEF Supervised, Types
  <1>3. ASSUME NEW s \in Sessions PROVE (Scanned(sup[s], agent[s]) /\ OnRecord(sup[s], row[s], phases[s], faults > 0))'
    BY <1>1 DEF Supervised
  <1>4. PICK u \in Sessions : sup[u].pc = "done" BY <1>1 DEF Supervised, Attached
  <1>5. phases[u] # <<>> BY <1>4 DEF Supervised, OnRecord, Working
  <1>6. Attached' BY <1>1, <1>4, <1>5 DEF Attached, Tended, Working
  <1> QED BY <1>2, <1>3, <1>6 DEF Supervised

LEMMA CrashKeeps == ASSUME Supervised, Crash PROVE Supervised'
  <1>1. /\ UNCHANGED <<row, phases>> /\ registry' = None /\ cleanups' = 0 /\ faults' = faults + 1
        /\ sup' = [s \in Sessions |-> Over(s, IF sup[s].pc \in {"none", "done"} THEN sup[s].pc ELSE "gone")]
        /\ agent' = [s \in Sessions |-> IF sup[s].kind = "background" THEN agent[s] ELSE NewAgent]
    BY DEF Crash, Fault
  <1>2. Types /\ faults \in Nat BY DEF Supervised, Types
  <1>3. ASSUME NEW s \in Sessions
        PROVE  /\ sup'[s] \in Sups /\ sup'[s].kind = sup[s].kind /\ sup'[s].rx = "unsent" /\ sup'[s].stash = "empty"
               /\ sup'[s].pc \in {"none", "done", "gone"}
               /\ sup'[s].pc \in {"none", "done"} => sup'[s].pc = sup[s].pc
               /\ agent'[s] \in Children /\ (sup[s].kind # "background" => agent'[s] = NewAgent)
    <2> DEFINE p == IF sup[s].pc \in {"none", "done"} THEN sup[s].pc ELSE "gone"
    <2>1. p \in {"none", "done", "gone"} /\ (p \in {"none", "done"} => p = sup[s].pc) OBVIOUS
    <2>2. sup'[s] = Over(s, p) BY <1>1
    <2> HIDE DEF p
    <2>3. p \in Points BY <2>1 DEF Points
    <2>4. sup'[s] \in Sups /\ sup'[s].kind = sup[s].kind /\ sup'[s].rx = "unsent" /\ sup'[s].stash = "empty"
          /\ sup'[s].pc = p
      BY <1>2, <2>2, <2>3, OverIs, News
    <2>5. agent'[s] \in Children /\ (sup[s].kind # "background" => agent'[s] = NewAgent) BY <1>1, <1>2, News, Fields
    <2> QED BY <2>1, <2>4, <2>5
  <1>4. Types'
    <2>1. sup' \in [Sessions -> Sups] /\ agent' \in [Sessions -> Children] BY <1>1, <1>3
    <2> QED BY <1>1, <1>2, <2>1 DEF Types
  <1>5. ASSUME NEW s \in Sessions PROVE (Scanned(sup[s], agent[s]) /\ OnRecord(sup[s], row[s], phases[s], faults > 0))'
    <2>1. Scanned(sup[s], agent[s]) /\ OnRecord(sup[s], row[s], phases[s], faults > 0) BY DEF Supervised
    <2>2. sup'[s].pc = "none" => sup[s].kind = "pty" /\ row[s] = "absent" /\ phases[s] = <<>>
      BY <1>3, <2>1 DEF Scanned, OnRecord, Working
    <2>3. sup'[s].pc = "done" => phases[s] # <<>> BY <1>3, <2>1 DEF OnRecord, Working
    <2>a. sup'[s].pc = "done" => agent'[s] = NewAgent BY <1>1, <1>3, <2>1 DEF Scanned
    <2>4. Scanned(sup'[s], agent'[s]) BY <1>3, <2>2, <2>a DEF Scanned, Idle, Tended, Working
    <2>5. OnRecord(sup'[s], row[s], phases[s], faults' > 0) BY <1>3, <2>2, <2>3 DEF OnRecord, Working
    <2> QED BY <1>1, <2>4, <2>5
  <1>6. Attached' BY <1>1, <1>3 DEF Attached, Tended, Working
  <1> QED BY <1>4, <1>5, <1>6 DEF Supervised

-----------------------------------------------------------------------------
(* The agent, and what ends its session                                    *)

\* The agent or the scanner moves; the supervisor stays where it is.
LEMMA HeardKeeps ==
    ASSUME Supervised, NEW s \in Sessions, NEW k \in Sups, NEW a \in Children,
           sup' = [sup EXCEPT ![s] = k], agent' = [agent EXCEPT ![s] = a],
           UNCHANGED <<row, phases, registry, cleanups, faults>>,
           Scanned(k, a), sup[s].pc \notin Idle \cup {"done"},
           k.pc = sup[s].pc, k.kind = sup[s].kind, k.phase = sup[s].phase
    PROVE  Supervised'
  <1>1. OnRecord(k, row[s], phases[s], faults' > 0) BY Known DEF OnRecord, Working
  <1>2. faults' \in Nat /\ faults' >= faults BY Known
  <1> QED BY <1>1, <1>2, SilentKeeps

\* The supervisor takes the session from work to its end.
LEMMA WorkKeeps ==
    ASSUME Supervised, NEW s \in Sessions, NEW k \in Sups, NEW a \in Children,
           sup' = [sup EXCEPT ![s] = k], agent' = [agent EXCEPT ![s] = a],
           UNCHANGED <<row, phases, registry, cleanups, faults>>,
           Scanned(k, a), sup[s].pc \in Working, k.pc \in Working \cup {"rowEnd"}, k.kind = sup[s].kind
    PROVE  Supervised'
  <1>1. OnRecord(k, row[s], phases[s], faults' > 0) BY Known DEF OnRecord, Working
  <1>2. faults' \in Nat /\ faults' >= faults BY Known
  <1> QED BY <1>1, <1>2, SilentKeeps DEF Tended, Working, Idle

LEMMA SayKeeps ==
    ASSUME Supervised, NEW s \in Sessions, NEW m \in Markers, Say(s, m)
    PROVE  Supervised'
  <1>0. /\ sup[s] \in Sups /\ agent[s] \in Children /\ sup[s].rx \in Heard
        /\ agent[s].alive /\ agent[s].said # "usable" /\ Handled(s) /\ m \in {"bad", "usable"}
        /\ sup[s].pc # "wait"
    BY Known, Fields DEF Say
  <1> DEFINE x == IF m = "usable" THEN m ELSE sup[s].rx
  <1>x. x \in Heard /\ (m = "usable" => x = "usable") /\ (m = "bad" => x = sup[s].rx) BY <1>0 DEF Heard
  <1>y. sup' = [sup EXCEPT ![s].rx = x] BY DEF Say
  <1> HIDE DEF x
  <1> DEFINE k == [sup[s] EXCEPT !.rx = x]
             a == [agent[s] EXCEPT !.said = m]
  <1>1. k \in Sups /\ a \in Children BY <1>0, <1>x DEF Sups, Children
  <1>2. /\ k.pc = sup[s].pc /\ k.kind = sup[s].kind /\ k.phase = sup[s].phase
        /\ k.rx = x /\ k.stash = sup[s].stash /\ k.marker = sup[s].marker
    BY <1>0 DEF Sups
  <1>3. a.alive = agent[s].alive /\ a.open = agent[s].open /\ a.said = m BY <1>0 DEF Children
  <1>4. sup' = [sup EXCEPT ![s] = k] /\ agent' = [agent EXCEPT ![s] = a] BY <1>y DEF Say
  <1> HIDE DEF k, a
  <1>5. sup[s].pc \in {"rowRunning", "running", "work", "poll", "stop", "stuck", "rowEnd", "end"}
    BY <1>0, Known DEF Handled, At, Scanned, Idle, NewAgent
  <1>6. sup[s].pc \in {"rowEnd", "end"} => sup[s].kind = "background" BY <1>0, Known DEF Scanned
  <1>8. CASE sup[s].pc # "end"
    <2>1. sup[s].pc \in Tended BY <1>5, <1>8 DEF Tended, Working
    <2>2. agent[s].open /\ sup[s].rx \in {"unsent", "usable"} /\ sup[s].stash = "empty"
      BY <1>0, <2>1, Known DEF Scanned, Heard
    <2>3. sup[s].rx = "unsent" BY <1>0, <2>1, <2>2, Known DEF Scanned
    <2>4. (x = "unsent" /\ m = "bad") \/ (x = "usable" /\ m = "usable") BY <1>0, <1>x, <2>3
    <2>5. Scanned(k, a) BY <1>2, <1>3, <1>5, <1>6, <2>1, <2>2, <2>4, Known DEF Scanned, Idle
    <2> QED BY <1>1, <1>2, <1>4, <1>5, <2>5, HeardKeeps DEF Say, Idle, pty, bounds
  <1>9. sup[s].pc = "end" => Scanned(k, a) BY <1>2, <1>6 DEF Scanned, Idle, Tended, Working
  <1>10. CASE sup[s].pc = "end" BY <1>1, <1>2, <1>4, <1>9, <1>10, HeardKeeps DEF Say, Idle, pty, bounds
  <1> QED BY <1>8, <1>10

LEMMA ExitKeeps ==
    ASSUME Supervised, NEW s \in Sessions, Exit(s)
    PROVE  Supervised'
  <1>0. sup[s] \in Sups /\ agent[s] \in Children /\ agent[s].alive /\ Handled(s) BY Known, Fields DEF Exit
  <1> DEFINE a == [agent[s] EXCEPT !.alive = FALSE]
  <1>1. a \in Children /\ a.alive = FALSE /\ a.open = agent[s].open /\ a.said = agent[s].said BY <1>0 DEF Children
  <1>2. agent' = [agent EXCEPT ![s] = a] /\ sup' = [sup EXCEPT ![s] = sup[s]] BY Known, Stays DEF Exit
  <1> HIDE DEF a
  <1>3. sup[s].pc \in {"rowRunning", "running", "rowEnd", "end"} \cup Working
    BY <1>0, Known DEF Handled, At, Scanned, Idle, NewAgent, Working
  <1>4. Scanned(sup[s], a) BY <1>0, <1>1, <1>3, Known DEF Scanned, Idle, Tended, Working
  <1> QED BY <1>0, <1>1, <1>2, <1>3, <1>4, HeardKeeps DEF Exit, Idle, Working, pty, bounds

LEMMA EofKeeps ==
    ASSUME Supervised, NEW s \in Sessions, Eof(s)
    PROVE  Supervised'
  <1>0. /\ sup[s] \in Sups /\ agent[s] \in Children /\ sup[s].rx \in Heard /\ agent[s].said \in Markers
        /\ agent[s].open /\ ~agent[s].alive
    BY Known, Fields DEF Eof
  <1> DEFINE x == IF sup[s].rx = "unsent" THEN agent[s].said ELSE sup[s].rx
  <1>x. x \in Heard /\ (sup[s].rx = "unsent" => x = agent[s].said) /\ (sup[s].rx # "unsent" => x = sup[s].rx)
    BY <1>0 DEF Heard, Markers
  <1>y. sup' = [sup EXCEPT ![s].rx = x] BY DEF Eof
  <1> HIDE DEF x
  <1> DEFINE k == [sup[s] EXCEPT !.rx = x]
             a == [agent[s] EXCEPT !.open = FALSE]
  <1>1. k \in Sups /\ a \in Children BY <1>0, <1>x DEF Sups, Children
  <1>2. /\ k.pc = sup[s].pc /\ k.kind = sup[s].kind /\ k.phase = sup[s].phase
        /\ k.rx = x /\ k.stash = sup[s].stash /\ k.marker = sup[s].marker
    BY <1>0 DEF Sups
  <1>3. a.alive = FALSE /\ a.open = FALSE /\ a.said = agent[s].said BY <1>0 DEF Children
  <1>4. sup' = [sup EXCEPT ![s] = k] /\ agent' = [agent EXCEPT ![s] = a] BY <1>y DEF Eof
  <1> HIDE DEF k, a
  <1>5. sup[s].pc \notin Idle \cup {"done"} BY <1>0, Known DEF Scanned, NewAgent
  <1>6. Scanned(k, a)
    <2>1. CASE sup[s].pc \in Tended /\ sup[s].rx = "unsent"
      <3>1. x = agent[s].said /\ agent[s].said \in {"none", "bad"} /\ sup[s].stash = "empty"
        BY <1>0, <1>x, <2>1, Known DEF Scanned, Markers
      <3> QED BY <1>2, <1>3, <1>5, <2>1, <3>1, Known DEF Scanned, Tended, Working
    <2>2. CASE sup[s].pc \in Tended /\ sup[s].rx # "unsent"
      BY <1>0, <1>x, <1>2, <1>3, <1>5, <2>2, Known DEF Scanned, Tended, Working
    <2>3. CASE sup[s].pc \notin Tended BY <1>2, <1>3, <1>5, <2>3, Known DEF Scanned, Tended, Working, Idle
    <2> QED BY <2>1, <2>2, <2>3
  <1> QED BY <1>1, <1>2, <1>4, <1>5, <1>6, HeardKeeps DEF Eof, pty, bounds

LEMMA StopKeeps ==
    ASSUME Supervised, NEW s \in Sessions, NEW p \in EndPhases, Stop(s, p)
    PROVE  Supervised'
  <1>0. /\ sup[s] \in Sups /\ agent[s] \in Children /\ sup[s].pc = "work" /\ agent[s].said \in Markers
        /\ sup[s].kind \in {"pty", "structured", "background"}
    BY Known, Fields DEF Stop
  <1> DEFINE to == AfterStop[sup[s].kind]
             mk == IF sup[s].kind = "structured" THEN agent[s].said ELSE "none"
  <1>x. /\ to \in {"rowEnd", "drain", "stop"} /\ (sup[s].kind = "pty" => to = "drain")
        /\ (sup[s].kind = "structured" => to = "rowEnd") /\ (sup[s].kind = "background" => to = "stop")
        /\ mk \in Markers /\ (sup[s].kind = "structured" => mk = agent[s].said)
    BY <1>0 DEF AfterStop, Markers
  <1>y. sup' = [sup EXCEPT ![s].phase = p, ![s].pc = to, ![s].marker = mk] BY DEF Stop
  <1> HIDE DEF to, mk
  <1> DEFINE k == [sup[s] EXCEPT !.phase = p, !.pc = to, !.marker = mk]
  <1>1. k \in Sups BY <1>0, <1>x DEF Sups, Points
  <1>2. k.pc = to /\ k.kind = sup[s].kind /\ k.rx = sup[s].rx /\ k.stash = sup[s].stash /\ k.marker = mk
    BY <1>0 DEF Sups
  <1>3. sup' = [sup EXCEPT ![s] = k] BY <1>y
  <1> HIDE DEF k
  <1> DEFINE a == [agent[s] EXCEPT !.alive = @ /\ sup[s].kind = "background"]
  <1>4. /\ a \in Children /\ a.open = agent[s].open /\ a.said = agent[s].said
        /\ (a.alive => agent[s].alive /\ sup[s].kind = "background")
    BY <1>0 DEF Children
  <1>z. agent' = [agent EXCEPT ![s] = a] BY DEF Stop
  <1> HIDE DEF a
  <1>5. Scanned(sup[s], agent[s]) /\ sup[s].pc \in Tended BY <1>0, Known DEF Tended, Working
  <1>6. Scanned(k, a) BY <1>0, <1>x, <1>2, <1>4, <1>5 DEF Scanned, Idle, Tended, Working
  <1> QED BY <1>0, <1>1, <1>x, <1>z, <1>2, <1>3, <1>4, <1>6, WorkKeeps DEF Stop, Working, pty, bounds

LEMMA StoppedKeeps ==
    ASSUME Supervised, NEW s \in Sessions, Stopped(s)
    PROVE  Supervised'
  <1>0. /\ agent[s] \in Children /\ sup[s].pc = "stop" /\ sup[s].kind = "background" /\ agent[s].alive \in BOOLEAN
    BY Known, Fields DEF Stopped, At
  <1>1. PICK k \in Sups : /\ Goto(s, "rowEnd") => sup' = [sup EXCEPT ![s] = k]
                          /\ k.pc = "rowEnd" /\ k.kind = sup[s].kind /\ k.rx = sup[s].rx /\ k.stash = sup[s].stash
    BY GotoIs, Known DEF Points
  <1>2. PICK lives \in BOOLEAN : agent' = [agent EXCEPT ![s].alive = @ /\ lives] BY DEF Stopped
  <1> DEFINE a == [agent[s] EXCEPT !.alive = @ /\ lives]
  <1>3. a \in Children /\ a.open = agent[s].open /\ a.said = agent[s].said /\ (a.alive => agent[s].alive)
    BY <1>0 DEF Children
  <1>4. agent' = [agent EXCEPT ![s] = a] BY <1>2
  <1> HIDE DEF a
  <1>5. Scanned(sup[s], agent[s]) /\ sup[s].pc \in Tended BY <1>0, Known DEF Tended, Working
  <1>6. Scanned(k, a) BY <1>0, <1>1, <1>3, <1>5 DEF Scanned, Idle, Tended, Working
  <1> QED BY <1>0, <1>1, <1>3, <1>4, <1>6, WorkKeeps DEF Stopped, Working, pty, bounds

LEMMA MarkerArmKeeps ==
    ASSUME Supervised, NEW s \in Sessions, MarkerArm(s)
    PROVE  Supervised'
  <1>0. /\ sup[s] \in Sups /\ agent[s] \in Children /\ sup[s].pc = "work" /\ sup[s].kind = "pty" /\ sup[s].rx = "usable"
    BY Known, Fields DEF MarkerArm, At
  <1> DEFINE k == [sup[s] EXCEPT !.phase = "completed", !.pc = "drain", !.marker = "usable", !.rx = "taken"]
             a == [agent[s] EXCEPT !.alive = FALSE]
  <1>1. k \in Sups /\ a \in Children BY <1>0 DEF Sups, Children, Points, Heard, Markers, EndPhases
  <1>2. k.pc = "drain" /\ k.kind = sup[s].kind /\ k.rx = "taken" /\ k.stash = sup[s].stash /\ k.marker = "usable"
    BY <1>0 DEF Sups
  <1>3. a.alive = FALSE /\ a.open = agent[s].open /\ a.said = agent[s].said BY <1>0 DEF Children
  <1>4. sup' = [sup EXCEPT ![s] = k] /\ agent' = [agent EXCEPT ![s] = a] BY DEF MarkerArm
  <1> HIDE DEF k, a
  <1>5. Scanned(sup[s], agent[s]) /\ sup[s].pc \in Tended BY <1>0, Known DEF Tended, Working
  <1>6. sup[s].stash = "empty" /\ agent[s].said = "usable" BY <1>0, <1>5, Fields, Known DEF Scanned
  <1>7. Scanned(k, a) BY <1>0, <1>2, <1>3, <1>6 DEF Scanned, Idle, Tended, Working
  <1> QED BY <1>0, <1>1, <1>2, <1>4, <1>7, WorkKeeps DEF MarkerArm, Working, pty, bounds

LEMMA MarkerStashKeeps ==
    ASSUME Supervised, NEW s \in Sessions, MarkerStash(s)
    PROVE  Supervised'
  <1>0. /\ sup[s] \in Sups /\ sup[s].pc = "work" /\ sup[s].kind = "pty" /\ sup[s].rx \in {"none", "bad"}
        /\ agent[s] \in Children
    BY Known, Fields DEF MarkerStash, At
  <1> DEFINE k == [sup[s] EXCEPT !.stash = sup[s].rx, !.rx = "taken"]
  <1>1. k \in Sups BY <1>0 DEF Sups, Heard
  <1>2. k.pc = "work" /\ k.kind = sup[s].kind /\ k.rx = "taken" /\ k.stash = sup[s].rx BY <1>0 DEF Sups
  <1>3. sup' = [sup EXCEPT ![s] = k] BY DEF MarkerStash
  <1> HIDE DEF k
  <1>4. agent' = [agent EXCEPT ![s] = agent[s]] BY Known, Stays DEF MarkerStash
  <1>5. Scanned(sup[s], agent[s]) /\ sup[s].pc \in Tended BY <1>0, Known DEF Tended, Working
  <1>6. ~agent[s].open /\ ~agent[s].alive /\ agent[s].said = sup[s].rx BY <1>0, <1>5 DEF Scanned
  <1>7. Scanned(k, agent[s]) BY <1>0, <1>2, <1>6 DEF Scanned, Idle, Tended, Working
  <1> QED BY <1>0, <1>1, <1>2, <1>3, <1>4, <1>7, WorkKeeps DEF MarkerStash, Working, pty, bounds

LEMMA ExitArmKeeps ==
    ASSUME Supervised, NEW s \in Sessions, NEW p \in EndPhases, ExitArm(s, p)
    PROVE  Supervised'
  <1>0. /\ sup[s] \in Sups /\ sup[s].pc = "work" /\ sup[s].kind = "pty" /\ ~agent[s].alive
        /\ agent[s] \in Children
    BY Known, Fields DEF ExitArm, At
  <1> DEFINE k == [sup[s] EXCEPT !.phase = p, !.pc = "drain"]
  <1>1. k \in Sups BY <1>0 DEF Sups, Points
  <1>2. k.pc = "drain" /\ k.kind = sup[s].kind /\ k.rx = sup[s].rx /\ k.stash = sup[s].stash BY <1>0 DEF Sups
  <1>3. sup' = [sup EXCEPT ![s] = k] BY DEF ExitArm
  <1> HIDE DEF k
  <1>4. agent' = [agent EXCEPT ![s] = agent[s]] BY Known, Stays DEF ExitArm
  <1>5. Scanned(sup[s], agent[s]) /\ sup[s].pc \in Tended BY <1>0, Known DEF Tended, Working
  <1>6. Scanned(k, agent[s]) BY <1>0, <1>2, <1>5 DEF Scanned, Idle, Tended, Working
  <1> QED BY <1>0, <1>1, <1>2, <1>3, <1>4, <1>6, WorkKeeps DEF ExitArm, Working, pty, bounds

\* Once the terminal has closed, one of the three places holds what was said.
LEMMA DrainKeeps ==
    ASSUME Supervised, NEW s \in Sessions, Drain(s)
    PROVE  Supervised'
  <1>0. /\ sup[s] \in Sups /\ sup[s].pc = "drain" /\ ~agent[s].open /\ agent[s] \in Children
        /\ agent[s].said \in Markers /\ sup[s].rx \in Heard
    BY Known, Fields DEF Drain
  <1>1. Scanned(sup[s], agent[s]) /\ sup[s].pc \in Tended BY <1>0, Known DEF Tended, Working
  <1>2. sup[s].kind = "pty" /\ ~agent[s].alive BY <1>0, <1>1 DEF Scanned
  <1>3. sup[s].rx # "unsent" /\ (sup[s].stash # "empty" => sup[s].rx = "taken") BY <1>0, <1>1 DEF Scanned
  <1>4. TakeStepResult(s) = agent[s].said
    <2>1. CASE sup[s].rx = "taken"
      <3>1. \/ sup[s].stash = agent[s].said /\ ~agent[s].open
            \/ sup[s].stash = "empty" /\ agent[s].said = "usable" /\ sup[s].marker = "usable"
        BY <1>0, <1>1, <2>1 DEF Scanned
      <3> QED BY <1>0, <2>1, <3>1 DEF TakeStepResult, Markers
    <2>2. CASE sup[s].rx # "taken"
      <3>1. sup[s].rx \in {"none", "bad", "usable"} BY <1>0, <1>3, <2>2 DEF Heard
      <3>2. sup[s].rx = agent[s].said BY <1>1, <3>1 DEF Scanned
      <3> QED BY <1>3, <2>2, <3>2 DEF TakeStepResult
    <2> QED BY <2>1, <2>2
  <1> DEFINE k == [sup[s] EXCEPT !.marker = agent[s].said, !.pc = "rowEnd"]
  <1>5. k \in Sups BY <1>0 DEF Sups, Points
  <1>6. k.pc = "rowEnd" /\ k.kind = sup[s].kind /\ k.rx = sup[s].rx /\ k.stash = sup[s].stash /\ k.marker = agent[s].said
    BY <1>0 DEF Sups
  <1>7. sup' = [sup EXCEPT ![s] = k] BY <1>4 DEF Drain
  <1> HIDE DEF k
  <1>8. agent' = [agent EXCEPT ![s] = agent[s]] BY Known, Stays DEF Drain
  <1>9. Scanned(k, agent[s]) BY <1>0, <1>1, <1>2, <1>3, <1>6 DEF Scanned, Idle, Tended, Working
  <1> QED BY <1>0, <1>5, <1>6, <1>7, <1>8, <1>9, WorkKeeps DEF Drain, Working, pty, bounds

\* The child of a structured turn has left.
LEMMA TurnKeeps ==
    ASSUME Supervised, NEW s \in Sessions, NEW p \in EndPhases, TurnEnds(s, p) \/ ChildLeaves(s, p)
    PROVE  Supervised'
  <1>0. /\ sup[s] \in Sups /\ sup[s].pc \in {"work", "wait"} /\ sup[s].kind = "structured" /\ ~agent[s].alive
        /\ agent[s] \in Children /\ agent[s].said \in Markers
    BY Known, Fields DEF TurnEnds, ChildLeaves, At
  <1> DEFINE k == [sup[s] EXCEPT !.phase = p, !.marker = agent[s].said, !.pc = "rowEnd"]
  <1>1. k \in Sups BY <1>0 DEF Sups, Points
  <1>2. k.pc = "rowEnd" /\ k.kind = sup[s].kind /\ k.rx = sup[s].rx /\ k.stash = sup[s].stash /\ k.marker = agent[s].said
    BY <1>0 DEF Sups
  <1>3. sup' = [sup EXCEPT ![s] = k] BY DEF TurnEnds, ChildLeaves
  <1> HIDE DEF k
  <1>4. agent' = [agent EXCEPT ![s] = agent[s]] BY Known, Stays DEF TurnEnds, ChildLeaves
  <1>5. Scanned(sup[s], agent[s]) /\ sup[s].pc \in Tended BY <1>0, Known DEF Tended, Working
  <1>6. Scanned(k, agent[s]) BY <1>0, <1>2, <1>5 DEF Scanned, Idle, Tended, Working
  <1> QED BY <1>0, <1>1, <1>2, <1>3, <1>4, <1>6, WorkKeeps DEF TurnEnds, ChildLeaves, Working, pty, bounds

\* The supervisor goes from its work to one of its waits.
LEMMA WaitKeeps ==
    ASSUME Supervised, NEW s \in Sessions, PollStarts(s) \/ AwaitChild(s) \/ Jam(s)
    PROVE  Supervised'
  <1>0. PICK w \in {"poll", "wait", "stuck"} :
           /\ Goto(s, w) /\ sup[s].pc = "work" /\ UNCHANGED <<row, phases, agent, token, pty, bounds>>
           /\ sup[s].kind = IF w = "poll" THEN "background" ELSE "structured"
    BY DEF PollStarts, AwaitChild, Jam, At
  <1>1. PICK k \in Sups : /\ Goto(s, w) => sup' = [sup EXCEPT ![s] = k]
                          /\ k.pc = w /\ k.kind = sup[s].kind /\ k.rx = sup[s].rx /\ k.stash = sup[s].stash
    BY GotoIs, Known DEF Points
  <1>2. agent' = [agent EXCEPT ![s] = agent[s]] /\ agent[s] \in Children BY <1>0, Known, Fields, Stays
  <1>3. Scanned(sup[s], agent[s]) /\ sup[s].pc \in Tended BY <1>0, Known DEF Tended, Working
  <1>4. Scanned(k, agent[s]) BY <1>0, <1>1, <1>3 DEF Scanned, Idle, Tended, Working
  <1>5. w \in Working /\ sup[s].pc \in Working BY <1>0 DEF Working
  <1> QED BY <1>0, <1>1, <1>2, <1>4, <1>5, WorkKeeps DEF pty, bounds

\* Any poll of a background session moves its locals and nothing else.
LEMMA PolledKeeps ==
    ASSUME Supervised, NEW s \in Sessions, NEW k \in Sups, sup' = [sup EXCEPT ![s] = k],
           UNCHANGED <<row, phases, agent, token, pty, bounds>>,
           At(s, "background", "poll"), k.pc \in {"work", "rowEnd"}, k.kind = sup[s].kind,
           k.rx = sup[s].rx, k.stash = sup[s].stash
    PROVE  Supervised'
  <1>1. agent' = [agent EXCEPT ![s] = agent[s]] /\ agent[s] \in Children BY Known, Fields, Stays
  <1>2. Scanned(sup[s], agent[s]) /\ sup[s].pc = "poll" /\ sup[s].kind = "background" BY Known DEF At
  <1>3. Scanned(k, agent[s]) BY <1>2 DEF Scanned, Idle, Tended, Working
  <1> QED BY <1>1, <1>2, <1>3, WorkKeeps DEF Working, pty, bounds

LEMMA AnswersKeeps ==
    ASSUME Supervised, NEW s \in Sessions, Answers(s)
    PROVE  Supervised'
  <1>0. sup[s] \in Sups /\ agent[s].said \in Markers /\ sup[s].misses \in Nat /\ sup[s].errors \in Nat
    BY Known, Fields
  <1>1. CASE PollSeen(s)
    <2> DEFINE k == [sup[s] EXCEPT !.misses = 0, !.errors = 0, !.pc = "work"]
    <2>1. k \in Sups /\ k.pc = "work" /\ k.kind = sup[s].kind /\ k.rx = sup[s].rx /\ k.stash = sup[s].stash
      BY <1>0 DEF Sups, Points
    <2>2. sup' = [sup EXCEPT ![s] = k] BY <1>1 DEF PollSeen
    <2> HIDE DEF k
    <2> QED BY <1>1, <2>1, <2>2, PolledKeeps DEF PollSeen, At
  <1>2. ASSUME NEW mi \in Nat, NEW er \in Nat, PollCounts(s, mi, er) PROVE Supervised'
    <2> DEFINE to == IF mi >= MaxMisses \/ er >= MaxErrors THEN "rowEnd" ELSE "work"
    <2>0. to \in {"work", "rowEnd"} OBVIOUS
    <2>a. sup' = [sup EXCEPT ![s].misses = mi, ![s].errors = er, ![s].phase = "failed", ![s].pc = to]
      BY <1>2 DEF PollCounts
    <2> HIDE DEF to
    <2> DEFINE k == [sup[s] EXCEPT !.misses = mi, !.errors = er, !.phase = "failed", !.pc = to]
    <2>1. k \in Sups BY <1>0, <2>0 DEF Sups, Points, EndPhases
    <2>2. k.pc = to /\ k.kind = sup[s].kind /\ k.rx = sup[s].rx /\ k.stash = sup[s].stash BY <1>0 DEF Sups
    <2>3. sup' = [sup EXCEPT ![s] = k] BY <2>a
    <2> HIDE DEF k
    <2> QED BY <1>2, <2>0, <2>1, <2>2, <2>3, PolledKeeps DEF PollCounts
  <1>3. ASSUME NEW p \in EndPhases, PollEnds(s, p) PROVE Supervised'
    <2> DEFINE k == [sup[s] EXCEPT !.phase = p, !.pc = "rowEnd", !.marker = agent[s].said]
    <2>1. k \in Sups BY <1>0 DEF Sups, Points
    <2>2. k.pc = "rowEnd" /\ k.kind = sup[s].kind /\ k.rx = sup[s].rx /\ k.stash = sup[s].stash BY <1>0 DEF Sups
    <2>3. sup' = [sup EXCEPT ![s] = k] BY <1>3 DEF PollEnds
    <2> HIDE DEF k
    <2> QED BY <1>3, <2>1, <2>2, <2>3, PolledKeeps DEF PollEnds
  <1>4. CASE PollMissed(s)
    <2>1. sup[s].misses + 1 \in Nat BY <1>0
    <2> QED BY <1>0, <1>2, <1>4, <2>1 DEF PollMissed
  <1>5. CASE PollFailed(s)
    <2>1. sup[s].errors + 1 \in Nat BY <1>0
    <2> QED BY <1>0, <1>2, <1>5, <2>1 DEF PollFailed
  <1>6. CASE Stopped(s) BY <1>6, StoppedKeeps
  <1> QED BY <1>1, <1>3, <1>4, <1>5, <1>6 DEF Answers

LEMMA CancelTokenKeeps ==
    ASSUME Supervised, NEW s \in Sessions, CancelToken(s)
    PROVE  Supervised'
  <1>1. UNCHANGED <<row, phases, agent, sup, registry, cleanups, faults>> BY DEF CancelToken, pty
  <1>2. Types' BY <1>1 DEF Supervised, Types
  <1>3. Attached' BY <1>1 DEF Supervised, Attached
  <1>4. ASSUME NEW u \in Sessions PROVE (Scanned(sup[u], agent[u]) /\ OnRecord(sup[u], row[u], phases[u], faults > 0))'
    BY <1>1 DEF Supervised
  <1> QED BY <1>2, <1>3, <1>4 DEF Supervised

-----------------------------------------------------------------------------
(* The invariant of the specification                                      *)

LEMMA SupervisedInit == Init => Supervised
  <1> SUFFICES ASSUME Init PROVE Supervised OBVIOUS
  <1>1. /\ sup = [s \in Sessions |-> NewSup] /\ agent = [s \in Sessions |-> NewAgent]
        /\ row = [s \in Sessions |-> "absent"] /\ phases = [s \in Sessions |-> <<>>]
        /\ registry = None /\ cleanups = 0 /\ faults = 0
    BY DEF Init
  <1>2. Types
    <2>1. "absent" \in Statuses /\ <<>> \in Seq(Phases) BY DEF Statuses
    <2> QED BY <1>1, <2>1, News DEF Types
  <1>3. NewSup.pc = "none" /\ NewSup.kind = "pty" /\ NewSup.rx = "unsent" /\ NewSup.stash = "empty" BY DEF NewSup
  <1>4. Attached BY <1>1, <1>3 DEF Attached, Tended, Working
  <1>5. ASSUME NEW s \in Sessions PROVE Scanned(sup[s], agent[s]) /\ OnRecord(sup[s], row[s], phases[s], faults > 0)
    BY <1>1, <1>3 DEF Scanned, OnRecord, Idle, Tended, Working
  <1> QED BY <1>2, <1>4, <1>5 DEF Supervised

LEMMA SupervisedStep == Supervised /\ [Next]_vars => Supervised'
  <1> SUFFICES ASSUME Supervised, [Next]_vars PROVE Supervised' OBVIOUS
  <1>1. CASE UNCHANGED vars
    <2>1. UNCHANGED <<row, phases, agent, sup, registry, cleanups, faults>> BY <1>1 DEF vars, bounds
    <2>2. Types' /\ Attached' BY <2>1 DEF Supervised, Types, Attached
    <2>3. ASSUME NEW u \in Sessions PROVE (Scanned(sup[u], agent[u]) /\ OnRecord(sup[u], row[u], phases[u], faults > 0))'
      BY <2>1 DEF Supervised
    <2> QED BY <2>2, <2>3 DEF Supervised
  <1>2. ASSUME NEW s \in Sessions, Supervise(s) PROVE Supervised'
    <2>1. CASE RecordSpawning(s) BY <2>1, RecordSpawningKeeps
    <2>2. CASE Spawn(s) BY <2>2, SpawnKeeps
    <2>3. CASE RowRunning(s) BY <2>3, RowRunningKeeps
    <2>4. CASE RecordRunning(s) BY <2>4, RecordRunningKeeps
    <2>5. CASE MarkerArm(s) BY <2>5, MarkerArmKeeps
    <2>6. CASE MarkerStash(s) BY <2>6, MarkerStashKeeps
    <2>7. CASE CancelArm(s) BY <2>7, StopKeeps DEF CancelArm, EndPhases
    <2>8. CASE Drain(s) BY <2>8, DrainKeeps
    <2>9. CASE RowEnd(s) BY <2>9, RowEndKeeps
    <2>10. CASE RecordEnd(s) BY <2>10, EndRecorded
    <2>11. ASSUME NEW p \in EndPhases, ExitArm(s, p) PROVE Supervised' BY <2>11, ExitArmKeeps
    <2>12. ASSUME NEW p \in EndPhases, ChildLeaves(s, p) PROVE Supervised' BY <2>12, TurnKeeps
    <2>13. CASE PollStarts(s) BY <2>13, WaitKeeps
    <2> QED BY <1>2, <2>1, <2>2, <2>3, <2>4, <2>5, <2>6, <2>7, <2>8, <2>9, <2>10, <2>11, <2>12, <2>13 DEF Supervise
  <1>3. ASSUME NEW s \in Sessions, Agent(s) PROVE Supervised'
    <2>1. CASE Eof(s) BY <2>1, EofKeeps
    <2>2. CASE Exit(s) BY <2>2, ExitKeeps
    <2>3. ASSUME NEW m \in Markers, Say(s, m) PROVE Supervised' BY <2>3, SayKeeps
    <2> QED BY <1>3, <2>1, <2>2, <2>3 DEF Agent
  <1>4. ASSUME NEW s \in Sessions, DeadlineArm(s) PROVE Supervised' BY <1>4, StopKeeps DEF DeadlineArm, EndPhases
  <1>5. ASSUME NEW s \in Sessions, NEW k \in Kinds, Insert(s, k) PROVE Supervised'
    <2>1. k \in {"pty", "structured", "background"} BY KindAssumption
    <2> QED BY <1>5, <2>1, InsertKeeps
  <1>6. ASSUME NEW s \in Sessions, SpawnFails(s) \/ UpdateFails(s) \/ CancelToken(s) PROVE Supervised'
    BY <1>6, SpawnFailsKeeps, UpdateFailsKeeps, CancelTokenKeeps
  <1>7. ASSUME NEW s \in Sessions, Streams(s) PROVE Supervised'
    <2>1. CASE AwaitChild(s) \/ Jam(s) BY <2>1, WaitKeeps
    <2>2. ASSUME NEW p \in EndPhases, TurnEnds(s, p) PROVE Supervised' BY <2>2, TurnKeeps
    <2> QED BY <1>7, <2>1, <2>2 DEF Streams
  <1>8. CASE Next BY <1>2, <1>3, <1>4, <1>5, <1>6, <1>7, <1>8, AnswersKeeps, CleanupKeeps, CrashKeeps DEF Next
  <1> QED BY <1>1, <1>8

LEMMA SupervisedHolds == Spec => []Supervised
  <1> QED BY SupervisedInit, SupervisedStep, PTL DEF Spec

\* Whatever ends a session on a terminal or of a structured turn (its agent's exit
\* or marker, the wall clock, a cancel), the result its launcher gets is what the
\* scanner made of all that was printed.
THEOREM StepResultKeptHolds == Spec => []StepResultKept
  <1>1. Supervised => StepResultKept
    <2> SUFFICES ASSUME Supervised, NEW s \in Sessions, sup[s].pc \in {"rowEnd", "end"},
                        sup[s].kind \in {"pty", "structured"}
                 PROVE  sup[s].marker = agent[s].said
      BY DEF StepResultKept
    <2> QED BY Known DEF Scanned
  <1> QED BY <1>1, SupervisedHolds, PTL

\* A terminal at work is the run's terminal unless another session of the run has
\* started, and without failures a terminal that is over has a timer to remove it.
THEOREM RegistryFollowsHolds == Spec => []RegistryFollows
  <1>1. Supervised => RegistryFollows
    <2> SUFFICES ASSUME Supervised PROVE RegistryFollows OBVIOUS
    <2>1. ASSUME NEW s \in Sessions, sup[s].kind = "pty", sup[s].pc \in {"rowRunning", "running", "work", "drain"}
          PROVE  registry = s \/ \E u \in Sessions \ {s} : agent[u].open \/ phases[u] # <<>>
      BY <2>1 DEF Supervised, Attached, Tended, Working
    <2> QED BY <2>1 DEF RegistryFollows, Supervised, Attached
  <1> QED BY <1>1, SupervisedHolds, PTL

-----------------------------------------------------------------------------
(* Supervisor implements SessionContract                                   *)

\* A write fails, or nothing that is observed changes.
LEMMA Unobserved ==
    ASSUME Supervised, UNCHANGED <<row, phases>>, faults' \in Nat, faults' >= faults
    PROVE  [Contract!Next]_(Contract!vars)
  <1>1. faults \in Nat BY DEF Supervised, Types
  <1>2. CASE faults' > 0 BY <1>2 DEF Contract!Next, Contract!Lose
  <1>3. CASE ~(faults' > 0)
    <2>1. (faults' > 0) = (faults > 0) BY <1>1, <1>3
    <2> QED BY <2>1 DEF Contract!vars
  <1> QED BY <1>2, <1>3

LEMMA StepObserved == Supervised /\ [Next]_vars => [Contract!Next]_(Contract!vars)
  <1> SUFFICES ASSUME Supervised, [Next]_vars PROVE [Contract!Next]_(Contract!vars) OBVIOUS
  <1>0. faults \in Nat BY DEF Supervised, Types
  <1>1. CASE UNCHANGED vars BY <1>0, <1>1, Unobserved DEF vars, bounds
  <1>2. ASSUME NEW s \in Sessions, NEW k \in Kinds, Insert(s, k) PROVE Contract!Next
    <2>1. row[s] = "absent" BY <1>2, Known DEF Insert, MayLaunch, OnRecord, Working
    <2> QED BY <1>2, <2>1 DEF Insert, bounds, Contract!Next, Contract!Insert
  <1>3. ASSUME NEW s \in Sessions, RowRunning(s) PROVE Contract!Next
    <2>1. row[s] = "starting" BY <1>3, Known DEF RowRunning, Write, OnRecord, Working
    <2> QED BY <1>3, <2>1 DEF RowRunning, Write, bounds, Contract!Next, Contract!Write
  <1>4. ASSUME NEW s \in Sessions, RowEnd(s) PROVE Contract!Next
    <2>1. sup[s].phase \in EndPhases /\ Len(phases[s]) = 2 /\ (row[s] = "running" \/ (faults > 0 /\ row[s] = "starting"))
      BY <1>4, Known, Fields DEF RowEnd, Write, OnRecord, Working
    <2>2. row' = [row EXCEPT ![s] = RowOf(sup[s].phase)] /\ UNCHANGED <<phases, faults>> BY <1>4 DEF RowEnd, Write, bounds
    <2>3. row[s] \in {"running"} \cup (IF faults > 0 THEN {"starting"} ELSE {}) BY <2>1
    <2>4. \E p \in EndPhases : row' = [row EXCEPT ![s] = RowOf(p)] BY <2>1, <2>2
    <2>5. Contract!Write(s) BY <2>1, <2>2, <2>3, <2>4 DEF Contract!Write
    <2> QED BY <2>5 DEF Contract!Next
  <1>5. ASSUME NEW s \in Sessions, RecordSpawning(s) PROVE Contract!Next
    <2>1. phases[s] = <<>> /\ row[s] = "starting" BY <1>5, Known DEF RecordSpawning, Record, OnRecord, Working
    <2>2. Contract!Publish(s, "spawning") BY <1>5, <2>1 DEF RecordSpawning, Record, bounds, Contract!Publish
    <2> QED BY <2>2 DEF Contract!Next
  <1>6. ASSUME NEW s \in Sessions, RecordRunning(s) PROVE Contract!Next
    <2>1. phases[s] = <<"spawning">> /\ (row[s] = "running" \/ faults > 0) BY <1>6, Known DEF RecordRunning, Record, OnRecord, Working
    <2>2. Contract!Publish(s, "running") BY <1>6, <2>1 DEF RecordRunning, Record, bounds, Contract!Publish
    <2> QED BY <2>2 DEF Contract!Next
  <1>7. ASSUME NEW s \in Sessions, RecordEnd(s) PROVE Contract!Next
    <2>1. sup[s].phase \in EndPhases /\ Len(phases[s]) = 2 /\ (row[s] = RowOf(sup[s].phase) \/ faults > 0)
      BY <1>7, Known, Fields DEF RecordEnd, Record, OnRecord, Working
    <2>2. phases' = [phases EXCEPT ![s] = Append(@, sup[s].phase)] /\ UNCHANGED <<row, faults>>
      BY <1>7 DEF RecordEnd, Record, bounds
    <2>3. Contract!Publish(s, sup[s].phase) BY <2>1, <2>2 DEF Contract!Publish
    <2> QED BY <2>1, <2>3 DEF Contract!Next
  <1>8. ASSUME NEW s \in Sessions,
               \/ Spawn(s) \/ MarkerArm(s) \/ MarkerStash(s) \/ CancelArm(s) \/ Drain(s)
               \/ PollStarts(s) \/ (\E p \in EndPhases : ExitArm(s, p) \/ ChildLeaves(s, p))
        PROVE  UNCHANGED <<row, phases, faults>>
    BY <1>8 DEF Spawn, MarkerArm, MarkerStash, CancelArm, Stop, Drain, PollStarts, ExitArm, ChildLeaves, bounds
  <1>9. ASSUME NEW s \in Sessions, Agent(s) \/ Answers(s) \/ Streams(s) \/ DeadlineArm(s)
        PROVE  UNCHANGED <<row, phases, faults>>
    BY <1>9 DEF Agent, Eof, Exit, Say, Answers, PollSeen, PollMissed, PollFailed, PollCounts, PollEnds, Stopped,
               Streams, AwaitChild, Jam, TurnEnds, DeadlineArm, Stop, bounds
  <1>10. ASSUME NEW s \in Sessions, SpawnFails(s) \/ CancelToken(s) PROVE UNCHANGED <<row, phases, faults>>
    BY <1>10 DEF SpawnFails, CancelToken, bounds
  <1>11. ASSUME (\E s \in Sessions : UpdateFails(s)) \/ Crash
         PROVE  UNCHANGED <<row, phases>> /\ faults' \in Nat /\ faults' >= faults
    BY <1>0, <1>11 DEF UpdateFails, Crash, Fault
  <1>12. CASE Cleanup BY <1>0, <1>12, Unobserved DEF Cleanup, bounds
  <1>13. CASE Next
    <2>1. ASSUME NEW s \in Sessions, Supervise(s) PROVE [Contract!Next]_(Contract!vars)
      BY <1>0, <1>3, <1>4, <1>5, <1>6, <1>7, <1>8, <2>1, Unobserved DEF Supervise
    <2> QED BY <1>0, <1>2, <1>9, <1>10, <1>11, <1>12, <1>13, <2>1, Unobserved DEF Next
  <1> QED BY <1>1, <1>13

\* Whichever runner drives a session and whichever of its ends comes first, its row
\* goes forward only, its phases are published once each and in order, and each
\* after the row that agrees with it unless a write was lost.
THEOREM SessionContractRefined == Spec => ImplementsContract
  <1>1. Init => Contract!Init
    BY DEF Init, Contract!Init
  <1> QED BY <1>1, SupervisedHolds, StepObserved, PTL DEF Spec, ImplementsContract, Contract!Spec
-----------------------------------------------------------------------------
(* AgentRules: from a step of a recipe to the agent that runs it           *)

LEMMA RunnersAreModes ==
    ASSUME NEW p \in Provider
    PROVE  /\ Runs(p) \subseteq Mode /\ default_for(p) \in Runs(p)
           /\ \A m \in Runs(p) : DefaultBilling(p, m) \in Billing
  BY DEF Runs, Mode, Provider, default_for, DefaultBilling, Billing

LEMMA AgentOfCatalog ==
    ASSUME NEW Names, NEW Servers, NEW catalog \in Catalogs(Names, Servers), NEW n \in DOMAIN catalog
    PROVE  catalog[n] \in Agents(Servers)
  BY DEF Catalogs

\* RoleRouter::resolve yields an agent of the catalog with a runner of its
\* provider, a mode and a billing of its own.
LEMMA ResolvedFromCatalog ==
    ASSUME NEW Names, NEW Servers, NEW catalog \in Catalogs(Names, Servers),
           NEW policy, NEW name, resolve(name, catalog, policy).ok
    PROVE  LET r == resolve(name, catalog, policy)
           IN  /\ name \in DOMAIN catalog /\ is_allowed(policy, name)
               /\ r.agent \in Agents(Servers) /\ r.agent.provider = catalog[name].provider
               /\ r.agent.mode \in Runs(r.agent.provider) /\ r.agent.billing \in Billing
  <1> DEFINE def  == catalog[name]
             mode == IF def.mode = Unset THEN default_for(def.provider) ELSE def.mode
             pays == resolve_billing(def.provider, mode, def.billing)
  <1>1. name \in DOMAIN catalog
    BY DEF resolve, Refused
  <1>2. is_allowed(policy, name)
    BY <1>1 DEF resolve, Refused
  <1>3. mode \in Runs(def.provider)
    BY <1>1, <1>2 DEF resolve, Refused
  <1>4. def \in Agents(Servers) /\ def.provider \in Provider
    BY <1>1, AgentOfCatalog DEF Agents
  <1>5. mode \in Mode /\ pays \in Billing
    BY <1>3, <1>4, RunnersAreModes DEF resolve_billing, Agents
  <1>6. resolve(name, catalog, policy) = Recipe(def, mode, pays)
    BY <1>1, <1>2, <1>3 DEF resolve
  <1>7. [def EXCEPT !.mode = mode, !.billing = pays] \in Agents(Servers)
    BY <1>4, <1>5 DEF Agents
  <1>8. /\ [def EXCEPT !.mode = mode, !.billing = pays].mode = mode
        /\ [def EXCEPT !.mode = mode, !.billing = pays].billing = pays
        /\ [def EXCEPT !.mode = mode, !.billing = pays].provider = def.provider
    BY <1>4 DEF Agents
  <1>9. resolve(name, catalog, policy).agent = [def EXCEPT !.mode = mode, !.billing = pays]
    BY <1>6 DEF Recipe
  <1> HIDE DEF mode, pays
  <1> QED
    BY <1>1, <1>2, <1>3, <1>5, <1>7, <1>8, <1>9

\* resolve_catalog_agent puts the runner of the step before that of the agent.
LEMMA CatalogStep ==
    ASSUME NEW Names, NEW Servers, NEW catalog \in Catalogs(Names, Servers),
           NEW policy, NEW step \in FrozenSteps(Names), FromCatalog(step, catalog, policy).ok
    PROVE  LET a == FromCatalog(step, catalog, policy).agent
           IN  /\ is_allowed(policy, step.agent_ref) /\ step.agent_ref \in DOMAIN catalog
               /\ a \in Agents(Servers) /\ a.provider = catalog[step.agent_ref].provider
               /\ a.mode \in Runs(a.provider) /\ a.billing \in Billing
               /\ runner_mode(step.executor) # Unset => a.mode = runner_mode(step.executor)
  <1> DEFINE r    == resolve(step.agent_ref, catalog, policy)
             mode == runner_mode(step.executor)
             pays == resolve_billing(r.agent.provider, mode, catalog[step.agent_ref].billing)
  <1>1. r.ok
    <2>1. CASE ~r.ok
      BY <2>1 DEF FromCatalog
    <2> QED
      BY <2>1
  <1>2. /\ step.agent_ref \in DOMAIN catalog /\ is_allowed(policy, step.agent_ref)
        /\ r.agent \in Agents(Servers) /\ r.agent.provider = catalog[step.agent_ref].provider
        /\ r.agent.mode \in Runs(r.agent.provider) /\ r.agent.billing \in Billing
    BY <1>1, ResolvedFromCatalog
  <1>3. CASE mode = Unset
    <2>1. FromCatalog(step, catalog, policy) = r
      BY <1>3 DEF FromCatalog
    <2> QED
      BY <1>2, <1>3, <2>1
  <1>4. CASE mode # Unset
    <2>1. mode \in Runs(r.agent.provider)
      BY <1>1, <1>4 DEF FromCatalog, Refused
    <2>2. FromCatalog(step, catalog, policy) = Recipe(r.agent, mode, pays)
      BY <1>1, <1>4, <2>1 DEF FromCatalog
    <2>3. r.agent.provider \in Provider /\ catalog[step.agent_ref] \in Agents(Servers)
      BY <1>2, AgentOfCatalog DEF Agents
    <2>4. mode \in Mode /\ pays \in Billing
      BY <2>1, <2>3, RunnersAreModes DEF resolve_billing, Agents
    <2>5. [r.agent EXCEPT !.mode = mode, !.billing = pays] \in Agents(Servers)
      BY <1>2, <2>4 DEF Agents
    <2>6. /\ [r.agent EXCEPT !.mode = mode, !.billing = pays].mode = mode
          /\ [r.agent EXCEPT !.mode = mode, !.billing = pays].billing = pays
          /\ [r.agent EXCEPT !.mode = mode, !.billing = pays].provider = r.agent.provider
      BY <1>2 DEF Agents
    <2>7. FromCatalog(step, catalog, policy).agent = [r.agent EXCEPT !.mode = mode, !.billing = pays]
      BY <2>2 DEF Recipe
    <2> HIDE DEF r, pays
    <2> QED
      BY <1>2, <2>1, <2>4, <2>5, <2>6, <2>7
  <1> QED
    BY <1>3, <1>4

\* resolve_dynamic_agent needs nothing but the step.
LEMMA DynamicStep ==
    ASSUME NEW Names, NEW Servers, NEW step \in FrozenSteps(Names), FromStep(step).ok
    PROVE  LET a == FromStep(step).agent
           IN  /\ a \in Agents(Servers) /\ a.provider = step.provider
               /\ a.mode = runner_mode(step.executor) /\ a.mode \in Runs(a.provider)
               /\ a.billing \in Billing
  <1> DEFINE mode == runner_mode(step.executor)
  <1>1. step.provider # Unset /\ mode # Unset /\ mode \in Runs(step.provider)
    BY DEF FromStep, Refused
  <1>2. step.provider \in Provider
    BY <1>1 DEF FrozenSteps
  <1>3. mode \in Mode /\ DefaultBilling(step.provider, mode) \in Billing
    BY <1>1, <1>2, RunnersAreModes
  <1> QED
    BY <1>1, <1>2, <1>3 DEF FromStep, Agents, Linear, Backend

-----------------------------------------------------------------------------
\* "apply_runner_mode received an invalid pair: RoleRouter::resolve must reject
\* this": whichever of its three ways a step is resolved by, and whatever was
\* edited or deleted since it was composed, its agent has a runner of its
\* provider, and it is the one that the executor of the step names, if it does.
THEOREM ResolvedHasRunner ==
    ASSUME NEW Names, NEW Servers, NEW catalog \in Catalogs(Names, Servers),
           NEW policy, NEW step \in FrozenSteps(Names), resolve_step_agent(step, catalog, policy).ok
    PROVE  LET a == resolve_step_agent(step, catalog, policy).agent
           IN  /\ a \in Agents(Servers) /\ a.mode \in Runs(a.provider) /\ a.billing \in Billing
               /\ runner_mode(step.executor) # Unset => a.mode = runner_mode(step.executor)
  <1>1. CASE step.agent_ref # Unset /\ step.agent_ref \in DOMAIN catalog
    <2> DEFINE r == FromCatalog(step, catalog, policy)
    <2>1. resolve_step_agent(step, catalog, policy) = r
      BY <1>1 DEF resolve_step_agent
    <2>2. r.ok
      BY <2>1
    <2>3. /\ r.agent \in Agents(Servers) /\ r.agent.mode \in Runs(r.agent.provider)
          /\ r.agent.billing \in Billing
          /\ runner_mode(step.executor) # Unset => r.agent.mode = runner_mode(step.executor)
      BY <1>1, <2>2, CatalogStep
    <2> HIDE DEF r
    <2> QED
      BY <2>1, <2>3
  <1>2. CASE ~(step.agent_ref # Unset /\ step.agent_ref \in DOMAIN catalog) /\ step.executor # Unset
    BY <1>2, DynamicStep DEF resolve_step_agent
  <1>3. CASE ~(step.agent_ref # Unset /\ step.agent_ref \in DOMAIN catalog) /\ step.executor = Unset
    <2>1. resolve_step_agent(step, catalog, policy) = resolve(step.agent_name, catalog, policy)
      BY <1>3 DEF resolve_step_agent
    <2>2. resolve(step.agent_name, catalog, policy).ok
      BY <2>1
    <2>3. /\ resolve(step.agent_name, catalog, policy).agent \in Agents(Servers)
          /\ resolve(step.agent_name, catalog, policy).agent.mode
                 \in Runs(resolve(step.agent_name, catalog, policy).agent.provider)
          /\ resolve(step.agent_name, catalog, policy).agent.billing \in Billing
      BY <2>2, ResolvedFromCatalog
    <2>4. runner_mode(step.executor) = Unset
      BY <1>3 DEF runner_mode, Unset
    <2> QED
      BY <2>1, <2>3, <2>4
  <1> QED
    BY <1>1, <1>2, <1>3

\* "Only roles authorised by the run policy": so it is for the agents of the
\* catalog. A step that was composed without one, or whose agent was deleted,
\* asks no policy.
THEOREM PolicyGuardsCatalog ==
    ASSUME NEW Names, NEW Servers, NEW catalog \in Catalogs(Names, Servers),
           NEW policy, NEW step \in FrozenSteps(Names), resolve_step_agent(step, catalog, policy).ok
    PROVE  /\ step.agent_ref # Unset /\ step.agent_ref \in DOMAIN catalog => is_allowed(policy, step.agent_ref)
           /\ step.agent_ref = Unset /\ step.executor = Unset => is_allowed(policy, step.agent_name)
  <1>1. ASSUME step.agent_ref # Unset, step.agent_ref \in DOMAIN catalog PROVE is_allowed(policy, step.agent_ref)
    <2>1. FromCatalog(step, catalog, policy).ok
      BY <1>1 DEF resolve_step_agent
    <2> QED
      BY <2>1, CatalogStep
  <1>2. ASSUME step.agent_ref = Unset, step.executor = Unset PROVE is_allowed(policy, step.agent_name)
    <2>1. resolve(step.agent_name, catalog, policy).ok
      BY <1>2 DEF resolve_step_agent
    <2> QED
      BY <2>1, ResolvedFromCatalog
  <1> QED
    BY <1>1, <1>2

\* A segment that timed out leaves a key for the next one, which resolves its
\* step again: whatever became of the catalog and the policy in between, a step
\* with a structured executor goes to the adapter that the executor alone names,
\* so the key goes back to the provider it came from.
THEOREM ResumeKeepsProvider ==
    ASSUME NEW Names, NEW Servers, NEW catalog \in Catalogs(Names, Servers),
           NEW policy, NEW step \in FrozenSteps(Names), step.executor \in {"codex_structured", "claude_workflow"},
           resolve_step_agent(step, catalog, policy).ok
    PROVE  LET a == resolve_step_agent(step, catalog, policy).agent
           IN  /\ a.provider = IF step.executor = "codex_structured" THEN "codex" ELSE "claude"
               /\ Driver(a, "recipe") = "adapter"
  <1> DEFINE a == resolve_step_agent(step, catalog, policy).agent
  <1>1. /\ runner_mode(step.executor) # Unset
        /\ runner_mode(step.executor)
             = IF step.executor = "codex_structured" THEN "exec_json" ELSE "print_stream_json"
    BY DEF runner_mode, Unset
  <1>2. /\ a \in Agents(Servers) /\ a.mode \in Runs(a.provider) /\ a.billing \in Billing
        /\ runner_mode(step.executor) # Unset => a.mode = runner_mode(step.executor)
    BY ResolvedHasRunner
  <1>3. a.provider \in Provider
    BY <1>2 DEF Agents
  <1> HIDE DEF a
  <1> QED
    BY <1>1, <1>2, <1>3 DEF Runs, Provider, Driver, is_background, is_structured, a

\* "Missing from the catalog = hard-deleted after compose": a step whose agent
\* is gone is resolved from what was frozen into it if its own provider has its
\* runner, which resolve_snapshot does not compare, and not otherwise.
THEOREM DeletedAgentResolves ==
    ASSUME NEW Names, NEW Servers, NEW catalog \in Catalogs(Names, Servers),
           NEW policy, NEW step \in FrozenSteps(Names), step.agent_ref \notin DOMAIN catalog, step.executor # Unset
    PROVE  resolve_step_agent(step, catalog, policy).ok
             <=> step.provider # Unset /\ runner_mode(step.executor) \in Runs(step.provider)
  <1>1. resolve_step_agent(step, catalog, policy) = FromStep(step)
    BY DEF resolve_step_agent
  <1>2. step.provider \in Provider \cup {Unset} /\ Unset \notin Runs("claude") /\ Unset \notin Runs("codex")
    BY DEF FrozenSteps, Runs, Unset
  <1> QED
    BY <1>1, <1>2 DEF FromStep, Refused, Provider

-----------------------------------------------------------------------------
\* "No servers used" is what an audit says of Codex, and no audit names a server
\* that the policy does not or the registry does not know; the mode on record
\* claims live access to Linear only if the server for it is on record too.
THEOREM AuditIsBounded ==
    ASSUME NEW Servers, NEW role \in Agents(Servers), NEW known, NEW client \in BOOLEAN,
           NEW writable \in BOOLEAN
    PROVE  LET plan == SpawnPlan(role, known, client, writable)
           IN  /\ plan.servers \subseteq role.servers \cap known
               /\ role.provider = "codex" \/ ~role.mcp => plan.servers = {}
               /\ plan.directive <=> plan.mode = "snapshot_plus_mcp"
               /\ plan.mode = "snapshot_plus_mcp" => "linear" \in plan.servers /\ client
  <1>1. Audited(role, known, writable) \subseteq role.servers \cap known
    BY DEF Audited, resolve_servers
  <1>2. role.provider = "codex" \/ ~role.mcp => Audited(role, known, writable) = {}
    BY DEF Audited, resolve_servers, is_active
  <1>3. EffectiveMode(role, known, client, writable) = "snapshot_plus_mcp"
          => "linear" \in Audited(role, known, writable) /\ client
    BY DEF EffectiveMode, AfterSnapshot
  <1> QED
    BY <1>1, <1>2, <1>3 DEF SpawnPlan

\* "The persisted audit row reflects what the child saw" holds of a terminal
\* alone: the config of the servers on record is on its command line, and on no
\* command line of an adapter or of a background session.
THEOREM AuditReachesTerminals ==
    ASSUME NEW Servers, NEW role \in Agents(Servers), NEW engine \in {"playbook", "recipe"},
           NEW plan, NEW resume \in BOOLEAN
    PROVE  "--mcp-config" \in CommandLine(role, engine, plan, resume)
             <=> Driver(role, engine) = "terminal" /\ plan.servers # {}
  <1>1. CASE Driver(role, engine) = "terminal"
    <2>1. CommandLine(role, engine, plan, resume) = Argv(role, plan)
      BY <1>1 DEF CommandLine
    <2> QED
      BY <1>1, <2>1 DEF Argv
  <1>2. CASE Driver(role, engine) # "terminal"
    <2>1. CommandLine(role, engine, plan, resume) = OwnArgv(role, engine, resume)
      BY <1>2 DEF CommandLine
    <2> QED
      BY <1>2, <2>1 DEF OwnArgv
  <1> QED
    BY <1>1, <1>2

\* The prompt goes one way, as an argument or as input, never both and never
\* neither: build_launch_config, the adapters and the background runner agree.
THEOREM PromptGoesOneWay ==
    ASSUME NEW Servers, NEW role \in Agents(Servers), role.mode \in Runs(role.provider),
           NEW engine \in {"playbook", "recipe"}, NEW plan, NEW resume \in BOOLEAN
    PROVE  "prompt" \in CommandLine(role, engine, plan, resume) <=> ~Stdin(role, engine)
  <1>1. role.provider \in Provider /\ role.mode \in Runs(role.provider)
    BY DEF Agents
  <1>2. CASE Driver(role, engine) = "terminal"
    <2>1. CommandLine(role, engine, plan, resume) = Argv(role, plan)
      BY <1>2 DEF CommandLine
    <2>2. Stdin(role, engine) <=> Typed(role)
      BY <1>2 DEF Stdin
    <2>3. "prompt" \in Argv(role, plan) <=> ~Typed(role)
      BY DEF Argv
    <2> QED
      BY <2>1, <2>2, <2>3
  <1>3. CASE Driver(role, engine) = "background"
    BY <1>3 DEF CommandLine, OwnArgv, Stdin
  <1>4. CASE Driver(role, engine) = "adapter"
    BY <1>4 DEF CommandLine, OwnArgv, Stdin
  <1> QED
    BY <1>2, <1>3, <1>4 DEF Driver

\* "A double invocation of the same skill" does not happen: whoever drives the
\* agent, its prompt brings one directive at most, and a lean prompt, which is
\* nothing else, brings its own.
THEOREM OneDirective ==
    ASSUME NEW role, NEW engine, NEW lean \in BOOLEAN, NEW workspace \in BOOLEAN, NEW plan
    PROVE  LET seen == PromptSeen(role, engine, BasePrompt(lean, workspace, plan)).directives
           IN  /\ \A x, y \in seen : x = y
               /\ lean => seen = {"lean"}
  <1> DEFINE base == BasePrompt(lean, workspace, plan)
  <1>1. base.directives = IF lean THEN {"lean"} ELSE {}
    BY DEF BasePrompt
  <1>2. [base EXCEPT !.directives = {role.backend}].directives = {role.backend}
    BY DEF BasePrompt
  <1>3. PromptSeen(role, engine, base).directives \in {base.directives, {role.backend}}
    BY <1>2 DEF PromptSeen, apply_claude_backend
  <1>4. lean => PromptSeen(role, engine, base) = base
    BY <1>1 DEF PromptSeen, apply_claude_backend
  <1> HIDE DEF base
  <1> QED
    BY <1>1, <1>3, <1>4 DEF base

\* "A `/name` directive that the worktree cannot resolve" is never sent: a lean
\* prompt names a skill whose body is on disk, and a step composed from a skill
\* of its own gets one whenever that body could be put there.
THEOREM LeanNamesWhatIsThere ==
    ASSUME NEW Names, NEW Servers, NEW enabled \in SUBSET FrozenSteps(Names), NEW step \in enabled,
           NEW catalog \in Catalogs(Names, Servers),
           NEW attached, NEW usable \in SUBSET Names
    PROVE  LET there == Materialized(enabled, catalog, attached, usable)
           IN  /\ Lean(step, there) => step.skill_id \in usable
               /\ /\ step.executor = "interactive_pty" /\ step.skill \in {"installed", "custom"}
                  /\ step.agent_ref = Unset /\ step.skill_id \in usable
                  => Lean(step, there)
  <1>1. Materialized(enabled, catalog, attached, usable) \subseteq usable
    BY DEF Materialized
  <1>2. ASSUME step.skill \in {"installed", "custom"}, step.agent_ref = Unset, step.skill_id \in usable
        PROVE  step.skill_id \in Materialized(enabled, catalog, attached, usable)
    <2>1. step.skill_id \in Wanted(step, catalog, attached)
      BY <1>2 DEF Wanted
    <2> QED
      BY <1>2, <2>1 DEF Materialized
  <1> QED
    BY <1>1, <1>2 DEF Lean

\* "So the operator never sees a fake Resume badge" (cli_resume.rs:112-113).  The
\* menu looks at the conversation, the spawn at the run's snapshot first: a
\* badge is fake exactly if the snapshot knows a provider that takes no key, or
\* has none, and a resume is not announced exactly if only the snapshot can.
THEOREM BadgeIsTheChats ==
    ASSUME NEW chat \in Chats, NEW snapshot \in Snapshots
    PROVE  /\ Badge(chat) /\ ~Resumes(chat, snapshot)
                <=> /\ chat.provider = "claude" /\ chat.key
                    /\ snapshot.provider = "codex" \/ (snapshot.provider = "claude" /\ ~snapshot.key)
           /\ Resumes(chat, snapshot) /\ ~Badge(chat)
                <=> /\ snapshot.provider = "claude" /\ snapshot.key
                    /\ chat.provider = "codex" \/ ~chat.key
  BY DEF Badge, Resumes, resolve_resume_target, resume_supported, Chats, Snapshots, Provider, Unset

-----------------------------------------------------------------------------
(* OutcomeRules: from the end of an agent to the outcome of its step       *)

\* step_failure_classifier.rs: a step is complete only if the agent says so, in
\* time, with no exit code but zero, and, for an implement step, with changes.
THEOREM CleanIsEarned ==
    ASSUME NEW r \in AgentResults, NEW kind, NEW w, NEW clean
    PROVE  process_completion(r, kind, w, clean) = "Completed"
             <=> /\ r.phase # "TimedOut" /\ r.exit # "nonzero" /\ r.marker = "completed"
                 /\ kind = "implement" => has_changes(w, clean)
  <1>1. r.marker \in Marker
    BY DEF AgentResults
  <1> QED
    BY <1>1 DEF process_completion, classify, classify_from_hints, classify_marker_outcome, disposition,
                probe_for, Marker

\* Once a session ran, only the agent's own word ends its step for good: a
\* quota, a login, a timeout, a bad marker can all be retried.
THEOREM OnlyTheAgentFails ==
    ASSUME NEW r \in AgentResults, NEW kind, NEW w, NEW clean
    PROVE  process_completion(r, kind, w, clean) = "Failed"
             <=> r.phase # "TimedOut" /\ r.exit # "nonzero" /\ r.marker = "failed"
  <1>1. r.marker \in Marker
    BY DEF AgentResults
  <1> QED
    BY <1>1 DEF process_completion, classify, classify_from_hints, classify_marker_outcome, disposition,
                Marker

\* The transcript is only read where the marker is silent or the exit code
\* speaks against it: an agent that talks about quotas and succeeds, succeeds.
THEOREM HintsExplain ==
    ASSUME NEW r \in AgentResults, NEW changed \in BOOLEAN,
           classify(r, changed) \in {"quota_exceeded", "auth_required", "tests_failed"}
    PROVE  /\ r.exit = "nonzero" \/ r.marker = "none"
           /\ r.hints \cap {"quota", "auth", "tests"} # {}
           /\ classify(r, changed) = "auth_required" => "quota" \notin r.hints
  <1>1. r.marker \in Marker
    BY DEF AgentResults
  <1> QED
    BY <1>1 DEF classify, classify_from_hints, classify_marker_outcome, Marker

\* The arm of disposition that its comment calls defensive is not reached, nor
\* do the errors of a spawn come out of a session that ran.
THEOREM CompletedIsNoFailure ==
    ASSUME NEW r \in AgentResults, NEW changed \in BOOLEAN
    PROVE  classify(r, changed)
             \in (Classification \ {"agent_completed", "cli_missing", "spawn_error"}) \cup {"clean"}
  BY DEF AgentResults, classify, classify_from_hints, classify_marker_outcome, Classification

\* For an implement step whose agent did all it should, git decides: the step is
\* complete if tracked files differ from HEAD, or if git could not be started at
\* all (the worktree is gone), and is parked if git ran and found no change, or
\* ran and gave up (no repository).  New files alone and commits park it.
THEOREM TrackedChangesDecide ==
    ASSUME NEW Content, NEW r \in AgentResults, NEW w \in Worktree(Content), NEW clean \in Content,
           r.phase # "TimedOut", r.exit # "nonzero", r.marker = "completed"
    PROVE  process_completion(r, "implement", w, clean)
             = IF ~w.runs \/ (w.repo /\ w.tracked # clean) THEN "Completed" ELSE "NeedsHuman"
  <1>1. has_changes(w, clean) <=> ~w.runs \/ (w.repo /\ w.tracked # clean)
    BY DEF has_changes, DiffQuiet, Worktree
  <1> QED
    BY <1>1 DEF process_completion, classify, classify_marker_outcome, disposition, probe_for, AgentResults

\* launch_task_executor.rs, decide_resume: all three gates, and the one on
\* progress is open when git could not tell.
THEOREM ResumeNeedsAll ==
    ASSUME NEW Content, NEW used \in Nat, NEW max \in Nat, NEW key \in BOOLEAN,
           NEW before \in Worktree(Content), NEW after \in Worktree(Content)
    PROVE  LET prev == compute_diff_snapshot(before)
               now  == compute_diff_snapshot(after)
           IN  /\ decide_resume(used, max, {prev}, now, key) = "resume"
                    <=> used < max /\ ~same_as(prev, now) /\ key
               /\ ~(before.runs /\ before.repo) \/ ~(after.runs /\ after.repo) =>
                      decide_resume(used, max, {prev}, now, key) # "no_progress"
               /\ decide_resume(used, max, {}, now, key) # "no_progress"
  BY DEF decide_resume, same_as, compute_diff_snapshot, Unknown, Worktree

\* agent_supervisor/background.rs: what becomes of a background session.  One
\* that is blocked, stopped or cancelled can be retried, one that is lost cannot;
\* and however it ends, it is never resumed.
THEOREM BackgroundOutcome ==
    ASSUME NEW end \in Ends, NEW marker \in Marker, NEW kind, NEW w, NEW clean,
           NEW used \in Nat, NEW max \in Nat, NEW prev, NEW snapshot
    PROVE  LET r   == Verdict(end, marker)
               out == process_completion(r, kind, w, clean)
           IN  /\ r \in AgentResults
               /\ out = "TimedOut" <=> end = "deadline"
               /\ end \in {"blocked", "stopped", "cancel"} => out = "NeedsHuman"
               /\ end \in {"failed", "lost"} => out = "Failed"
               /\ out = "Completed" => end = "done" /\ marker = "completed"
               /\ decide_resume(used, max, prev, snapshot, r.key) # "resume"
  <1> DEFINE r == Verdict(end, marker)
  <1>1. /\ r.phase = IF end \in {"blocked", "done", "stopped"} THEN "Completed"
                     ELSE IF end \in {"failed", "lost"} THEN "Failed"
                     ELSE IF end = "deadline" THEN "TimedOut" ELSE "Cancelled"
        /\ r.exit = IF end \in {"blocked", "done", "stopped"} THEN "zero" ELSE "none"
        /\ r.marker = IF end = "done" THEN marker
                      ELSE IF end \in {"blocked", "stopped"} THEN "needs_human"
                      ELSE IF end \in {"failed", "lost"} THEN "failed" ELSE "none"
        /\ r.hints = {} /\ r.key = FALSE
    BY DEF Verdict
  <1>2. r \in AgentResults
    BY DEF Verdict, AgentResults, ExitCode, Marker, Patterns
  <1> HIDE DEF r
  <1>3. decide_resume(used, max, prev, snapshot, r.key) # "resume"
    BY <1>1 DEF decide_resume
  <1>4. classify_from_hints(r.hints, "missing_marker") = "missing_marker"
    BY <1>1 DEF classify_from_hints
  <1>5. process_completion(r, kind, w, clean) = "Completed" => end = "done" /\ marker = "completed"
    BY <1>1, <1>2, CleanIsEarned DEF Ends
  <1>6. process_completion(r, kind, w, clean) = "TimedOut" <=> end = "deadline"
    BY <1>1, <1>4 DEF process_completion, classify, classify_marker_outcome, disposition, Ends, Marker
  <1>7. /\ end \in {"blocked", "stopped", "cancel"} => process_completion(r, kind, w, clean) = "NeedsHuman"
        /\ end \in {"failed", "lost"} => process_completion(r, kind, w, clean) = "Failed"
    BY <1>1, <1>4 DEF process_completion, classify, classify_marker_outcome, disposition
  <1> QED
    BY <1>2, <1>3, <1>5, <1>6, <1>7 DEF r

\* claude_background.rs: if the name of a session is its own, the list never
\* yields another one, whether its id is known, is not known yet, or is gone
\* from the list.
THEOREM OwnSession ==
    ASSUME NEW Ids, NEW Names, NEW Cwds, NEW agents \in Seq(Rows(Ids, Names, Cwds)), NEW own \in Ids,
           NEW filter \in Filters(Ids, Names, Cwds), filter.id \in {"", own},
           \A i \in DOMAIN agents : agents[i].name = filter.name => agents[i].id = own
    PROVE  /\ \A a \in select_agent(agents, filter) : a.id = own
           /\ launch("", agents, filter) \subseteq {own}
  <1> DEFINE byName == {i \in DOMAIN agents : agents[i].name = filter.name /\ agents[i].cwd = filter.cwd}
  <1> DEFINE byId   == {i \in DOMAIN agents : agents[i].id = filter.id}
  <1>1. \A a \in FirstAgent(agents, byName) : a.id = own
    BY DEF FirstAgent
  <1>2. \A a \in FirstAgent(agents, byId) : a.id = filter.id
    BY DEF FirstAgent
  <1>3. \A a \in select_agent(agents, filter) : a.id = own
    BY <1>1, <1>2 DEF select_agent
  <1>4. ASSUME NEW a \in select_agent(agents, [filter EXCEPT !.id = ""]) PROVE a.id = own
    <2> DEFINE f == [filter EXCEPT !.id = ""]
    <2>1. f.name = filter.name /\ f.cwd = filter.cwd /\ f.id = ""
      BY DEF Filters
    <2>2. a \in FirstAgent(agents, {i \in DOMAIN agents : agents[i].name = f.name /\ agents[i].cwd = f.cwd})
      BY <1>4, <2>1 DEF select_agent
    <2> QED
      BY <2>1, <2>2, <1>1
  <1>5. launch("", agents, filter) \subseteq {own}
    BY <1>4 DEF launch
  <1> QED
    BY <1>3, <1>5
=============================================================================
