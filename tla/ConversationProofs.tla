-------------------------- MODULE ConversationProofs --------------------------
(***************************************************************************)
(* Theorems about Conversation for any requests, viewers and bounds.  The  *)
(* turns with their requests (TurnsKept) know nothing of the viewers; what *)
(* a viewer is shown (Viewed) rests on the log of its turn, which only     *)
(* grows, and on how much of it has gone over the bus (Sent).              *)
(***************************************************************************)
EXTENDS Conversation, SequenceTheorems, TLAPS

-----------------------------------------------------------------------------
(* The types                                                               *)

LogKinds   == {"data"} \cup EndKinds
TurnStates == {"absent"} \cup TurnActive \cup TurnTerminal
TaskPoints == {"none", "start", "recv", "append", "publish", "fail", "close", "release", "gone"}
Stages     == {"idle", "subscribe", "history", "live", "status", "done", "ended"}
Views      == [at : Stages, turn : Turns, finished : BOOLEAN, resumed : BOOLEAN, last : Nat,
               inbox : Seq(Nat), lagged : BOOLEAN, open : BOOLEAN, seen : Seq(Nat)]

TurnTypes ==
    /\ turns \in [Turns -> TurnStates] /\ log \in [Turns -> Seq(LogKinds)]
    /\ tpc \in [Turns -> TaskPoints] /\ ending \in [Turns -> EndKinds]
    /\ spc \in [Starters -> {"idle", "create", "spawn"}] /\ sturn \in [Starters -> Turns]
    /\ xpc \in [Cancellers -> {"idle", "look", "fire", "mark", "close"}] /\ xturn \in [Cancellers -> Turns]
    /\ faults \in Nat

-----------------------------------------------------------------------------
(* The turns                                                               *)

HasEnd(l) == \E i \in 1 .. Len(l) : l[i] \in EndKinds

\* A turn in state q, with log l and its task at p: events come only from a task
\* that has marked it streaming, and an end is on record only of a settled turn.
TurnKept(q, l, p, calm) ==
    /\ q = "absent" => p = "none"
    /\ p \in {"none", "start"} => l = <<>>
    /\ p = "publish" => l # <<>>
    /\ p \in {"recv", "append", "publish"} => q \notin {"absent", "pending"}
    /\ p \in {"append", "close", "release"} \/ HasEnd(l) => q \in TurnTerminal
    /\ calm /\ p = "gone" => q \in TurnTerminal

\* Requests hold turns that exist, and a turn is spawned by the request that made it.
Requests ==
    /\ \A r \in Starters : spc[r] = "spawn" => turns[sturn[r]] # "absent" /\ tpc[sturn[r]] = "none"
    /\ \A r, u \in Starters : spc[r] = "spawn" /\ spc[u] = "spawn" /\ sturn[r] = sturn[u] => r = u
    /\ \A c \in Cancellers : xpc[c] # "idle" => turns[xturn[c]] # "absent"

TurnsKept ==
    /\ TurnTypes /\ Requests /\ ActiveHasTask
    /\ \A t \in Turns : TurnKept(turns[t], log[t], tpc[t], faults = 0)

-----------------------------------------------------------------------------
(* The viewers                                                             *)

\* Positions that follow each other.
Runs(q) == \A i \in 1 .. Len(q) - 1 : q[i + 1] = q[i] + 1

\* How many of l have gone over the bus while the task is at p.
Sent(l, p) == IF p = "publish" THEN Len(l) - 1 ELSE Len(l)

\* What a client may have been shown, and where its viewer then stands.
InOrder(q)  == Runs(q) /\ (q # <<>> => q[1] \in {0, 1})
AtLatest(w) == w.last = IF w.seen = <<>> THEN 0 ELSE Latest(w)

\* A viewer w of a turn with k events, of which n have gone over the bus.  What
\* waits for it joins what it was shown, and once it listens nothing that was sent
\* is missing between the two.
Viewed(w, k, n) ==
    /\ InOrder(w.seen) /\ (w.at = "idle" => w.seen = <<>>)
    /\ w.at \in {"subscribe", "history", "live"} => AtLatest(w)
    /\ w.at \in {"subscribe", "history"} => (w.resumed <=> w.seen # <<>>)
    /\ w.at \notin {"history", "live"} => ~w.open
    /\ w.at = "subscribe" => w.inbox = <<>> /\ ~w.lagged
    /\ w.at \in {"history", "live"} =>
          /\ Runs(w.inbox) /\ \A i \in 1 .. Len(w.inbox) : w.inbox[i] < k
          /\ w.open /\ w.inbox # <<>> => w.inbox[Len(w.inbox)] = n - 1
    /\ w.at = "live" /\ ~w.lagged =>
          /\ w.inbox # <<>> => w.inbox[1] <= w.last + 1
          /\ w.open /\ w.inbox = <<>> => n <= w.last + 1

ViewsKept ==
    /\ view \in [Viewers -> Views]
    /\ \A v \in Viewers :
          Viewed(view[v], Len(log[view[v].turn]), Sent(log[view[v].turn], tpc[view[v].turn]))

-----------------------------------------------------------------------------
(* The turns, step by step                                                 *)

LEMMA EndKindsAre == /\ EndKinds = {"completion", "failure", "cancelled"}
                     /\ \A k \in EndKinds : StatusOf[k] \in TurnTerminal
                     /\ "data" \notin EndKinds
  <1>1. EndKinds = {"completion", "failure", "cancelled"} BY DEF EndKinds, StatusOf
  <1>2. \A k \in EndKinds : StatusOf[k] \in TurnTerminal BY <1>1 DEF StatusOf, TurnTerminal
  <1> QED BY <1>1, <1>2

LEMMA TurnFields ==
    ASSUME TurnTypes, NEW t \in Turns
    PROVE  turns[t] \in TurnStates /\ log[t] \in Seq(LogKinds) /\ tpc[t] \in TaskPoints /\ ending[t] \in EndKinds
  BY DEF TurnTypes

LEMMA TurnKnown ==
    ASSUME TurnsKept, NEW t \in Turns
    PROVE  TurnTypes /\ Requests /\ ActiveHasTask /\ TurnKept(turns[t], log[t], tpc[t], faults = 0) /\ faults \in Nat
  BY DEF TurnsKept, TurnTypes

\* Turn t moves to state q, log l and control point p, and no request moves.
Moves(t, q, l, p) ==
    /\ turns' = [turns EXCEPT ![t] = q] /\ log' = [log EXCEPT ![t] = l] /\ tpc' = [tpc EXCEPT ![t] = p]
    /\ ending' \in [Turns -> EndKinds] /\ faults' \in Nat /\ faults' >= faults
    /\ UNCHANGED <<spc, sturn, xpc, xturn>>

LEMMA TurnMoves ==
    ASSUME TurnsKept, NEW t \in Turns, NEW q \in TurnStates, NEW l \in Seq(LogKinds), NEW p \in TaskPoints,
           Moves(t, q, l, p), TurnKept(q, l, p, faults' = 0), tpc[t] \notin {"none", "gone"}, q # "absent",
           faults' = 0 /\ p = "gone" => q \notin TurnActive, p # "none"
    PROVE  TurnsKept'
  <1>1. TurnTypes' BY DEF TurnsKept, TurnTypes, Moves
  <1>2. turns'[t] = q /\ log'[t] = l /\ tpc'[t] = p BY DEF TurnsKept, TurnTypes, Moves
  <1>3. ASSUME NEW u \in Turns, u # t PROVE turns'[u] = turns[u] /\ log'[u] = log[u] /\ tpc'[u] = tpc[u]
    BY <1>3 DEF TurnsKept, TurnTypes, Moves
  <1>4. ASSUME NEW u \in Turns PROVE TurnKept(turns[u], log[u], tpc[u], faults = 0)'
    <2>1. CASE u = t BY <1>2, <2>1
    <2>2. CASE u # t
      <3>1. TurnKept(turns[u], log[u], tpc[u], faults = 0) /\ faults \in Nat BY TurnKnown
      <3>2. faults' = 0 => faults = 0 BY <3>1 DEF Moves
      <3>3. TurnKept(turns[u], log[u], tpc[u], faults' = 0) BY <3>1, <3>2 DEF TurnKept
      <3> QED BY <1>3, <2>2, <3>3
    <2> QED BY <2>1, <2>2
  <1>5. Requests'
    <2>1. ASSUME NEW r \in Starters, spc[r] = "spawn" PROVE turns'[sturn[r]] # "absent" /\ tpc'[sturn[r]] = "none"
      <3>1. sturn[r] \in Turns /\ turns[sturn[r]] # "absent" /\ tpc[sturn[r]] = "none"
        BY <2>1 DEF TurnsKept, TurnTypes, Requests
      <3> QED BY <1>3, <3>1
    <2>2. ASSUME NEW c \in Cancellers, xpc[c] # "idle" PROVE turns'[xturn[c]] # "absent"
      <3>1. xturn[c] \in Turns /\ turns[xturn[c]] # "absent" BY <2>2 DEF TurnsKept, TurnTypes, Requests
      <3> QED BY <1>2, <1>3, <3>1
    <2> QED BY <2>1, <2>2 DEF Requests, TurnsKept, Moves
  <1>6. ActiveHasTask'
    <2> SUFFICES ASSUME faults' = 0, NEW u \in Turns, turns'[u] \in TurnActive
                 PROVE  tpc'[u] \notin {"none", "gone"} \/ \E r \in Starters : spc'[r] = "spawn" /\ sturn'[r] = u
      BY DEF ActiveHasTask, Active, Registered
    <2>1. CASE u = t BY <1>2, <2>1
    <2>2. CASE u # t
      <3>1. faults = 0 BY TurnKnown DEF Moves
      <3>2. turns[u] \in TurnActive /\ tpc'[u] = tpc[u] BY <1>3, <2>2
      <3>3. tpc[u] \notin {"none", "gone"} \/ \E r \in Starters : spc[r] = "spawn" /\ sturn[r] = u
        BY <3>1, <3>2 DEF TurnsKept, ActiveHasTask, Active, Registered
      <3> QED BY <3>2, <3>3 DEF Moves
    <2> QED BY <2>1, <2>2
  <1> QED BY <1>1, <1>4, <1>5, <1>6 DEF TurnsKept

LEMMA TurnStays ==
    ASSUME TurnTypes, NEW t \in Turns
    PROVE  turns = [turns EXCEPT ![t] = turns[t]] /\ log = [log EXCEPT ![t] = log[t]] /\ tpc = [tpc EXCEPT ![t] = tpc[t]]
  BY DEF TurnTypes

\* The log of a turn gets one more event.
LEMMA LogGrows ==
    ASSUME NEW l \in Seq(LogKinds), NEW k \in LogKinds
    PROVE  /\ Append(l, k) \in Seq(LogKinds) /\ Append(l, k) # <<>> /\ Len(Append(l, k)) = Len(l) + 1
           /\ HasEnd(Append(l, k)) => HasEnd(l) \/ k \in EndKinds
  <1> DEFINE a == Append(l, k)
  <1>1. a \in Seq(LogKinds) /\ a # <<>> /\ Len(a) = Len(l) + 1 /\ Len(l) \in Nat
        /\ (\A i \in 1 .. Len(l) : a[i] = l[i]) /\ a[Len(l) + 1] = k
    BY AppendProperties, LenProperties
  <1> HIDE DEF a
  <1>2. ASSUME HasEnd(a) PROVE HasEnd(l) \/ k \in EndKinds
    <2>1. PICK i \in 1 .. Len(a) : a[i] \in EndKinds BY <1>2 DEF HasEnd
    <2>2. i \in 1 .. Len(l) \/ i = Len(l) + 1 BY <1>1, <2>1
    <2> QED BY <1>1, <2>1, <2>2 DEF HasEnd
  <1>3. a = Append(l, k) BY DEF a
  <1> QED BY <1>1, <1>2, <1>3

\* A task that only goes on.
LEMMA TaskGoesOn ==
    ASSUME TurnsKept, NEW t \in Turns, NEW p \in TaskPoints, tpc' = [tpc EXCEPT ![t] = p],
           UNCHANGED <<turns, log, ending, sVars, xVars>>, faults' \in Nat, faults' >= faults,
           tpc[t] \notin {"none", "gone"}, TurnKept(turns[t], log[t], p, faults' = 0),
           p # "none", p = "gone" => turns[t] \notin TurnActive
    PROVE  TurnsKept'
  <1>1. turns[t] \in TurnStates /\ log[t] \in Seq(LogKinds) BY TurnFields, TurnKnown
  <1>2. Moves(t, turns[t], log[t], p) BY TurnStays, TurnKnown DEF Moves, TurnTypes, sVars, xVars
  <1>3. turns[t] # "absent" BY TurnKnown DEF TurnKept
  <1> QED BY <1>1, <1>2, <1>3, TurnMoves

\* The steps of a turn's task that leave its row and log alone.
LEMMA QuietTaskKeeps ==
    ASSUME TurnsKept, NEW t \in Turns,
           AdapterFails(t) \/ Publish(t) \/ EndOfStream(t) \/ TaskFails(t) \/ Close(t) \/ Release(t)
    PROVE  TurnsKept'
  <1>0. TurnKept(turns[t], log[t], tpc[t], faults = 0) /\ faults \in Nat BY TurnKnown
  <1>1. CASE AdapterFails(t)
    <2>1. TurnKept(turns[t], log[t], "fail", faults' = 0) BY <1>0, <1>1 DEF AdapterFails, Drives, TurnKept, bounds
    <2>2. "fail" \in TaskPoints /\ tpc' = [tpc EXCEPT ![t] = "fail"] /\ tpc[t] \notin {"none", "gone"}
          /\ UNCHANGED <<turns, log, ending, sVars, xVars>> /\ faults' = faults
      BY <1>1 DEF AdapterFails, Drives, TaskPoints, bounds
    <2>3. faults' \in Nat /\ faults' >= faults BY <1>0, <2>2
    <2> QED BY <2>1, <2>2, <2>3, TaskGoesOn
  <1>2. CASE Publish(t)
    <2>1. TurnKept(turns[t], log[t], "recv", faults' = 0) BY <1>0, <1>2 DEF Publish, Drives, TurnKept, bounds
    <2>2. "recv" \in TaskPoints /\ tpc' = [tpc EXCEPT ![t] = "recv"] /\ tpc[t] \notin {"none", "gone"}
          /\ UNCHANGED <<turns, log, ending, sVars, xVars>> /\ faults' = faults
      BY <1>2 DEF Publish, Drives, TaskPoints, bounds
    <2>3. faults' \in Nat /\ faults' >= faults BY <1>0, <2>2
    <2> QED BY <2>1, <2>2, <2>3, TaskGoesOn
  <1>3. CASE EndOfStream(t)
    <2>1. TurnKept(turns[t], log[t], "close", faults' = 0) BY <1>0, <1>3 DEF EndOfStream, Drives, TurnKept, bounds, Ended, HasEnd
    <2>2. "close" \in TaskPoints /\ tpc' = [tpc EXCEPT ![t] = "close"] /\ tpc[t] \notin {"none", "gone"}
          /\ UNCHANGED <<turns, log, ending, sVars, xVars>> /\ faults' = faults
      BY <1>3 DEF EndOfStream, Drives, TaskPoints, bounds
    <2>3. faults' \in Nat /\ faults' >= faults BY <1>0, <2>2
    <2> QED BY <2>1, <2>2, <2>3, TaskGoesOn
  <1>4. CASE TaskFails(t)
    <2>1. tpc[t] \in {"start", "recv", "append"} /\ faults' = faults + 1 /\ tpc' = [tpc EXCEPT ![t] = "fail"]
      BY <1>4 DEF TaskFails, Fault
    <2>2. TurnKept(turns[t], log[t], "fail", faults' = 0) BY <1>0, <2>1 DEF TurnKept
    <2>3. "fail" \in TaskPoints /\ UNCHANGED <<turns, log, ending, sVars, xVars>> BY <1>4 DEF TaskFails, TaskPoints
    <2>4. faults' \in Nat /\ faults' >= faults BY <1>0, <2>1
    <2> QED BY <2>1, <2>2, <2>3, <2>4, TaskGoesOn
  <1>5. CASE Close(t)
    <2>1. TurnKept(turns[t], log[t], "release", faults' = 0) BY <1>0, <1>5 DEF Close, Drives, TurnKept, bounds
    <2>2. "release" \in TaskPoints /\ tpc' = [tpc EXCEPT ![t] = "release"] /\ tpc[t] \notin {"none", "gone"}
          /\ UNCHANGED <<turns, log, ending, sVars, xVars>> /\ faults' = faults
      BY <1>5 DEF Close, Drives, TaskPoints, bounds
    <2>3. faults' \in Nat /\ faults' >= faults BY <1>0, <2>2
    <2> QED BY <2>1, <2>2, <2>3, TaskGoesOn
  <1>6. CASE Release(t)
    <2>1. TurnKept(turns[t], log[t], "gone", faults' = 0) /\ turns[t] \notin TurnActive BY <1>0, <1>6 DEF Release, Drives, TurnKept, bounds, TurnActive, TurnTerminal
    <2>2. "gone" \in TaskPoints /\ tpc' = [tpc EXCEPT ![t] = "gone"] /\ tpc[t] \notin {"none", "gone"}
          /\ UNCHANGED <<turns, log, ending, sVars, xVars>> /\ faults' = faults
      BY <1>6 DEF Release, Drives, TaskPoints, bounds
    <2>3. faults' \in Nat /\ faults' >= faults BY <1>0, <2>2
    <2> QED BY <2>1, <2>2, <2>3, TaskGoesOn
  <1> QED BY <1>1, <1>2, <1>3, <1>4, <1>5, <1>6

LEMMA MarkStreamingKeeps ==
    ASSUME TurnsKept, NEW t \in Turns, MarkStreaming(t)
    PROVE  TurnsKept'
  <1>0. TurnTypes /\ TurnKept(turns[t], log[t], tpc[t], faults = 0) /\ faults \in Nat BY TurnKnown
  <1>1. tpc[t] = "start" /\ log[t] = <<>> BY <1>0 DEF MarkStreaming, Drives, TurnKept
  <1>2. TurnKept("streaming", log[t], "recv", faults' = 0) BY <1>1 DEF TurnKept, HasEnd
  <1>3. log' = [log EXCEPT ![t] = log[t]] /\ log[t] \in Seq(LogKinds) BY <1>0, TurnStays, TurnFields DEF MarkStreaming
  <1>f. faults' = faults /\ faults' \in Nat /\ faults' >= faults BY <1>0 DEF MarkStreaming, bounds
  <1>4. Moves(t, "streaming", log[t], "recv")
    BY <1>0, <1>f, TurnStays DEF MarkStreaming, Drives, Mark, Moves, TurnTypes, bounds, sVars, xVars
  <1>5. "recv" \in TaskPoints /\ "streaming" \in TurnStates BY DEF TaskPoints, TurnStates, TurnActive
  <1> QED BY <1>1, <1>2, <1>3, <1>4, <1>5, TurnMoves

LEMMA ReceiveDataKeeps ==
    ASSUME TurnsKept, NEW t \in Turns, ReceiveData(t)
    PROVE  TurnsKept'
  <1>0. TurnTypes /\ TurnKept(turns[t], log[t], tpc[t], faults = 0) /\ faults \in Nat
        /\ log[t] \in Seq(LogKinds) /\ turns[t] \in TurnStates
    BY TurnKnown, TurnFields
  <1>1. tpc[t] = "recv" /\ turns[t] \notin {"absent", "pending"} /\ ~HasEnd(log[t])
    BY <1>0 DEF ReceiveData, Drives, TurnKept, Ended, HasEnd
  <1> DEFINE l == Append(log[t], "data")
  <1>2. l \in Seq(LogKinds) /\ l # <<>> /\ ~HasEnd(l)
    <2>1. "data" \in LogKinds /\ "data" \notin EndKinds BY EndKindsAre DEF LogKinds
    <2> QED BY <1>0, <1>1, <2>1, LogGrows
  <1>3. log' = [log EXCEPT ![t] = l] BY DEF ReceiveData
  <1> HIDE DEF l
  <1>4. TurnKept(turns[t], l, "publish", faults' = 0) BY <1>1, <1>2 DEF TurnKept
  <1>5. turns' = [turns EXCEPT ![t] = turns[t]] BY <1>0, TurnStays DEF ReceiveData
  <1>f. faults' = faults /\ faults' \in Nat /\ faults' >= faults BY <1>0 DEF ReceiveData, bounds
  <1>6. Moves(t, turns[t], l, "publish")
    BY <1>0, <1>f, <1>3, <1>5 DEF ReceiveData, Drives, Moves, TurnTypes, bounds, sVars, xVars
  <1>7. "publish" \in TaskPoints BY DEF TaskPoints
  <1> QED BY <1>0, <1>1, <1>2, <1>4, <1>6, <1>7, TurnMoves

LEMMA ReceiveEndKeeps ==
    ASSUME TurnsKept, NEW t \in Turns, NEW k \in EndKinds, ReceiveEnd(t, k)
    PROVE  TurnsKept'
  <1>0. TurnTypes /\ TurnKept(turns[t], log[t], tpc[t], faults = 0) /\ faults \in Nat /\ log[t] \in Seq(LogKinds)
    BY TurnKnown, TurnFields
  <1>1. tpc[t] = "recv" BY DEF ReceiveEnd, Drives
  <1> DEFINE q == StatusOf[k]
  <1>2. q \in TurnTerminal BY EndKindsAre
  <1>3. turns' = [turns EXCEPT ![t] = q] /\ ending' \in [Turns -> EndKinds] BY <1>0 DEF ReceiveEnd, Mark, TurnTypes
  <1> HIDE DEF q
  <1>4. q \in TurnStates /\ q \notin {"absent", "pending"} /\ q \notin TurnActive
    BY <1>2 DEF TurnStates, TurnTerminal, TurnActive
  <1>5. TurnKept(q, log[t], "append", faults' = 0) BY <1>2, <1>4 DEF TurnKept
  <1>6. log' = [log EXCEPT ![t] = log[t]] BY <1>0, TurnStays DEF ReceiveEnd
  <1>f. faults' = faults /\ faults' \in Nat /\ faults' >= faults BY <1>0 DEF ReceiveEnd, bounds
  <1>7. Moves(t, q, log[t], "append")
    BY <1>0, <1>f, <1>3, <1>6 DEF ReceiveEnd, Drives, Moves, bounds, sVars, xVars
  <1>8. "append" \in TaskPoints BY DEF TaskPoints
  <1> QED BY <1>0, <1>1, <1>4, <1>5, <1>7, <1>8, TurnMoves

LEMMA AppendEndKeeps ==
    ASSUME TurnsKept, NEW t \in Turns, AppendEnd(t)
    PROVE  TurnsKept'
  <1>0. TurnTypes /\ TurnKept(turns[t], log[t], tpc[t], faults = 0) /\ faults \in Nat
        /\ log[t] \in Seq(LogKinds) /\ turns[t] \in TurnStates /\ ending[t] \in EndKinds
    BY TurnKnown, TurnFields
  <1>1. tpc[t] = "append" /\ turns[t] \in TurnTerminal BY <1>0 DEF AppendEnd, Drives, TurnKept
  <1> DEFINE l == Append(log[t], ending[t])
  <1>2. l \in Seq(LogKinds) /\ l # <<>>
    <2>1. ending[t] \in LogKinds BY <1>0 DEF LogKinds
    <2> QED BY <1>0, <2>1, LogGrows
  <1>3. log' = [log EXCEPT ![t] = l] BY DEF AppendEnd
  <1> HIDE DEF l
  <1>4. turns[t] \notin {"absent", "pending"} BY <1>1 DEF TurnTerminal
  <1>5. TurnKept(turns[t], l, "publish", faults' = 0) BY <1>1, <1>2, <1>4 DEF TurnKept
  <1>6. turns' = [turns EXCEPT ![t] = turns[t]] BY <1>0, TurnStays DEF AppendEnd
  <1>f. faults' = faults /\ faults' \in Nat /\ faults' >= faults BY <1>0 DEF AppendEnd, bounds
  <1>7. Moves(t, turns[t], l, "publish")
    BY <1>0, <1>f, <1>3, <1>6 DEF AppendEnd, Drives, Moves, TurnTypes, bounds, sVars, xVars
  <1>8. "publish" \in TaskPoints BY DEF TaskPoints
  <1> QED BY <1>0, <1>1, <1>2, <1>4, <1>5, <1>7, <1>8, TurnMoves

LEMMA MarkFailedKeeps ==
    ASSUME TurnsKept, NEW t \in Turns, MarkFailed(t)
    PROVE  TurnsKept'
  <1>0. TurnTypes /\ faults \in Nat /\ log[t] \in Seq(LogKinds) BY TurnKnown, TurnFields
  <1>1. tpc[t] = "fail" BY DEF MarkFailed, Drives
  <1>2. TurnKept("failed", log[t], "close", faults' = 0) BY DEF TurnKept, TurnTerminal
  <1>3. log' = [log EXCEPT ![t] = log[t]] BY <1>0, TurnStays DEF MarkFailed
  <1>f. faults' = faults /\ faults' \in Nat /\ faults' >= faults BY <1>0 DEF MarkFailed, bounds
  <1>4. Moves(t, "failed", log[t], "close")
    BY <1>0, <1>f, <1>3 DEF MarkFailed, Drives, Mark, Moves, TurnTypes, bounds, sVars, xVars
  <1>5. "close" \in TaskPoints /\ "failed" \in TurnStates BY DEF TaskPoints, TurnStates, TurnTerminal
  <1> QED BY <1>0, <1>1, <1>2, <1>4, <1>5, TurnMoves

LEMMA TaskKeeps == ASSUME TurnsKept, NEW t \in Turns, Task(t) PROVE TurnsKept'
  <1>1. ASSUME NEW k \in EndKinds, ReceiveEnd(t, k) PROVE TurnsKept' BY <1>1, ReceiveEndKeeps
  <1> QED BY <1>1, QuietTaskKeeps, MarkStreamingKeeps, ReceiveDataKeeps, AppendEndKeeps, MarkFailedKeeps DEF Task

\* No turn and no task moves.
LEMMA TurnsStay ==
    ASSUME TurnsKept, UNCHANGED <<turns, log, tpc>>, TurnTypes', Requests', ActiveHasTask', faults' >= faults
    PROVE  TurnsKept'
  <1>1. ASSUME NEW u \in Turns PROVE TurnKept(turns[u], log[u], tpc[u], faults = 0)'
    <2>1. TurnKept(turns[u], log[u], tpc[u], faults = 0) /\ faults \in Nat BY TurnKnown
    <2>2. faults' \in Nat BY DEF TurnTypes
    <2>3. faults' = 0 => faults = 0 BY <2>1, <2>2
    <2> QED BY <2>1, <2>3 DEF TurnKept
  <1> QED BY <1>1 DEF TurnsKept

LEMMA StartLookKeeps == ASSUME TurnsKept, NEW r \in Starters, StartLook(r) PROVE TurnsKept'
  <1>1. /\ spc' = [spc EXCEPT ![r] = "create"] /\ spc[r] = "idle" /\ faults \in Nat
        /\ UNCHANGED <<turns, log, tpc, ending, sturn, xpc, xturn, faults>>
    BY DEF StartLook, task, xVars, bounds, TurnsKept, TurnTypes
  <1>2. TurnTypes' BY <1>1 DEF TurnsKept, TurnTypes
  <1>3. \A u \in Starters : spc'[u] = "spawn" <=> spc[u] = "spawn" BY <1>1 DEF TurnsKept, TurnTypes
  <1>4. Requests' BY <1>1, <1>3 DEF TurnsKept, Requests
  <1>5. ActiveHasTask' BY <1>1, <1>3 DEF TurnsKept, ActiveHasTask, Active, Registered
  <1>6. faults' >= faults BY <1>1
  <1> QED BY <1>1, <1>2, <1>4, <1>5, <1>6, TurnsStay

LEMMA StartCreateKeeps == ASSUME TurnsKept, NEW r \in Starters, StartCreate(r) PROVE TurnsKept'
  <1>1. PICK t \in Turns : /\ turns[t] = "absent" /\ turns' = [turns EXCEPT ![t] = "pending"]
                           /\ sturn' = [sturn EXCEPT ![r] = t]
    BY DEF StartCreate
  <1>2. /\ spc[r] = "create" /\ spc' = [spc EXCEPT ![r] = "spawn"] /\ faults \in Nat
        /\ UNCHANGED <<log, tpc, ending, xpc, xturn, faults>>
    BY DEF StartCreate, task, xVars, bounds, TurnsKept, TurnTypes
  <1>3. TurnTypes' BY <1>1, <1>2 DEF TurnsKept, TurnTypes, TurnStates, TurnActive
  <1>4. /\ turns'[t] = "pending" /\ \A u \in Turns \ {t} : turns'[u] = turns[u]
        /\ spc'[r] = "spawn" /\ sturn'[r] = t
        /\ \A u \in Starters \ {r} : spc'[u] = spc[u] /\ sturn'[u] = sturn[u]
    BY <1>1, <1>2 DEF TurnsKept, TurnTypes
  <1>5. tpc[t] = "none" /\ log[t] = <<>> BY <1>1, TurnKnown DEF TurnKept
  <1>6. ASSUME NEW u \in Starters \ {r}, spc[u] = "spawn"
        PROVE  sturn[u] # t /\ turns'[sturn[u]] # "absent" /\ tpc[sturn[u]] = "none"
    BY <1>1, <1>4, <1>6 DEF TurnsKept, TurnTypes, Requests
  <1>7. ASSUME NEW c \in Cancellers, xpc[c] # "idle" PROVE turns'[xturn[c]] # "absent"
    BY <1>4, <1>7 DEF TurnsKept, TurnTypes, Requests
  <1>8. Requests'
    <2>1. ASSUME NEW u \in Starters, spc'[u] = "spawn" PROVE turns'[sturn'[u]] # "absent" /\ tpc'[sturn'[u]] = "none"
      BY <1>2, <1>4, <1>5, <1>6, <2>1
    <2>2. ASSUME NEW u \in Starters, NEW x \in Starters, spc'[u] = "spawn", spc'[x] = "spawn", sturn'[u] = sturn'[x]
          PROVE  u = x
      <3>1. u # r /\ x # r => u = x BY <1>4, <2>2 DEF TurnsKept, Requests
      <3>2. u = r => x = r BY <1>4, <1>6, <2>2
      <3>3. x = r => u = r BY <1>4, <1>6, <2>2
      <3> QED BY <3>1, <3>2, <3>3
    <2> QED BY <1>2, <1>7, <2>1, <2>2 DEF Requests
  <1>9. ActiveHasTask'
    <2> SUFFICES ASSUME faults' = 0, NEW u \in Turns, turns'[u] \in TurnActive
                 PROVE  tpc'[u] \notin {"none", "gone"} \/ \E x \in Starters : spc'[x] = "spawn" /\ sturn'[x] = u
      BY DEF ActiveHasTask, Active, Registered
    <2>1. CASE u = t BY <1>4, <2>1
    <2>2. CASE u # t
      <3>1. tpc[u] \notin {"none", "gone"} \/ \E x \in Starters : spc[x] = "spawn" /\ sturn[x] = u
        BY <1>2, <1>4, <2>2 DEF TurnsKept, ActiveHasTask, Active, Registered
      <3> QED BY <1>2, <1>4, <3>1
    <2> QED BY <2>1, <2>2
  <1>10. ASSUME NEW u \in Turns PROVE TurnKept(turns[u], log[u], tpc[u], faults = 0)'
    <2>1. CASE u = t
      <3>1. TurnKept("pending", <<>>, "none", faults' = 0) BY DEF TurnKept, HasEnd
      <3> QED BY <1>2, <1>4, <1>5, <2>1, <3>1
    <2>2. CASE u # t BY <1>2, <1>4, <2>2, TurnKnown
    <2> QED BY <2>1, <2>2
  <1> QED BY <1>3, <1>8, <1>9, <1>10 DEF TurnsKept

LEMMA StartSpawnKeeps == ASSUME TurnsKept, NEW r \in Starters, StartSpawn(r) PROVE TurnsKept'
  <1> DEFINE t == sturn[r]
  <1>1. /\ t \in Turns /\ turns[t] # "absent" /\ tpc[t] = "none" /\ spc[r] = "spawn"
        /\ \A u \in Starters \ {r} : spc[u] = "spawn" => sturn[u] # t
    BY DEF StartSpawn, TurnsKept, TurnTypes, Requests
  <1>2. /\ tpc' = [tpc EXCEPT ![t] = "start"] /\ spc' = [spc EXCEPT ![r] = "idle"] /\ faults \in Nat
        /\ UNCHANGED <<turns, log, ending, sturn, xpc, xturn, faults>>
    BY DEF StartSpawn, xVars, bounds, TurnsKept, TurnTypes
  <1> HIDE DEF t
  <1>3. TurnTypes' BY <1>1, <1>2 DEF TurnsKept, TurnTypes, TaskPoints
  <1>4. /\ tpc'[t] = "start" /\ \A u \in Turns \ {t} : tpc'[u] = tpc[u]
        /\ spc'[r] = "idle" /\ \A u \in Starters \ {r} : spc'[u] = spc[u]
    BY <1>1, <1>2 DEF TurnsKept, TurnTypes
  <1>5. Requests'
    <2>1. ASSUME NEW u \in Starters, spc'[u] = "spawn"
          PROVE  u # r /\ spc[u] = "spawn" /\ turns[sturn[u]] # "absent" /\ tpc'[sturn[u]] = "none"
      <3>1. u # r /\ spc[u] = "spawn" BY <1>4, <2>1
      <3>2. sturn[u] \in Turns /\ turns[sturn[u]] # "absent" /\ tpc[sturn[u]] = "none"
        BY <3>1 DEF TurnsKept, TurnTypes, Requests
      <3> QED BY <1>1, <1>4, <3>1, <3>2
    <2> QED BY <1>2, <2>1 DEF TurnsKept, Requests
  <1>6. ActiveHasTask'
    <2> SUFFICES ASSUME faults' = 0, NEW u \in Turns, turns'[u] \in TurnActive
                 PROVE  tpc'[u] \notin {"none", "gone"} \/ \E x \in Starters : spc'[x] = "spawn" /\ sturn'[x] = u
      BY DEF ActiveHasTask, Active, Registered
    <2>1. CASE u = t BY <1>4, <2>1
    <2>2. CASE u # t
      <3>1. tpc[u] \notin {"none", "gone"} \/ \E x \in Starters : spc[x] = "spawn" /\ sturn[x] = u
        BY <1>2 DEF TurnsKept, ActiveHasTask, Active, Registered
      <3>2. ASSUME NEW x \in Starters, spc[x] = "spawn", sturn[x] = u PROVE spc'[x] = "spawn"
        BY <1>4, <2>2, <3>2 DEF t
      <3> QED BY <1>2, <1>4, <2>2, <3>1, <3>2
    <2> QED BY <2>1, <2>2
  <1>7. ASSUME NEW u \in Turns PROVE TurnKept(turns[u], log[u], tpc[u], faults = 0)'
    <2>1. TurnKept(turns[u], log[u], tpc[u], faults = 0) BY TurnKnown
    <2>2. CASE u = t
      <3>1. TurnKept(turns[u], log[u], "start", faults = 0) BY <1>1, <2>1, <2>2 DEF TurnKept, HasEnd
      <3> QED BY <1>2, <1>4, <2>2, <3>1
    <2>3. CASE u # t BY <1>2, <1>4, <2>1, <2>3
    <2> QED BY <2>2, <2>3
  <1> QED BY <1>3, <1>5, <1>6, <1>7 DEF TurnsKept

LEMMA StartDroppedKeeps == ASSUME TurnsKept, NEW r \in Starters, StartDropped(r) PROVE TurnsKept'
  <1>1. /\ spc' = [spc EXCEPT ![r] = "idle"] /\ faults \in Nat /\ faults' = faults + 1
        /\ UNCHANGED <<turns, log, tpc, ending, sturn, xpc, xturn>>
    BY DEF StartDropped, Fault, task, xVars, TurnsKept, TurnTypes
  <1>2. TurnTypes' BY <1>1 DEF TurnsKept, TurnTypes
  <1>3. \A u \in Starters : spc'[u] = "spawn" => spc[u] = "spawn" BY <1>1 DEF TurnsKept, TurnTypes
  <1>4. Requests' BY <1>1, <1>3 DEF TurnsKept, Requests
  <1>5. faults' # 0 /\ faults' >= faults BY <1>1
  <1>6. ActiveHasTask' BY <1>5 DEF ActiveHasTask
  <1>7. UNCHANGED <<turns, log, tpc>> BY <1>1
  <1> QED BY <1>2, <1>4, <1>5, <1>6, <1>7, TurnsStay

\* A cancel that only moves its request, to control point x for turn u.
LEMMA CancelMoves ==
    ASSUME TurnsKept, NEW c \in Cancellers, NEW x \in {"idle", "look", "fire", "mark", "close"}, NEW u \in Turns,
           xpc' = [xpc EXCEPT ![c] = x], xturn' = [xturn EXCEPT ![c] = u], x # "idle" => turns[u] # "absent",
           UNCHANGED <<turns, log, tpc, ending, spc, sturn>>, faults' \in Nat, faults' >= faults
    PROVE  TurnsKept'
  <1>1. TurnTypes' BY DEF TurnsKept, TurnTypes
  <1>2. /\ xpc'[c] = x /\ xturn'[c] = u
        /\ \A d \in Cancellers \ {c} : xpc'[d] = xpc[d] /\ xturn'[d] = xturn[d]
    BY DEF TurnsKept, TurnTypes
  <1>3. \A d \in Cancellers : xpc'[d] # "idle" => turns[xturn'[d]] # "absent" BY <1>2 DEF TurnsKept, Requests
  <1>4. Requests' BY <1>3 DEF TurnsKept, Requests
  <1>5. faults' = 0 => faults = 0 BY TurnKnown DEF TurnsKept, TurnTypes
  <1>6. ActiveHasTask' BY <1>5 DEF TurnsKept, ActiveHasTask, Active, Registered
  <1> QED BY <1>1, <1>4, <1>6, TurnsStay

LEMMA CancelMarkKeeps == ASSUME TurnsKept, NEW c \in Cancellers, CancelMark(c) PROVE TurnsKept'
  <1> DEFINE t == xturn[c]
  <1>1. t \in Turns /\ turns[t] # "absent" BY DEF CancelMark, TurnsKept, TurnTypes, Requests
  <1>2. /\ turns' = [turns EXCEPT ![t] = "cancelled"] /\ xpc' = [xpc EXCEPT ![c] = "close"] /\ xpc[c] = "mark"
        /\ UNCHANGED <<log, tpc, ending, spc, sturn, xturn, faults>>
    BY DEF CancelMark, Mark, task, sVars, bounds
  <1> HIDE DEF t
  <1>3. TurnTypes' BY <1>1, <1>2 DEF TurnsKept, TurnTypes, TurnStates, TurnTerminal
  <1>4. /\ turns'[t] = "cancelled" /\ \A u \in Turns \ {t} : turns'[u] = turns[u]
        /\ \A d \in Cancellers : xpc'[d] # "idle" => xpc[d] # "idle"
    BY <1>1, <1>2 DEF TurnsKept, TurnTypes
  <1>5. \A u \in Turns : turns[u] # "absent" => turns'[u] # "absent" BY <1>4
  <1>6. Requests'
    <2>1. ASSUME NEW d \in Cancellers, xpc'[d] # "idle" PROVE turns'[xturn'[d]] # "absent"
      BY <1>2, <1>4, <1>5, <2>1 DEF TurnsKept, TurnTypes, Requests
    <2>2. ASSUME NEW r \in Starters, spc'[r] = "spawn" PROVE turns'[sturn'[r]] # "absent" /\ tpc'[sturn'[r]] = "none"
      BY <1>2, <1>5, <2>2 DEF TurnsKept, TurnTypes, Requests
    <2>3. \A r, u \in Starters : spc'[r] = "spawn" /\ spc'[u] = "spawn" /\ sturn'[r] = sturn'[u] => r = u
      BY <1>2 DEF TurnsKept, Requests
    <2> QED BY <2>1, <2>2, <2>3 DEF Requests
  <1>7. ActiveHasTask'
    <2>1. \A u \in Turns : turns'[u] \in TurnActive => turns[u] \in TurnActive BY <1>4 DEF TurnActive
    <2> QED BY <1>2, <2>1 DEF TurnsKept, ActiveHasTask, Active, Registered
  <1>8. ASSUME NEW u \in Turns PROVE TurnKept(turns[u], log[u], tpc[u], faults = 0)'
    <2>1. TurnKept(turns[u], log[u], tpc[u], faults = 0) BY TurnKnown
    <2>2. CASE u = t
      <3>1. TurnKept("cancelled", log[u], tpc[u], faults = 0) BY <1>1, <2>1, <2>2 DEF TurnKept, TurnTerminal
      <3> QED BY <1>2, <1>4, <2>2, <3>1
    <2>3. CASE u # t BY <1>2, <1>4, <2>1, <2>3
    <2> QED BY <2>2, <2>3
  <1> QED BY <1>3, <1>6, <1>7, <1>8 DEF TurnsKept

LEMMA CancelKeeps == ASSUME TurnsKept, NEW c \in Cancellers, Cancel(c) PROVE TurnsKept'
  <1>0. /\ xturn[c] \in Turns /\ xturn = [xturn EXCEPT ![c] = xturn[c]] /\ faults \in Nat
        /\ (xpc[c] # "idle" => turns[xturn[c]] # "absent")
    BY DEF TurnsKept, TurnTypes, Requests
  <1>1. CASE ForceFind(c)
    <2>1. PICK u \in Active : xturn' = [xturn EXCEPT ![c] = u] BY <1>1 DEF ForceFind
    <2>2. u \in Turns /\ turns[u] # "absent" BY DEF Active, TurnActive
    <2>3. /\ xpc' = [xpc EXCEPT ![c] = "look"] /\ UNCHANGED <<turns, log, tpc, ending, spc, sturn>> /\ faults' = faults
      BY <1>1 DEF ForceFind, task, sVars
    <2>4. faults' \in Nat /\ faults' >= faults BY <1>0, <2>3
    <2> QED BY <2>1, <2>2, <2>3, <2>4, CancelMoves
  <1>2. ASSUME NEW u \in Turns, CancelRequest(c, u) PROVE TurnsKept'
    <2>1. /\ xpc' = [xpc EXCEPT ![c] = "fire"] /\ xturn' = [xturn EXCEPT ![c] = u] /\ turns[u] # "absent"
          /\ UNCHANGED <<turns, log, tpc, ending, spc, sturn>> /\ faults' = faults
      BY <1>2 DEF CancelRequest, TurnActive, task, sVars
    <2>2. faults' \in Nat /\ faults' >= faults BY <1>0, <2>1
    <2> QED BY <2>1, <2>2, CancelMoves
  <1>3. ASSUME CancelLook(c) \/ CancelFire(c) \/ CancelClose(c) \/ CancelDropped(c) PROVE TurnsKept'
    <2>1. /\ xturn' = xturn /\ UNCHANGED <<turns, log, tpc, ending, spc, sturn>> /\ xpc[c] # "idle"
          /\ \/ xpc' = [xpc EXCEPT ![c] = "idle"] \/ xpc' = [xpc EXCEPT ![c] = "fire"]
             \/ xpc' = [xpc EXCEPT ![c] = "mark"]
      BY <1>3 DEF CancelLook, CancelFire, CancelClose, CancelDropped, task, sVars
    <2>2. faults' \in Nat /\ faults' >= faults
      BY <1>0, <1>3 DEF CancelLook, CancelFire, CancelClose, CancelDropped, Fault, bounds
    <2>3. PICK x \in {"idle", "fire", "mark"} : xpc' = [xpc EXCEPT ![c] = x] BY <2>1
    <2>4. xturn' = [xturn EXCEPT ![c] = xturn[c]] BY <1>0, <2>1
    <2> QED BY <1>0, <2>1, <2>2, <2>3, <2>4, CancelMoves
  <1> QED BY <1>1, <1>2, <1>3, CancelMarkKeeps DEF Cancel

\* A restart leaves every task it finds gone, and no request.
LEMMA CrashKeepsTurns == ASSUME TurnsKept, Crash PROVE TurnsKept'
  <1>1. /\ faults \in Nat /\ faults' = faults + 1 /\ UNCHANGED <<turns, log, ending, sturn, xturn>>
        /\ tpc' = [t \in Turns |-> IF Registered(t) THEN "gone" ELSE tpc[t]]
        /\ spc' = [r \in Starters |-> "idle"] /\ xpc' = [c \in Cancellers |-> "idle"]
    BY DEF Crash, Fault, TurnsKept, TurnTypes
  <1>2. faults' \in Nat /\ faults' # 0 BY <1>1
  <1>3. TurnTypes' BY <1>1, <1>2 DEF TurnsKept, TurnTypes, TaskPoints
  <1>4. Requests' BY <1>1 DEF Requests
  <1>5. ActiveHasTask' BY <1>2 DEF ActiveHasTask
  <1>6. ASSUME NEW u \in Turns PROVE TurnKept(turns[u], log[u], tpc[u], faults = 0)'
    <2>1. TurnKept(turns[u], log[u], tpc[u], faults = 0) BY TurnKnown
    <2>2. (tpc'[u] = "gone" /\ tpc[u] # "none") \/ tpc'[u] = tpc[u] BY <1>1 DEF Registered
    <2>3. CASE tpc'[u] = tpc[u]
      <3>1. TurnKept(turns[u], log[u], tpc[u], faults' = 0) BY <1>2, <2>1 DEF TurnKept
      <3> QED BY <1>1, <2>3, <3>1
    <2>4. CASE tpc'[u] = "gone" /\ tpc[u] # "none"
      <3>1. TurnKept(turns[u], log[u], "gone", faults' = 0) BY <1>2, <2>1, <2>4 DEF TurnKept
      <3> QED BY <1>1, <2>4, <3>1
    <2> QED BY <2>2, <2>3, <2>4
  <1> QED BY <1>3, <1>4, <1>5, <1>6 DEF TurnsKept

LEMMA TurnsInit == Init => TurnsKept
  <1> SUFFICES ASSUME Init PROVE TurnsKept OBVIOUS
  <1>1. TurnTypes
    <2>1. 1 \in Turns BY BoundAssumption DEF Turns
    <2>2. "completion" \in EndKinds BY EndKindsAre
    <2>3. <<>> \in Seq(LogKinds) BY EmptySeq
    <2> QED BY <2>1, <2>2, <2>3 DEF Init, TurnTypes, TurnStates, TaskPoints
  <1>2. Requests BY DEF Init, Requests
  <1>3. ActiveHasTask BY DEF Init, ActiveHasTask, Active, TurnActive
  <1>4. TurnKept("absent", <<>>, "none", faults = 0) BY DEF TurnKept, HasEnd
  <1> QED BY <1>1, <1>2, <1>3, <1>4 DEF Init, TurnsKept

LEMMA TurnsStep == TurnsKept /\ [Next]_vars => TurnsKept'
  <1> SUFFICES ASSUME TurnsKept, [Next]_vars PROVE TurnsKept' OBVIOUS
  <1>1. ASSUME UNCHANGED <<turns, log, tpc, ending, sVars, xVars, faults>> PROVE TurnsKept'
    <2>1. UNCHANGED <<turns, log, tpc, ending, spc, sturn, xpc, xturn, faults>> BY <1>1 DEF sVars, xVars
    <2>2. TurnTypes' BY <2>1 DEF TurnsKept, TurnTypes
    <2>3. Requests' BY <2>1 DEF TurnsKept, Requests
    <2>4. ActiveHasTask' BY <2>1 DEF TurnsKept, ActiveHasTask, Active, Registered
    <2>5. faults' >= faults BY <2>1 DEF TurnsKept, TurnTypes
    <2>6. UNCHANGED <<turns, log, tpc>> BY <2>1
    <2> QED BY <2>2, <2>3, <2>4, <2>5, <2>6, TurnsStay
  <1>2. CASE UNCHANGED vars BY <1>1, <1>2 DEF vars, task, bounds
  <1>3. ASSUME NEW v \in Viewers, Streams(v) \/ Reopen(v) \/ (\E t \in Turns : Open(v, t)) PROVE TurnsKept'
    <2>1. UNCHANGED <<turns, log, task, sVars, xVars, faults>>
      BY <1>3 DEF Streams, Subscribe, History, Live, Lagged, Closed, LastStatus, Reopen, Open, View, bounds
    <2> QED BY <1>1, <2>1 DEF task
  <1>4. ASSUME NEW r \in Starters, StartLook(r) \/ StartCreate(r) \/ StartSpawn(r) \/ StartDropped(r) PROVE TurnsKept'
    BY <1>4, StartLookKeeps, StartCreateKeeps, StartSpawnKeeps, StartDroppedKeeps
  <1>5. CASE Next BY <1>3, <1>4, <1>5, TaskKeeps, CancelKeeps, CrashKeepsTurns DEF Next
  <1> QED BY <1>2, <1>5

\* However requests, cancels, viewers and the turns' tasks interleave, a turn is
\* pending or streaming only while its task runs or is about to be spawned, until a
\* restart, a dropped request or an error of a task.
THEOREM ActiveHasTaskHolds == Spec => []ActiveHasTask
  <1>1. TurnsKept => ActiveHasTask BY DEF TurnsKept
  <1> QED BY <1>1, TurnsInit, TurnsStep, PTL DEF Spec

-----------------------------------------------------------------------------
(* Positions                                                               *)

LEMMA RunsAppend ==
    ASSUME NEW q \in Seq(Nat), NEW n \in Nat, Runs(q), q # <<>> => q[Len(q)] = n - 1
    PROVE  /\ Append(q, n) \in Seq(Nat) /\ Append(q, n) # <<>> /\ Len(Append(q, n)) = Len(q) + 1
           /\ Runs(Append(q, n)) /\ Append(q, n)[Len(q) + 1] = n
           /\ \A i \in 1 .. Len(q) : Append(q, n)[i] = q[i]
  <1> DEFINE a == Append(q, n)
  <1>1. /\ a \in Seq(Nat) /\ a # <<>> /\ Len(a) = Len(q) + 1 /\ a[Len(q) + 1] = n
        /\ \A i \in 1 .. Len(q) : a[i] = q[i]
    BY AppendProperties
  <1>2. Len(q) \in Nat /\ (Len(q) > 0 => q # <<>>) BY LenProperties, EmptySeq
  <1> HIDE DEF a
  <1>3. Runs(a)
    <2> SUFFICES ASSUME NEW i \in 1 .. Len(a) - 1 PROVE a[i + 1] = a[i] + 1 BY DEF Runs
    <2>1. i \in 1 .. Len(q) BY <1>1, <1>2
    <2>2. CASE i = Len(q) BY <1>1, <1>2, <2>1, <2>2
    <2>3. CASE i # Len(q)
      <3>1. i \in 1 .. Len(q) - 1 /\ i + 1 \in 1 .. Len(q) BY <1>2, <2>1, <2>3
      <3> QED BY <1>1, <2>1, <3>1 DEF Runs
    <2> QED BY <2>2, <2>3
  <1>4. a = Append(q, n) BY DEF a
  <1> QED BY <1>1, <1>3, <1>4

LEMMA RunsTail ==
    ASSUME NEW q \in Seq(Nat), q # <<>>, Runs(q)
    PROVE  /\ Tail(q) \in Seq(Nat) /\ Runs(Tail(q)) /\ Head(q) = q[1] /\ q[1] \in Nat /\ Len(q) \in Nat /\ Len(q) >= 1
           /\ Len(Tail(q)) = Len(q) - 1 /\ \A i \in 1 .. Len(Tail(q)) : Tail(q)[i] = q[i + 1]
           /\ Tail(q) # <<>> => Tail(q)[1] = q[1] + 1 /\ Tail(q)[Len(Tail(q))] = q[Len(q)]
           /\ Tail(q) = <<>> => q[Len(q)] = q[1]
  <1> DEFINE r == Tail(q)
  <1>1. r \in Seq(Nat) /\ Len(r) = Len(q) - 1 /\ \A i \in 1 .. Len(r) : r[i] = q[i + 1] BY HeadTailProperties
  <1>2. Len(q) \in Nat /\ Len(q) >= 1 /\ Len(r) \in Nat /\ (r = <<>> <=> Len(r) = 0)
    <2>1. Len(q) \in Nat /\ Len(r) \in Nat BY <1>1, LenProperties
    <2>2. Len(q) # 0 /\ (r = <<>> <=> Len(r) = 0) BY <1>1, EmptySeq
    <2> QED BY <2>1, <2>2
  <1>3. q[1] \in Nat /\ Head(q) = q[1] BY <1>2, ElementOfSeq
  <1>4. r = Tail(q) OBVIOUS
  <1> HIDE DEF r
  <1>5. Runs(r)
    <2> SUFFICES ASSUME NEW i \in 1 .. Len(r) - 1 PROVE r[i + 1] = r[i] + 1 BY DEF Runs
    <2>1. i \in 1 .. Len(r) /\ i + 1 \in 1 .. Len(r) /\ i + 1 \in 1 .. Len(q) - 1 BY <1>1, <1>2
    <2> QED BY <1>1, <2>1 DEF Runs
  <1>6. r # <<>> => r[1] = q[1] + 1 /\ r[Len(r)] = q[Len(q)]
    <2> SUFFICES ASSUME r # <<>> PROVE r[1] = q[1] + 1 /\ r[Len(r)] = q[Len(q)] OBVIOUS
    <2>1. 1 \in 1 .. Len(r) /\ Len(r) \in 1 .. Len(r) /\ 1 \in 1 .. Len(q) - 1 /\ Len(r) + 1 = Len(q) BY <1>1, <1>2
    <2> QED BY <1>1, <2>1 DEF Runs
  <1>7. r = <<>> => q[Len(q)] = q[1]
    <2>1. r = <<>> => Len(q) = 1 BY <1>1, <1>2
    <2> QED BY <2>1
  <1> QED BY <1>1, <1>2, <1>3, <1>4, <1>5, <1>6, <1>7

LEMMA RunsConcat ==
    ASSUME NEW q \in Seq(Nat), NEW s \in Seq(Nat), Runs(q), Runs(s),
           q # <<>> /\ s # <<>> => s[1] = q[Len(q)] + 1
    PROVE  /\ q \o s \in Seq(Nat) /\ Runs(q \o s)
           /\ q # <<>> => q \o s # <<>> /\ (q \o s)[1] = q[1]
           /\ s # <<>> => q \o s # <<>> /\ (q \o s)[Len(q \o s)] = s[Len(s)]
           /\ q = <<>> => q \o s = s
           /\ s = <<>> => q \o s = q
  <1> DEFINE a == q \o s
  <1>1. /\ a \in Seq(Nat) /\ Len(a) = Len(q) + Len(s)
        /\ \A i \in 1 .. Len(q) + Len(s) : a[i] = IF i <= Len(q) THEN q[i] ELSE s[i - Len(q)]
    BY ConcatProperties
  <1>2. /\ Len(q) \in Nat /\ Len(s) \in Nat /\ (q = <<>> <=> Len(q) = 0) /\ (s = <<>> <=> Len(s) = 0)
        /\ (a = <<>> <=> Len(a) = 0)
    BY <1>1, LenProperties, EmptySeq
  <1>3. a = q \o s /\ (q = <<>> => a = s) /\ (s = <<>> => a = q) BY ConcatEmptySeq
  <1> HIDE DEF a
  <1>4. Runs(a)
    <2> SUFFICES ASSUME NEW i \in 1 .. Len(a) - 1 PROVE a[i + 1] = a[i] + 1 BY DEF Runs
    <2>1. i \in Nat /\ i >= 1 /\ i + 1 <= Len(q) + Len(s) BY <1>1, <1>2
    <2>a. i \in 1 .. Len(q) + Len(s) /\ i + 1 \in 1 .. Len(q) + Len(s) BY <1>2, <2>1
    <2>x. a[i] = IF i <= Len(q) THEN q[i] ELSE s[i - Len(q)] BY <1>1, <2>a
    <2>y. a[i + 1] = IF i + 1 <= Len(q) THEN q[i + 1] ELSE s[i + 1 - Len(q)]
      <3> DEFINE j == i + 1
      <3>1. j \in 1 .. Len(q) + Len(s) BY <2>a
      <3> HIDE DEF j
      <3>2. a[j] = IF j <= Len(q) THEN q[j] ELSE s[j - Len(q)] BY <1>1, <3>1
      <3> QED BY <3>2 DEF j
    <2>b. /\ a[i] = IF i <= Len(q) THEN q[i] ELSE s[i - Len(q)]
          /\ a[i + 1] = IF i + 1 <= Len(q) THEN q[i + 1] ELSE s[i + 1 - Len(q)]
      BY <2>x, <2>y
    <2>2. CASE i + 1 <= Len(q)
      <3>1. i <= Len(q) /\ i \in 1 .. Len(q) - 1 BY <1>2, <2>1, <2>2
      <3>2. a[i] = q[i] /\ a[i + 1] = q[i + 1] BY <2>2, <2>b, <3>1
      <3>3. q[i + 1] = q[i] + 1 BY <3>1 DEF Runs
      <3> QED BY <3>2, <3>3
    <2>3. CASE i = Len(q)
      <3>1. ~(i + 1 <= Len(q)) /\ i <= Len(q) /\ i + 1 - Len(q) = 1 /\ Len(s) # 0 /\ Len(q) # 0
        BY <1>2, <2>1, <2>3
      <3>2. a[i] = q[Len(q)] /\ a[i + 1] = s[1] BY <2>3, <2>b, <3>1
      <3> QED BY <1>2, <3>1, <3>2
    <2>4. CASE i > Len(q)
      <3> DEFINE j == i - Len(q)
      <3>1. ~(i + 1 <= Len(q)) /\ ~(i <= Len(q)) /\ j \in 1 .. Len(s) - 1 /\ i + 1 - Len(q) = j + 1
        BY <1>2, <2>1, <2>4
      <3>2. a[i] = s[j] /\ a[i + 1] = s[j + 1] BY <2>b, <3>1
      <3> HIDE DEF j
      <3> QED BY <3>1, <3>2 DEF Runs
    <2> QED BY <1>2, <2>1, <2>2, <2>3, <2>4
  <1>5. q # <<>> => a # <<>> /\ a[1] = q[1]
    <2>1. q # <<>> => 1 \in 1 .. Len(q) + Len(s) /\ 1 <= Len(q) BY <1>2
    <2> QED BY <1>1, <1>2, <2>1
  <1>6. s # <<>> => a # <<>> /\ a[Len(a)] = s[Len(s)]
    <2> SUFFICES ASSUME s # <<>> PROVE a # <<>> /\ a[Len(a)] = s[Len(s)] OBVIOUS
    <2> DEFINE j == Len(a)
    <2>a. Len(q) \in Nat /\ Len(s) \in Nat /\ Len(s) # 0 /\ j = Len(q) + Len(s) BY <1>1, <1>2
    <2>b. j \in 1 .. Len(q) + Len(s) BY <2>a
    <2>c. ~(j <= Len(q)) /\ j - Len(q) = Len(s) /\ j # 0 BY <2>a
    <2>1. j \in 1 .. Len(q) + Len(s) /\ ~(j <= Len(q)) /\ j - Len(q) = Len(s) /\ j # 0 BY <2>b, <2>c
    <2>2. a # <<>> BY <1>2, <2>1
    <2> HIDE DEF j
    <2>3. a[j] = s[Len(s)] BY <1>1, <2>1
    <2> QED BY <2>2, <2>3 DEF j
  <1> QED BY <1>1, <1>3, <1>4, <1>5, <1>6

\* What list_by_turn_after returns of a log with k events.
LEMMA AfterIs ==
    ASSUME NEW t \in Turns, NEW n \in Nat \cup {-1}, NEW k \in Nat, Len(log[t]) = k
    PROVE  /\ After(t, n) \in Seq(Nat) /\ Runs(After(t, n))
           /\ After(t, n) = <<>> => k <= n + 1
           /\ After(t, n) # <<>> => /\ k > n + 1 /\ After(t, n)[1] = n + 1
                                    /\ After(t, n)[Len(After(t, n))] = k - 1
           /\ \A i \in 1 .. Len(After(t, n)) : After(t, n)[i] = n + i
           /\ k > n + 1 => Len(After(t, n)) = k - 1 - n
  <1> DEFINE a == After(t, n)
             m == IF k > n + 1 THEN k - 1 - n ELSE 0
  <1>1. m \in Nat /\ 1 .. k - 1 - n = 1 .. m /\ (k > n + 1 => m = k - 1 - n) /\ (k <= n + 1 => m = 0) OBVIOUS
  <1>2. a = [i \in 1 .. k - 1 - n |-> n + i] BY DEF After
  <1> HIDE DEF a, m
  <1>3. a = [i \in 1 .. m |-> n + i] BY <1>1, <1>2
  <1>4. a \in [1 .. m -> Nat] BY <1>1, <1>3
  <1>5. a \in Seq(Nat) BY <1>1, <1>4, SeqDef
  <1>6. Len(a) = m
    <2>1. Len(a) \in Nat /\ 1 .. Len(a) = 1 .. m BY <1>3, <1>5, LenProperties
    <2> QED BY <1>1, <2>1
  <1>7. \A i \in 1 .. m : a[i] = n + i BY <1>3
  <1>8. Runs(a)
    <2> SUFFICES ASSUME NEW i \in 1 .. Len(a) - 1 PROVE a[i + 1] = a[i] + 1 BY DEF Runs
    <2>1. i \in 1 .. m /\ i + 1 \in 1 .. m BY <1>1, <1>6
    <2>2. a[i] = n + i /\ a[i + 1] = n + (i + 1) BY <1>7, <2>1
    <2> QED BY <2>1, <2>2
  <1>9. a = <<>> => m = 0 BY <1>6, EmptySeq
  <1>10. m = 0 => a = <<>> BY <1>5, <1>6, EmptySeq
  <1>11. a = <<>> => k <= n + 1 BY <1>1, <1>9
  <1>12. a # <<>> => k > n + 1 /\ a[1] = n + 1 /\ a[Len(a)] = k - 1
    <2>1. a # <<>> => k > n + 1 /\ m = k - 1 - n /\ 1 \in 1 .. m /\ m \in 1 .. m BY <1>1, <1>10
    <2> QED BY <1>6, <1>7, <2>1
  <1>13. a = After(t, n) BY DEF a
  <1> QED BY <1>1, <1>5, <1>6, <1>7, <1>8, <1>11, <1>12, <1>13

-----------------------------------------------------------------------------
(* The viewers while others move                                           *)

LEMMA ViewFields ==
    ASSUME NEW w \in Views
    PROVE  /\ w.at \in Stages /\ w.turn \in Turns /\ w.finished \in BOOLEAN /\ w.resumed \in BOOLEAN /\ w.last \in Nat
           /\ w.inbox \in Seq(Nat) /\ w.lagged \in BOOLEAN /\ w.open \in BOOLEAN /\ w.seen \in Seq(Nat)
  BY DEF Views

\* A log only gets longer, and a viewer whose channel is closed is not sent to.
LEMMA ViewedStays ==
    ASSUME NEW w \in Views, NEW k \in Nat, NEW m \in Nat, NEW n \in Int, NEW o \in Int, Viewed(w, k, n), m >= k,
           n = o \/ ~w.open
    PROVE  Viewed(w, m, o)
  <1>1. w.inbox \in Seq(Nat) BY ViewFields
  <1>2. \A i \in 1 .. Len(w.inbox) : w.inbox[i] \in Nat BY <1>1, ElementOfSeq
  <1>3. w.at \in {"history", "live"} => \A i \in 1 .. Len(w.inbox) : w.inbox[i] < m BY <1>2 DEF Viewed
  <1> QED BY <1>3 DEF Viewed

LogTold == \A t \in Turns : Len(log[t]) \in Nat /\ Sent(log[t], tpc[t]) \in Int

LEMMA LogIsTold == TurnTypes => LogTold
  <1> SUFFICES ASSUME TurnTypes, NEW t \in Turns PROVE Len(log[t]) \in Nat /\ Sent(log[t], tpc[t]) \in Int
    BY DEF LogTold
  <1>1. Len(log[t]) \in Nat BY TurnFields, LenProperties
  <1> QED BY <1>1 DEF Sent

LEMMA LogStaysTold == TurnTypes' => LogTold'
  BY LogIsTold, PTL

\* No log shrinks, and nothing goes over the bus.
NothingSent == \A t \in Turns : Len(log'[t]) >= Len(log[t]) /\ Sent(log'[t], tpc'[t]) = Sent(log[t], tpc[t])

LEMMA ViewsStay ==
    ASSUME TurnsKept, TurnsKept', ViewsKept, UNCHANGED view, NothingSent
    PROVE  ViewsKept'
  <1>1. LogTold /\ LogTold' BY LogIsTold, LogStaysTold DEF TurnsKept
  <1>2. ASSUME NEW v \in Viewers
        PROVE  Viewed(view[v], Len(log'[view[v].turn]), Sent(log'[view[v].turn], tpc'[view[v].turn]))
    <2> DEFINE t == view[v].turn
    <2>1. view[v] \in Views /\ t \in Turns BY ViewFields DEF ViewsKept
    <2>2. Viewed(view[v], Len(log[t]), Sent(log[t], tpc[t])) BY DEF ViewsKept
    <2> HIDE DEF t
    <2>3. /\ Len(log[t]) \in Nat /\ Sent(log[t], tpc[t]) \in Int /\ Len(log'[t]) \in Nat /\ Sent(log'[t], tpc'[t]) \in Int
          /\ Len(log'[t]) >= Len(log[t]) /\ Sent(log'[t], tpc'[t]) = Sent(log[t], tpc[t])
      BY <1>1, <2>1 DEF LogTold, NothingSent
    <2>4. Viewed(view[v], Len(log'[t]), Sent(log'[t], tpc'[t])) BY <2>1, <2>2, <2>3, ViewedStays
    <2> QED BY <2>4 DEF t
  <1> QED BY <1>2 DEF ViewsKept

LEMMA QuietTaskSendsNothing ==
    ASSUME TurnsKept, NEW t \in Turns, UNCHANGED log, NEW p \in TaskPoints, tpc' = [tpc EXCEPT ![t] = p],
           tpc[t] # "publish", p # "publish"
    PROVE  NothingSent
  <1> SUFFICES ASSUME NEW u \in Turns
               PROVE  Len(log[u]) >= Len(log[u]) /\ Sent(log[u], tpc'[u]) = Sent(log[u], tpc[u])
    BY DEF NothingSent
  <1>1. Len(log[u]) \in Nat BY LogIsTold DEF LogTold, TurnsKept
  <1>2. tpc'[u] = IF u = t THEN p ELSE tpc[u] BY DEF TurnsKept, TurnTypes
  <1> QED BY <1>1, <1>2 DEF Sent

LEMMA LogGrowsUnsent ==
    ASSUME TurnsKept, NEW t \in Turns, NEW k \in LogKinds, log' = [log EXCEPT ![t] = Append(@, k)],
           tpc' = [tpc EXCEPT ![t] = "publish"], tpc[t] # "publish"
    PROVE  NothingSent
  <1> SUFFICES ASSUME NEW u \in Turns
               PROVE  Len(log'[u]) >= Len(log[u]) /\ Sent(log'[u], tpc'[u]) = Sent(log[u], tpc[u])
    BY DEF NothingSent
  <1>1. Len(log[u]) \in Nat /\ log[u] \in Seq(LogKinds) BY LogIsTold, TurnFields DEF LogTold, TurnsKept
  <1>2. CASE u = t
    <2>1. log'[u] = Append(log[u], k) /\ tpc'[u] = "publish" BY <1>2 DEF TurnsKept, TurnTypes
    <2>2. Len(Append(log[u], k)) = Len(log[u]) + 1 BY <1>1, LogGrows
    <2> QED BY <1>1, <1>2, <2>1, <2>2 DEF Sent
  <1>3. CASE u # t
    <2>1. log'[u] = log[u] /\ tpc'[u] = tpc[u] BY <1>3 DEF TurnsKept, TurnTypes
    <2> QED BY <1>1, <2>1
  <1> QED BY <1>2, <1>3

\* A published event joins what waits for the viewers of its turn.
LEMMA ReceiveKeeps ==
    ASSUME NEW w \in Views, NEW k \in Nat, k >= 1, Viewed(w, k, k - 1), w.open
    PROVE  /\ Receive(w, k - 1) \in Views /\ Viewed(Receive(w, k - 1), k, k) /\ Receive(w, k - 1).turn = w.turn
           /\ Receive(w, k - 1).seen = w.seen
  <1>0. /\ w.inbox \in Seq(Nat) /\ Len(w.inbox) \in Nat /\ k - 1 \in Nat /\ w.last \in Nat
        /\ (w.inbox = <<>> <=> Len(w.inbox) = 0)
    BY ViewFields, LenProperties, EmptySeq
  <1>1. w.at \in {"history", "live"} BY DEF Viewed
  <1>2. /\ Runs(w.inbox) /\ (\A i \in 1 .. Len(w.inbox) : w.inbox[i] < k)
        /\ (w.inbox # <<>> => w.inbox[Len(w.inbox)] = k - 1 - 1)
    BY <1>1 DEF Viewed
  <1>3. ASSUME NEW b \in Seq(Nat), NEW g \in BOOLEAN, Runs(b), b # <<>>, \A i \in 1 .. Len(b) : b[i] < k,
               b[Len(b)] = k - 1, w.at = "live" /\ ~g => b[1] <= w.last + 1,
               Receive(w, k - 1) = [w EXCEPT !.inbox = b, !.lagged = g]
        PROVE  /\ Receive(w, k - 1) \in Views /\ Viewed(Receive(w, k - 1), k, k) /\ Receive(w, k - 1).turn = w.turn
               /\ Receive(w, k - 1).seen = w.seen
    <2> DEFINE x == [w EXCEPT !.inbox = b, !.lagged = g]
    <2>1. x \in Views BY DEF Views
    <2>2. /\ x.at = w.at /\ x.turn = w.turn /\ x.resumed = w.resumed /\ x.last = w.last /\ x.open = w.open
          /\ x.seen = w.seen /\ x.inbox = b /\ x.lagged = g
      BY DEF Views
    <2>3. Receive(w, k - 1) = x BY <1>3
    <2> HIDE DEF x
    <2>4. AtLatest(x) <=> AtLatest(w) BY <2>2 DEF AtLatest, Latest
    <2>5. Viewed(x, k, k) BY <1>1, <1>3, <2>2, <2>4 DEF Viewed
    <2> QED BY <2>1, <2>2, <2>3, <2>5
  <1>4. CASE Len(w.inbox) < BusCap
    <2> DEFINE b == Append(w.inbox, k - 1)
    <2>a. w.inbox # <<>> => w.inbox[Len(w.inbox)] = k - 1 - 1 BY <1>2
    <2>1. /\ b \in Seq(Nat) /\ b # <<>> /\ Len(b) = Len(w.inbox) + 1 /\ Runs(b) /\ b[Len(w.inbox) + 1] = k - 1
          /\ \A i \in 1 .. Len(w.inbox) : b[i] = w.inbox[i]
      BY <1>0, <1>2, <2>a, RunsAppend
    <2>2. Receive(w, k - 1) = [w EXCEPT !.inbox = b, !.lagged = w.lagged] BY <1>4 DEF Receive, Views
    <2> HIDE DEF b
    <2>3. b[Len(b)] = k - 1 BY <2>1
    <2>4. \A i \in 1 .. Len(b) : b[i] < k
      <3> SUFFICES ASSUME NEW i \in 1 .. Len(b) PROVE b[i] < k OBVIOUS
      <3>1. i \in 1 .. Len(w.inbox) \/ i = Len(w.inbox) + 1 BY <1>0, <2>1
      <3>2. k - 1 < k OBVIOUS
      <3> QED BY <1>2, <2>1, <3>1, <3>2
    <2>5. w.at = "live" /\ ~w.lagged => b[1] <= w.last + 1
      <3>1. CASE w.inbox = <<>>
        <4>1. b[1] = k - 1 BY <1>0, <2>1, <3>1
        <4> QED BY <3>1, <4>1 DEF Viewed
      <3>2. CASE w.inbox # <<>>
        <4>1. 1 \in 1 .. Len(w.inbox) BY <1>0, <3>2
        <4>2. b[1] = w.inbox[1] BY <2>1, <4>1
        <4> QED BY <3>2, <4>2 DEF Viewed
      <3> QED BY <3>1, <3>2
    <2>6. w.lagged \in BOOLEAN BY ViewFields
    <2> QED BY <1>3, <2>1, <2>2, <2>3, <2>4, <2>5, <2>6
  <1>5. CASE ~(Len(w.inbox) < BusCap)
    <2>1. w.inbox # <<>> BY <1>0, <1>5, BoundAssumption
    <2> DEFINE r == Tail(w.inbox)
    <2>2. /\ r \in Seq(Nat) /\ Runs(r) /\ Len(w.inbox) >= 1 /\ Len(r) = Len(w.inbox) - 1
          /\ (\A i \in 1 .. Len(r) : r[i] = w.inbox[i + 1]) /\ (r # <<>> => r[Len(r)] = w.inbox[Len(w.inbox)])
      BY <1>0, <1>2, <2>1, RunsTail
    <2>3. Receive(w, k - 1) = [w EXCEPT !.inbox = Append(r, k - 1), !.lagged = TRUE] BY <1>5 DEF Receive
    <2> HIDE DEF r
    <2> DEFINE b == Append(r, k - 1)
    <2>a. r \in Seq(Nat) /\ k - 1 \in Nat /\ Runs(r) /\ (r # <<>> => r[Len(r)] = k - 1 - 1) BY <1>0, <1>2, <2>1, <2>2
    <2>4. /\ b \in Seq(Nat) /\ b # <<>> /\ Len(b) = Len(r) + 1 /\ Runs(b) /\ b[Len(r) + 1] = k - 1
          /\ \A i \in 1 .. Len(r) : b[i] = r[i]
      BY ONLY <2>a, RunsAppend
    <2>5. Receive(w, k - 1) = [w EXCEPT !.inbox = b, !.lagged = TRUE] BY <2>3
    <2> HIDE DEF b
    <2>6. b[Len(b)] = k - 1 BY <2>4
    <2>7. \A i \in 1 .. Len(b) : b[i] < k
      <3> SUFFICES ASSUME NEW i \in 1 .. Len(b) PROVE b[i] < k OBVIOUS
      <3>1. i \in 1 .. Len(r) \/ i = Len(r) + 1 BY <1>0, <2>2, <2>4
      <3>2. k - 1 < k OBVIOUS
      <3>3. ASSUME i \in 1 .. Len(r) PROVE b[i] < k
        <4>1. i + 1 \in 1 .. Len(w.inbox) BY <1>0, <2>2, <3>3
        <4>2. w.inbox[i + 1] < k BY <1>2, <4>1
        <4> QED BY <2>2, <2>4, <3>3, <4>2
      <3> QED BY <2>4, <3>1, <3>2, <3>3
    <2> QED BY <1>3, <2>4, <2>5, <2>6, <2>7
  <1> QED BY <1>4, <1>5

LEMMA PublishKeeps == ASSUME TurnsKept, TurnsKept', ViewsKept, NEW t \in Turns, Publish(t) PROVE ViewsKept'
  <1>0. /\ tpc[t] = "publish" /\ tpc' = [tpc EXCEPT ![t] = "recv"] /\ log' = log
        /\ view' = [v \in Viewers |->
                       IF view[v].open /\ view[v].turn = t THEN Receive(view[v], Len(log[t]) - 1) ELSE view[v]]
    BY DEF Publish, Drives
  <1>1. Len(log[t]) \in Nat /\ Len(log[t]) >= 1
    <2>1. log[t] \in Seq(LogKinds) /\ log[t] # <<>> BY <1>0, TurnKnown, TurnFields DEF TurnKept
    <2> QED BY <2>1, LenProperties, EmptySeq
  <1>2. Sent(log[t], tpc[t]) = Len(log[t]) - 1 /\ Sent(log'[t], tpc'[t]) = Len(log[t])
    BY <1>0 DEF Sent, TurnsKept, TurnTypes
  <1>3. ASSUME NEW v \in Viewers
        PROVE  view'[v] \in Views /\ Viewed(view'[v], Len(log'[view'[v].turn]), Sent(log'[view'[v].turn], tpc'[view'[v].turn]))
    <2> DEFINE w == view[v]
    <2>1. w \in Views /\ w.turn \in Turns /\ Viewed(w, Len(log[w.turn]), Sent(log[w.turn], tpc[w.turn]))
      BY ViewFields DEF ViewsKept
    <2>2. view'[v] = IF w.open /\ w.turn = t THEN Receive(w, Len(log[t]) - 1) ELSE w BY <1>0
    <2> HIDE DEF w
    <2>3. CASE w.open /\ w.turn = t
      <3>1. Viewed(w, Len(log[t]), Len(log[t]) - 1) BY <1>2, <2>1, <2>3
      <3> DEFINE x == Receive(w, Len(log[t]) - 1)
      <3>2. x \in Views /\ Viewed(x, Len(log[t]), Len(log[t])) /\ x.turn = t
        BY <1>1, <2>1, <2>3, <3>1, ReceiveKeeps
      <3>3. view'[v] = x BY <2>2, <2>3
      <3> HIDE DEF x
      <3> QED BY <1>0, <1>2, <3>2, <3>3
    <2>4. CASE w.turn = t /\ ~w.open
      <3>1. Viewed(w, Len(log[t]), Len(log[t]))
        <4>1. Len(log[t]) - 1 \in Int /\ Len(log[t]) \in Int /\ Len(log[t]) >= Len(log[t]) BY <1>1
        <4>2. Viewed(w, Len(log[t]), Len(log[t]) - 1) BY <1>2, <2>1, <2>4
        <4> QED BY <1>1, <2>1, <2>4, <4>1, <4>2, ViewedStays
      <3> QED BY <1>0, <1>2, <2>1, <2>2, <2>4, <3>1
    <2>5. CASE w.turn # t
      <3>1. tpc'[w.turn] = tpc[w.turn] BY <1>0, <2>1, <2>5 DEF TurnsKept, TurnTypes
      <3> QED BY <1>0, <2>1, <2>2, <2>5, <3>1
    <2> QED BY <2>3, <2>4, <2>5
  <1>4. view' \in [Viewers -> Views] BY <1>0, <1>3
  <1> QED BY <1>3, <1>4 DEF ViewsKept

\* The bus of a turn is closed, by its task or by a cancel.
LEMMA CloseBusKeeps ==
    ASSUME TurnsKept, TurnsKept', ViewsKept, NEW t \in Turns, CloseBus(t), NothingSent
    PROVE  ViewsKept'
  <1>0. view' = [v \in Viewers |-> IF view[v].turn = t THEN [view[v] EXCEPT !.open = FALSE] ELSE view[v]]
    BY DEF CloseBus
  <1>1. LogTold /\ LogTold' BY LogIsTold, LogStaysTold DEF TurnsKept
  <1>2. ASSUME NEW v \in Viewers
        PROVE  view'[v] \in Views /\ Viewed(view'[v], Len(log'[view'[v].turn]), Sent(log'[view'[v].turn], tpc'[view'[v].turn]))
    <2> DEFINE w == view[v]
    <2>1. w \in Views /\ w.turn \in Turns /\ Viewed(w, Len(log[w.turn]), Sent(log[w.turn], tpc[w.turn]))
      BY ViewFields DEF ViewsKept
    <2> DEFINE x == [w EXCEPT !.open = FALSE]
    <2>2. x \in Views /\ x.turn = w.turn BY <2>1 DEF Views
    <2>3. /\ x.at = w.at /\ x.resumed = w.resumed /\ x.last = w.last /\ x.open = FALSE
          /\ x.seen = w.seen /\ x.inbox = w.inbox /\ x.lagged = w.lagged
      BY <2>1 DEF Views
    <2>4. view'[v] = IF w.turn = t THEN x ELSE w BY <1>0
    <2> HIDE DEF w, x
    <2>5. /\ Len(log[w.turn]) \in Nat /\ Sent(log[w.turn], tpc[w.turn]) \in Int
          /\ Len(log'[w.turn]) \in Nat /\ Sent(log'[w.turn], tpc'[w.turn]) \in Int
          /\ Len(log'[w.turn]) >= Len(log[w.turn]) /\ Sent(log'[w.turn], tpc'[w.turn]) = Sent(log[w.turn], tpc[w.turn])
      BY <1>1, <2>1 DEF LogTold, NothingSent
    <2>6. Viewed(w, Len(log'[w.turn]), Sent(log'[w.turn], tpc'[w.turn])) BY <2>1, <2>5, ViewedStays
    <2>7. AtLatest(x) <=> AtLatest(w) BY <2>3 DEF AtLatest, Latest
    <2>8. Viewed(x, Len(log'[w.turn]), Sent(log'[w.turn], tpc'[w.turn])) BY <2>3, <2>6, <2>7 DEF Viewed
    <2> QED BY <2>1, <2>2, <2>4, <2>6, <2>8
  <1>3. view' \in [Viewers -> Views] BY <1>0, <1>2
  <1> QED BY <1>2, <1>3 DEF ViewsKept

-----------------------------------------------------------------------------
(* The viewers' own steps                                                  *)

LEMMA ViewMoves ==
    ASSUME TurnsKept, ViewsKept, NEW v \in Viewers, NEW x \in Views, View(v, x),
           Viewed(x, Len(log[x.turn]), Sent(log[x.turn], tpc[x.turn]))
    PROVE  ViewsKept'
  <1>1. UNCHANGED <<log, tpc>> /\ view' = [view EXCEPT ![v] = x] BY DEF View, task
  <1>2. view' \in [Viewers -> Views] BY <1>1 DEF ViewsKept
  <1>3. ASSUME NEW u \in Viewers
        PROVE  Viewed(view'[u], Len(log[view'[u].turn]), Sent(log[view'[u].turn], tpc[view'[u].turn]))
    <2>1. CASE u = v
      <3>1. view'[u] = x BY <1>1, <2>1 DEF ViewsKept
      <3> QED BY <3>1
    <2>2. CASE u # v
      <3>1. view'[u] = view[u] BY <1>1, <2>2 DEF ViewsKept
      <3> QED BY <3>1 DEF ViewsKept
    <2> QED BY <2>1, <2>2
  <1> QED BY <1>1, <1>2, <1>3 DEF ViewsKept

LEMMA ViewKnown ==
    ASSUME TurnsKept, ViewsKept, NEW v \in Viewers
    PROVE  /\ view[v] \in Views /\ view[v].turn \in Turns
           /\ Viewed(view[v], Len(log[view[v].turn]), Sent(log[view[v].turn], tpc[view[v].turn]))
           /\ Len(log[view[v].turn]) \in Nat /\ Sent(log[view[v].turn], tpc[view[v].turn]) \in Int
           /\ Sent(log[view[v].turn], tpc[view[v].turn]) <= Len(log[view[v].turn])
  <1>1. view[v] \in Views /\ view[v].turn \in Turns BY ViewFields DEF ViewsKept
  <1>2. Len(log[view[v].turn]) \in Nat BY <1>1, LogIsTold DEF LogTold, TurnsKept
  <1>3. /\ Sent(log[view[v].turn], tpc[view[v].turn]) \in Int
        /\ Sent(log[view[v].turn], tpc[view[v].turn]) <= Len(log[view[v].turn])
    BY <1>2 DEF Sent
  <1> QED BY <1>1, <1>2, <1>3 DEF ViewsKept

LEMMA LeaveIs ==
    ASSUME NEW w \in Views, NEW p \in Stages
    PROVE  /\ Leave(w, p) \in Views
           /\ Leave(w, p).at = p /\ Leave(w, p).turn = w.turn /\ Leave(w, p).seen = w.seen
           /\ Leave(w, p).resumed = FALSE /\ Leave(w, p).last = 0 /\ Leave(w, p).inbox = <<>>
           /\ Leave(w, p).lagged = FALSE /\ Leave(w, p).open = FALSE
           /\ \A k, n : InOrder(w.seen) /\ p \in {"status", "done", "ended"} => Viewed(Leave(w, p), k, n)
  <1> DEFINE x == Leave(w, p)
  <1>1. NewView \in Views
    <2>1. 1 \in Turns BY BoundAssumption DEF Turns
    <2>2. <<>> \in Seq(Nat) BY EmptySeq
    <2> QED BY <2>1, <2>2 DEF NewView, Views, Stages
  <1>2. /\ x \in Views /\ x.at = p /\ x.turn = w.turn /\ x.seen = w.seen /\ x.resumed = FALSE /\ x.last = 0
        /\ x.inbox = <<>> /\ x.lagged = FALSE /\ x.open = FALSE
    BY <1>1, ViewFields DEF Leave, NewView, Views
  <1>3. x = Leave(w, p) OBVIOUS
  <1> HIDE DEF x
  <1>4. ASSUME NEW k, NEW n, InOrder(w.seen), p \in {"status", "done", "ended"} PROVE Viewed(x, k, n)
    BY <1>2, <1>4 DEF Viewed
  <1> QED BY <1>2, <1>3, <1>4

LEMMA ShowsIs ==
    ASSUME NEW w \in Views, NEW s \in Seq(Nat), InOrder(w.seen), AtLatest(w), Runs(s),
           s # <<>> => s[1] = w.last + 1 \/ (w.seen = <<>> /\ s[1] = 0)
    PROVE  /\ Shows(w, s) \in Views
           /\ Shows(w, s).at = w.at /\ Shows(w, s).turn = w.turn /\ Shows(w, s).finished = w.finished
           /\ Shows(w, s).resumed = w.resumed /\ Shows(w, s).inbox = w.inbox /\ Shows(w, s).lagged = w.lagged
           /\ Shows(w, s).open = w.open
           /\ Shows(w, s).seen = w.seen \o s
           /\ InOrder(Shows(w, s).seen) /\ AtLatest(Shows(w, s))
           /\ Shows(w, s).last = IF s = <<>> THEN w.last ELSE s[Len(s)]
  <1> DEFINE q == w.seen \o s
             l == IF s = <<>> THEN w.last ELSE s[Len(s)]
  <1>1. w.seen \in Seq(Nat) /\ w.last \in Nat BY ViewFields
  <1>2. w.seen # <<>> => w.last = w.seen[Len(w.seen)] BY DEF AtLatest, Latest
  <1>3. w.seen = <<>> => w.last = 0 BY DEF AtLatest
  <1>4. w.seen # <<>> /\ s # <<>> => s[1] = w.seen[Len(w.seen)] + 1 BY <1>2
  <1>5. /\ q \in Seq(Nat) /\ Runs(q) /\ (w.seen # <<>> => q # <<>> /\ q[1] = w.seen[1])
        /\ (s # <<>> => q # <<>> /\ q[Len(q)] = s[Len(s)]) /\ (w.seen = <<>> => q = s) /\ (s = <<>> => q = w.seen)
    BY <1>1, <1>4, RunsConcat DEF InOrder
  <1>6. l \in Nat
    <2>1. s # <<>> => Len(s) \in 1 .. Len(s) BY LenProperties, EmptySeq
    <2>2. s # <<>> => s[Len(s)] \in Nat BY <2>1, ElementOfSeq
    <2> QED BY <1>1, <2>2
  <1>7. Shows(w, s) = [w EXCEPT !.seen = q, !.last = l] BY DEF Shows, Views
  <1>a. (s = <<>> => l = w.last) /\ (s # <<>> => l = s[Len(s)]) /\ l = IF s = <<>> THEN w.last ELSE s[Len(s)] OBVIOUS
  <1>b. q = w.seen \o s OBVIOUS
  <1> HIDE DEF q, l
  <1> DEFINE x == Shows(w, s)
  <1>8. /\ x \in Views /\ x.at = w.at /\ x.turn = w.turn /\ x.finished = w.finished /\ x.resumed = w.resumed
        /\ x.inbox = w.inbox /\ x.lagged = w.lagged /\ x.open = w.open /\ x.seen = q /\ x.last = l
    BY <1>5, <1>6, <1>7 DEF Views
  <1>c. x = Shows(w, s) OBVIOUS
  <1> HIDE DEF x
  <1>9. InOrder(x.seen)
    <2>1. CASE w.seen = <<>>
      <3>1. s # <<>> => s[1] \in {0, 1} BY <1>3, <2>1
      <3> QED BY <1>5, <1>8, <2>1, <3>1 DEF InOrder
    <2>2. CASE w.seen # <<>> BY <1>5, <1>8, <2>2 DEF InOrder
    <2> QED BY <2>1, <2>2
  <1>10. AtLatest(x)
    <2>1. CASE s = <<>>
      <3>1. x.last = w.last /\ x.seen = w.seen BY <1>5, <1>8, <1>a, <2>1
      <3> QED BY <3>1 DEF AtLatest, Latest
    <2>2. CASE s # <<>>
      <3>1. x.seen # <<>> /\ x.last = x.seen[Len(x.seen)] BY <1>5, <1>8, <1>a, <2>2
      <3> QED BY <3>1 DEF AtLatest, Latest
    <2> QED BY <2>1, <2>2
  <1> QED BY <1>8, <1>9, <1>10, <1>a, <1>b, <1>c
LEMMA NothingInOrder == <<>> \in Seq(Nat) /\ Len(<<>>) = 0 /\ Runs(<<>>) /\ InOrder(<<>>)
  <1>1. <<>> \in Seq(Nat) /\ Len(<<>>) = 0 BY EmptySeq
  <1>2. Runs(<<>>) BY <1>1 DEF Runs
  <1> QED BY <1>1, <1>2 DEF InOrder

\* A viewer w that has been shown s, up to the last of k events, is y.
CaughtUp(w, y, s, k) ==
    /\ y \in Views /\ y.at = w.at /\ y.turn = w.turn /\ y.finished = w.finished /\ y.resumed = w.resumed
    /\ y.inbox = w.inbox /\ y.lagged = w.lagged /\ y.open = w.open /\ y.seen = w.seen \o s
    /\ InOrder(y.seen) /\ AtLatest(y) /\ y.last \in Nat /\ k <= y.last + 1

\* A viewer reads on in the database, after the event n.
LEMMA CatchesUp ==
    ASSUME NEW w \in Views, NEW k \in Nat, Len(log[w.turn]) = k, InOrder(w.seen), AtLatest(w),
           NEW n \in Nat \cup {-1}, n = w.last \/ (n = -1 /\ w.seen = <<>>)
    PROVE  CaughtUp(w, Shows(w, After(w.turn, n)), After(w.turn, n), k)
  <1> DEFINE s == After(w.turn, n)
  <1>1. w.turn \in Turns /\ w.last \in Nat BY ViewFields
  <1>2. /\ s \in Seq(Nat) /\ Runs(s) /\ (s = <<>> => k <= n + 1)
        /\ (s # <<>> => s[1] = n + 1 /\ s[Len(s)] = k - 1)
    BY <1>1, AfterIs
  <1>3. w.seen = <<>> => w.last = 0 BY DEF AtLatest
  <1>4. s # <<>> => s[1] = w.last + 1 \/ (w.seen = <<>> /\ s[1] = 0) BY <1>2
  <1> HIDE DEF s
  <1> DEFINE y == Shows(w, s)
  <1>5. /\ y \in Views /\ y.at = w.at /\ y.turn = w.turn /\ y.finished = w.finished /\ y.resumed = w.resumed
        /\ y.inbox = w.inbox /\ y.lagged = w.lagged /\ y.open = w.open /\ y.seen = w.seen \o s
        /\ InOrder(y.seen) /\ AtLatest(y) /\ y.last = IF s = <<>> THEN w.last ELSE s[Len(s)]
    BY <1>2, <1>4, ShowsIs
  <1> HIDE DEF y
  <1>6. y.last \in Nat BY <1>5, ViewFields
  <1>7. k <= y.last + 1 BY <1>1, <1>2, <1>3, <1>5
  <1>8. CaughtUp(w, y, s, k) BY <1>5, <1>6, <1>7 DEF CaughtUp
  <1> QED BY <1>8 DEF s, y

LEMMA OpenKeeps ==
    ASSUME TurnsKept, ViewsKept, NEW v \in Viewers, NEW t \in Turns, Open(v, t)
    PROVE  ViewsKept'
  <1> DEFINE f == Terminal(t)
             x == [NewView EXCEPT !.at = "subscribe", !.turn = t, !.finished = f]
  <1>1. View(v, x) BY DEF Open
  <1>a. f \in BOOLEAN BY DEF Terminal
  <1> HIDE DEF f
  <1>2. x \in Views BY <1>a, NothingInOrder DEF NewView, Views, Stages
  <1>3. /\ x.at = "subscribe" /\ x.turn = t /\ x.resumed = FALSE /\ x.last = 0 /\ x.inbox = <<>>
        /\ x.lagged = FALSE /\ x.open = FALSE /\ x.seen = <<>>
    BY DEF NewView
  <1> HIDE DEF x
  <1>4. InOrder(x.seen) /\ AtLatest(x) BY <1>3, NothingInOrder DEF AtLatest
  <1>5. Viewed(x, Len(log[x.turn]), Sent(log[x.turn], tpc[x.turn])) BY <1>3, <1>4 DEF Viewed
  <1> QED BY <1>1, <1>2, <1>5, ViewMoves

LEMMA ReopenKeeps ==
    ASSUME TurnsKept, ViewsKept, NEW v \in Viewers, Reopen(v)
    PROVE  ViewsKept'
  <1> DEFINE w == view[v]
             b == w.seen # <<>>
             l == IF w.seen = <<>> THEN 0 ELSE Latest(w)
             f == Terminal(w.turn)
             u == Leave(w, "subscribe")
             x == [u EXCEPT !.finished = f, !.resumed = b, !.last = l]
  <1>1. View(v, x) BY DEF Reopen
  <1>2. w \in Views /\ w.seen \in Seq(Nat) BY ViewKnown, ViewFields
  <1>3. InOrder(w.seen) BY ViewKnown DEF Viewed
  <1>4. l \in Nat
    <2>1. w.seen # <<>> => Len(w.seen) \in 1 .. Len(w.seen) BY <1>2, LenProperties, EmptySeq
    <2>2. w.seen # <<>> => w.seen[Len(w.seen)] \in Nat BY <1>2, <2>1, ElementOfSeq
    <2> QED BY <2>2 DEF Latest
  <1>5. f \in BOOLEAN /\ b \in BOOLEAN /\ "subscribe" \in Stages BY DEF Terminal, Stages
  <1>6. l = IF w.seen = <<>> THEN 0 ELSE w.seen[Len(w.seen)] BY DEF Latest
  <1>7. b <=> w.seen # <<>> OBVIOUS
  <1> HIDE DEF w, b, l, f
  <1>8. /\ u \in Views /\ u.at = "subscribe" /\ u.seen = w.seen /\ u.inbox = <<>> /\ u.lagged = FALSE /\ u.open = FALSE
    BY <1>2, <1>5, LeaveIs
  <1> HIDE DEF u
  <1>9. /\ x \in Views /\ x.at = "subscribe" /\ x.seen = w.seen /\ x.inbox = <<>> /\ x.lagged = FALSE /\ x.open = FALSE
        /\ x.resumed = b /\ x.last = l
    BY <1>4, <1>5, <1>8 DEF Views
  <1> HIDE DEF x
  <1>10. AtLatest(x) BY <1>6, <1>9 DEF AtLatest, Latest
  <1>11. Viewed(x, Len(log[x.turn]), Sent(log[x.turn], tpc[x.turn])) BY <1>3, <1>7, <1>9, <1>10 DEF Viewed
  <1> QED BY <1>1, <1>9, <1>11, ViewMoves

LEMMA SubscribeKeeps ==
    ASSUME TurnsKept, ViewsKept, NEW v \in Viewers, Subscribe(v)
    PROVE  ViewsKept'
  <1> DEFINE w == view[v]
             k == Len(log[w.turn])
             n == Sent(log[w.turn], tpc[w.turn])
             x == [w EXCEPT !.at = "history", !.open = TRUE]
  <1>1. View(v, x) /\ w.at = "subscribe" BY DEF Subscribe
  <1>2. w \in Views /\ Viewed(w, k, n) BY ViewKnown
  <1> HIDE DEF w
  <1>3. /\ x \in Views /\ x.at = "history" /\ x.turn = w.turn /\ x.resumed = w.resumed /\ x.last = w.last
        /\ x.inbox = w.inbox /\ x.lagged = w.lagged /\ x.open = TRUE /\ x.seen = w.seen
    BY <1>2 DEF Views, Stages
  <1> HIDE DEF x, k, n
  <1>4. w.inbox = <<>> /\ InOrder(w.seen) /\ AtLatest(w) /\ (w.resumed <=> w.seen # <<>>) BY <1>1, <1>2 DEF Viewed
  <1>5. AtLatest(x) BY <1>3, <1>4 DEF AtLatest, Latest
  <1>6. \A i \in 1 .. Len(x.inbox) : x.inbox[i] < k BY <1>3, <1>4, NothingInOrder
  <1>7. Viewed(x, k, n) BY <1>3, <1>4, <1>5, <1>6, NothingInOrder DEF Viewed
  <1>8. Viewed(x, Len(log[x.turn]), Sent(log[x.turn], tpc[x.turn])) BY <1>3, <1>7 DEF k, n
  <1> QED BY <1>1, <1>3, <1>8, ViewMoves
LEMMA HistoryKeeps ==
    ASSUME TurnsKept, ViewsKept, NEW v \in Viewers, History(v)
    PROVE  ViewsKept'
  <1> DEFINE w == view[v]
             k == Len(log[w.turn])
             n == Sent(log[w.turn], tpc[w.turn])
             e == IF w.resumed THEN w.last ELSE -1
             y == Shows(w, After(w.turn, e))
             z == [y EXCEPT !.at = "live"]
  <1>1. w.at = "history" /\ View(v, IF w.finished THEN Leave(y, "done") ELSE z) BY DEF History
  <1>2. w \in Views /\ Viewed(w, k, n) /\ k \in Nat /\ n \in Int /\ n <= k BY ViewKnown
  <1>3. k = Len(log[w.turn]) /\ (w.resumed => e = w.last) /\ (~w.resumed => e = -1) OBVIOUS
  <1>4. k = Len(log[w.turn]) /\ n = Sent(log[w.turn], tpc[w.turn]) OBVIOUS
  <1> HIDE DEF w, e, k, n
  <1>5. InOrder(w.seen) /\ AtLatest(w) /\ (w.resumed <=> w.seen # <<>>) BY <1>1, <1>2 DEF Viewed
  <1>6. e \in Nat \cup {-1} /\ (e = w.last \/ (e = -1 /\ w.seen = <<>>)) BY <1>2, <1>3, <1>5, ViewFields
  <1>7. CaughtUp(w, y, After(w.turn, e), k)
    <2>1. w \in Views /\ k \in Nat /\ Len(log[w.turn]) = k /\ InOrder(w.seen) /\ AtLatest(w) BY <1>2, <1>3, <1>5
    <2>2. e \in Nat \cup {-1} BY <1>6
    <2>3. e = w.last \/ (e = -1 /\ w.seen = <<>>) BY <1>6
    <2> QED BY <2>1, <2>2, <2>3, CatchesUp
  <1> HIDE DEF y
  <1>8. CASE w.finished
    <2> DEFINE x == Leave(y, "done")
    <2>1. x \in Views /\ Viewed(x, Len(log[x.turn]), Sent(log[x.turn], tpc[x.turn])) BY <1>7, LeaveIs DEF Stages, CaughtUp
    <2>2. View(v, x) BY <1>1, <1>8
    <2> QED BY <2>1, <2>2, ViewMoves
  <1>9. CASE ~w.finished
    <2>1. /\ z \in Views /\ z.at = "live" /\ z.turn = w.turn /\ z.inbox = w.inbox /\ z.lagged = w.lagged
          /\ z.open = w.open /\ z.seen = y.seen /\ z.last = y.last
      BY <1>7 DEF Views, Stages, CaughtUp
    <2> HIDE DEF z
    <2>2. AtLatest(z) BY <1>7, <2>1 DEF AtLatest, Latest, CaughtUp
    <2>3. w.inbox \in Seq(Nat) BY <1>2, ViewFields
    <2>4. w.inbox # <<>> => 1 \in 1 .. Len(w.inbox) BY <2>3, LenProperties, EmptySeq
    <2>5. w.inbox # <<>> => w.inbox[1] < k /\ w.inbox[1] \in Nat BY <1>1, <1>2, <2>3, <2>4, ElementOfSeq DEF Viewed
    <2>6. w.inbox # <<>> => w.inbox[1] <= z.last + 1 BY <1>2, <1>7, <2>1, <2>5 DEF CaughtUp
    <2>7. n <= z.last + 1 BY <1>2, <1>7, <2>1 DEF CaughtUp
    <2>8. Viewed(z, k, n) BY <1>1, <1>2, <1>7, <2>1, <2>2, <2>6, <2>7 DEF Viewed, CaughtUp
    <2>9. Viewed(z, Len(log[z.turn]), Sent(log[z.turn], tpc[z.turn])) BY <1>4, <2>1, <2>8
    <2>10. View(v, z) BY <1>1, <1>9
    <2> QED BY <2>1, <2>9, <2>10, ViewMoves
  <1> QED BY <1>8, <1>9

\* A viewer takes the first of what waits for it, having been shown it.
LEMMA TakesNext ==
    ASSUME NEW w \in Views, NEW y \in Views, NEW k \in Nat, NEW n \in Int, w.at = "live", ~w.lagged, w.inbox # <<>>,
           Viewed(w, k, n), y.at = w.at, y.turn = w.turn, y.lagged = w.lagged, y.open = w.open, y.inbox = w.inbox,
           y.last \in Nat, y.last >= w.inbox[1], InOrder(y.seen), AtLatest(y)
    PROVE  LET x == [y EXCEPT !.inbox = Tail(w.inbox)] IN
           x \in Views /\ x.turn = w.turn /\ x.seen = y.seen /\ Viewed(x, k, n)
  <1> DEFINE b == Tail(w.inbox)
             x == [y EXCEPT !.inbox = b]
  <1>1. w.inbox \in Seq(Nat) BY ViewFields
  <1>2. /\ Runs(w.inbox) /\ (\A i \in 1 .. Len(w.inbox) : w.inbox[i] < k)
        /\ (w.open => w.inbox[Len(w.inbox)] = n - 1)
    BY DEF Viewed
  <1>3. /\ b \in Seq(Nat) /\ Runs(b) /\ w.inbox[1] \in Nat /\ Len(w.inbox) \in Nat /\ Len(w.inbox) >= 1
        /\ Len(b) = Len(w.inbox) - 1 /\ (\A i \in 1 .. Len(b) : b[i] = w.inbox[i + 1])
        /\ (b # <<>> => b[1] = w.inbox[1] + 1 /\ b[Len(b)] = w.inbox[Len(w.inbox)])
        /\ (b = <<>> => w.inbox[Len(w.inbox)] = w.inbox[1])
    BY <1>1, <1>2, RunsTail
  <1> HIDE DEF b
  <1>4. /\ x \in Views /\ x.at = "live" /\ x.turn = w.turn /\ x.lagged = w.lagged /\ x.open = w.open /\ x.inbox = b
        /\ x.last = y.last /\ x.seen = y.seen
    BY <1>3 DEF Views
  <1> HIDE DEF x
  <1>5. AtLatest(x) BY <1>4 DEF AtLatest, Latest
  <1>6. \A i \in 1 .. Len(b) : b[i] < k
    <2> SUFFICES ASSUME NEW i \in 1 .. Len(b) PROVE b[i] < k OBVIOUS
    <2>a. Len(w.inbox) \in Nat /\ Len(b) = Len(w.inbox) - 1 BY <1>3
    <2>1. i + 1 \in 1 .. Len(w.inbox) BY <2>a
    <2>2. w.inbox[i + 1] < k BY <1>2, <2>1
    <2>3. b[i] = w.inbox[i + 1] BY <1>3
    <2> QED BY <2>2, <2>3
  <1>7. b # <<>> => b[1] <= x.last + 1
    <2>1. b # <<>> => b[1] = w.inbox[1] + 1 BY <1>3
    <2>2. x.last \in Nat /\ x.last >= w.inbox[1] /\ w.inbox[1] \in Nat BY <1>3, <1>4
    <2> QED BY <2>1, <2>2
  <1>8. w.open /\ b = <<>> => n <= x.last + 1 BY <1>2, <1>3, <1>4
  <1>9. w.open /\ b # <<>> => b[Len(b)] = n - 1 BY <1>2, <1>3
  <1>10. Viewed(x, k, n) BY <1>3, <1>4, <1>5, <1>6, <1>7, <1>8, <1>9 DEF Viewed
  <1> QED BY <1>4, <1>10 DEF x, b
LEMMA LiveKeeps ==
    ASSUME TurnsKept, ViewsKept, NEW v \in Viewers, Live(v)
    PROVE  ViewsKept'
  <1> DEFINE w == view[v]
             k == Len(log[w.turn])
             m == Sent(log[w.turn], tpc[w.turn])
             n == Head(w.inbox)
             y == Shows(w, <<n>>)
             b == Tail(w.inbox)
             x == [y EXCEPT !.inbox = b]
             z == [w EXCEPT !.inbox = b]
             end == log[w.turn][n + 1] \in EndKinds
  <1>1. w.at = "live" /\ ~w.lagged /\ w.inbox # <<>> BY DEF Live
  <1>2. w \in Views /\ Viewed(w, k, m) /\ k \in Nat /\ m \in Int BY ViewKnown
  <1>3. w.inbox \in Seq(Nat) /\ w.last \in Nat BY <1>2, ViewFields
  <1>4. InOrder(w.seen) /\ AtLatest(w) /\ Runs(w.inbox) /\ w.inbox[1] <= w.last + 1 BY <1>1, <1>2 DEF Viewed
  <1>5. n = w.inbox[1] /\ n \in Nat BY <1>1, <1>3, <1>4, RunsTail
  <1>6. view[v] = w /\ k = Len(log[w.turn]) /\ m = Sent(log[w.turn], tpc[w.turn]) /\ n = Head(w.inbox) OBVIOUS
  <1>7. CASE n <= w.last
    <2>1. View(v, z) BY <1>7 DEF Live
    <2> HIDE DEF w, k, m, n
    <2>2. z \in Views /\ z.turn = w.turn /\ Viewed(z, k, m) BY <1>1, <1>2, <1>3, <1>4, <1>5, <1>7, TakesNext
    <2> HIDE DEF z
    <2>3. Viewed(z, Len(log[z.turn]), Sent(log[z.turn], tpc[z.turn])) BY <1>6, <2>2
    <2> QED BY <2>1, <2>2, <2>3, ViewMoves
  <1>8. CASE ~(n <= w.last)
    <2>0. /\ y.inbox = w.inbox => [y EXCEPT !.inbox = Tail(@)] = x
      BY DEF Views
    <2>1. View(v, IF end THEN Leave([y EXCEPT !.inbox = Tail(@)], "done") ELSE [y EXCEPT !.inbox = Tail(@)])
      BY <1>8 DEF Live
    <2> HIDE DEF w, k, m, n, end
    <2>2. n = w.last + 1 BY <1>3, <1>4, <1>5, <1>8
    <2> DEFINE s == <<n>>
    <2>3. s \in Seq(Nat) /\ Len(s) = 1 /\ s[1] = n /\ s # <<>> BY <1>5
    <2>4. Runs(s) BY <2>3 DEF Runs
    <2> HIDE DEF s
    <2> DEFINE u == Shows(w, s)
    <2>5. /\ u \in Views /\ u.at = w.at /\ u.turn = w.turn /\ u.lagged = w.lagged /\ u.inbox = w.inbox
          /\ u.open = w.open /\ InOrder(u.seen) /\ AtLatest(u) /\ u.last = n
      BY <1>2, <1>4, <2>2, <2>3, <2>4, ShowsIs
    <2>6. u = y BY DEF s
    <2> HIDE DEF u, y
    <2>7. y.last \in Nat /\ y.last >= w.inbox[1] BY <1>5, <2>5, <2>6
    <2>8. x \in Views /\ x.turn = w.turn /\ x.seen = y.seen /\ Viewed(x, k, m)
      BY <1>1, <1>2, <2>5, <2>6, <2>7, TakesNext
    <2>9. [y EXCEPT !.inbox = Tail(@)] = x BY <2>5, <2>6 DEF Views
    <2> HIDE DEF x
    <2>10. View(v, IF end THEN Leave(x, "done") ELSE x) BY <2>1, <2>9
    <2>11. CASE end
      <3> DEFINE d == Leave(x, "done")
      <3>1. InOrder(x.seen) BY <2>5, <2>6, <2>8
      <3>2. d \in Views /\ Viewed(d, Len(log[d.turn]), Sent(log[d.turn], tpc[d.turn])) BY <2>8, <3>1, LeaveIs DEF Stages
      <3>3. View(v, d) BY <2>10, <2>11
      <3> QED BY <3>2, <3>3, ViewMoves
    <2>12. CASE ~end
      <3>1. Viewed(x, Len(log[x.turn]), Sent(log[x.turn], tpc[x.turn])) BY <1>6, <2>8
      <3>2. View(v, x) BY <2>10, <2>12
      <3> QED BY <2>8, <3>1, <3>2, ViewMoves
    <2> QED BY <2>11, <2>12
  <1> QED BY <1>7, <1>8

\* A viewer that has lost envelopes, or whose channel is closed, reads on.
LEMMA ReadsOn ==
    ASSUME TurnsKept, ViewsKept, NEW v \in Viewers, view[v].at = "live"
    PROVE  CaughtUp(view[v], Shows(view[v], After(view[v].turn, view[v].last)), After(view[v].turn, view[v].last),
                    Len(log[view[v].turn]))
  <1> DEFINE w == view[v]
             k == Len(log[w.turn])
  <1>1. w \in Views /\ Viewed(w, k, Sent(log[w.turn], tpc[w.turn])) /\ k \in Nat BY ViewKnown
  <1>2. InOrder(w.seen) /\ AtLatest(w) BY <1>1 DEF Viewed
  <1>3. w.last \in Nat \cup {-1} BY <1>1, ViewFields
  <1> QED BY <1>1, <1>2, <1>3, CatchesUp

LEMMA LaggedKeeps ==
    ASSUME TurnsKept, ViewsKept, NEW v \in Viewers, Lagged(v)
    PROVE  ViewsKept'
  <1> DEFINE w == view[v]
             k == Len(log[w.turn])
             n == Sent(log[w.turn], tpc[w.turn])
             s == After(w.turn, w.last)
             y == Shows(w, s)
             x == [y EXCEPT !.lagged = FALSE]
  <1>1. w.at = "live" /\ View(v, x) BY DEF Lagged
  <1>2. w \in Views /\ Viewed(w, k, n) /\ k \in Nat /\ n \in Int /\ n <= k BY ViewKnown
  <1>3. CaughtUp(w, y, s, k) BY <1>1, ReadsOn
  <1>4. k = Len(log[w.turn]) /\ n = Sent(log[w.turn], tpc[w.turn]) OBVIOUS
  <1> HIDE DEF w, k, n, s, y
  <1>5. /\ x \in Views /\ x.at = "live" /\ x.turn = w.turn /\ x.inbox = w.inbox /\ x.lagged = FALSE
        /\ x.open = w.open /\ x.seen = y.seen /\ x.last = y.last /\ InOrder(y.seen) /\ AtLatest(y)
        /\ y.last \in Nat /\ k <= y.last + 1
    BY <1>1, <1>3 DEF Views, CaughtUp
  <1> HIDE DEF x
  <1>6. AtLatest(x) BY <1>5 DEF AtLatest, Latest
  <1>7. w.inbox \in Seq(Nat) BY <1>2, ViewFields
  <1>8. w.inbox # <<>> => 1 \in 1 .. Len(w.inbox) BY <1>7, LenProperties, EmptySeq
  <1>9. w.inbox # <<>> => w.inbox[1] < k /\ w.inbox[1] \in Nat BY <1>1, <1>2, <1>7, <1>8, ElementOfSeq DEF Viewed
  <1>10. (w.inbox # <<>> => w.inbox[1] <= x.last + 1) /\ n <= x.last + 1 BY <1>2, <1>5, <1>9
  <1>11. Viewed(x, k, n) BY <1>1, <1>2, <1>5, <1>6, <1>10 DEF Viewed
  <1>12. Viewed(x, Len(log[x.turn]), Sent(log[x.turn], tpc[x.turn])) BY <1>4, <1>5, <1>11
  <1> QED BY <1>1, <1>5, <1>12, ViewMoves

LEMMA ClosedKeeps ==
    ASSUME TurnsKept, ViewsKept, NEW v \in Viewers, Closed(v)
    PROVE  ViewsKept'
  <1> DEFINE w == view[v]
             k == Len(log[w.turn])
             s == After(w.turn, w.last)
             y == Shows(w, s)
             x == [y EXCEPT !.at = "status"]
  <1>1. w.at = "live" /\ ~w.open /\ View(v, x) BY DEF Closed
  <1>2. CaughtUp(w, y, s, k) BY <1>1, ReadsOn
  <1> HIDE DEF w, k, s, y
  <1>3. x \in Views /\ x.at = "status" /\ x.open = w.open /\ x.seen = y.seen /\ InOrder(y.seen)
    BY <1>1, <1>2 DEF Views, CaughtUp, Stages
  <1> HIDE DEF x
  <1>4. Viewed(x, Len(log[x.turn]), Sent(log[x.turn], tpc[x.turn])) BY <1>1, <1>3 DEF Viewed
  <1> QED BY <1>1, <1>3, <1>4, ViewMoves

LEMMA LastStatusKeeps ==
    ASSUME TurnsKept, ViewsKept, NEW v \in Viewers, LastStatus(v)
    PROVE  ViewsKept'
  <1>1. PICK p \in {"done", "ended"} : View(v, Leave(view[v], p)) BY DEF LastStatus
  <1> DEFINE x == Leave(view[v], p)
  <1>2. view[v] \in Views BY ViewKnown
  <1>3. InOrder(view[v].seen) BY ViewKnown DEF Viewed
  <1>4. x \in Views /\ Viewed(x, Len(log[x.turn]), Sent(log[x.turn], tpc[x.turn])) BY <1>2, <1>3, LeaveIs DEF Stages
  <1> QED BY <1>1, <1>4, ViewMoves
\* A restart breaks the connections: every viewer that was listening has to
\* reconnect with what it has been shown.
LEMMA CrashKeepsViews == ASSUME TurnsKept, ViewsKept, Crash PROVE ViewsKept'
  <1>1. view' = [v \in Viewers |-> Leave(view[v], IF view[v].at \in {"idle", "done"} THEN view[v].at ELSE "ended")]
    BY DEF Crash
  <1>2. ASSUME NEW v \in Viewers
        PROVE  view'[v] \in Views /\ \A k, n : Viewed(view'[v], k, n)
    <2> DEFINE w == view[v]
               p == IF w.at \in {"idle", "done"} THEN w.at ELSE "ended"
               x == Leave(w, p)
    <2>1. w \in Views /\ Viewed(w, Len(log[w.turn]), Sent(log[w.turn], tpc[w.turn])) BY ViewKnown
    <2>2. view'[v] = x BY <1>1
    <2>3. p \in {"idle", "done", "ended"} /\ (p = "idle" => w.at = "idle") OBVIOUS
    <2> HIDE DEF w, p
    <2>4. InOrder(w.seen) /\ (p = "idle" => w.seen = <<>>) BY <2>1, <2>3 DEF Viewed
    <2>7. p \in Stages BY <2>3 DEF Stages
    <2>5. /\ x \in Views /\ x.at = p /\ x.seen = w.seen /\ x.open = FALSE
      BY <2>1, <2>7, LeaveIs
    <2> HIDE DEF x
    <2>6. ASSUME NEW k, NEW n PROVE Viewed(x, k, n) BY <2>3, <2>4, <2>5 DEF Viewed
    <2> QED BY <2>2, <2>3, <2>5, <2>6
  <1>3. view' \in [Viewers -> Views] BY <1>1, <1>2
  <1> QED BY <1>2, <1>3 DEF ViewsKept

LEMMA StreamKeepsViews ==
    ASSUME TurnsKept, ViewsKept, NEW v \in Viewers, Streams(v) \/ Reopen(v) \/ \E t \in Turns : Open(v, t)
    PROVE  ViewsKept'
  BY OpenKeeps, ReopenKeeps, SubscribeKeeps, HistoryKeeps, LiveKeeps, LaggedKeeps, ClosedKeeps, LastStatusKeeps
     DEF Streams

LEMMA StillSendsNothing == ASSUME TurnsKept, UNCHANGED <<log, tpc>> PROVE NothingSent
  <1>1. LogTold BY LogIsTold DEF TurnsKept
  <1>2. \A t \in Turns : Len(log'[t]) >= Len(log[t]) BY <1>1 DEF LogTold
  <1> QED BY <1>2 DEF NothingSent

LEMMA TaskKeepsViews ==
    ASSUME TurnsKept, TurnsKept', ViewsKept, NEW t \in Turns, Task(t)
    PROVE  ViewsKept'
  <1>1. ASSUME NEW p \in TaskPoints, tpc' = [tpc EXCEPT ![t] = p], tpc[t] # "publish", p # "publish",
               UNCHANGED <<log, view>>
        PROVE  ViewsKept'
    BY <1>1, QuietTaskSendsNothing, ViewsStay
  <1>2. CASE AdapterFails(t) BY <1>1, <1>2 DEF AdapterFails, Drives, TaskPoints
  <1>3. CASE MarkStreaming(t) BY <1>1, <1>3 DEF MarkStreaming, Drives, TaskPoints
  <1>4. CASE EndOfStream(t) BY <1>1, <1>4 DEF EndOfStream, Drives, TaskPoints
  <1>5. CASE TaskFails(t) BY <1>1, <1>5 DEF TaskFails, TaskPoints
  <1>6. CASE MarkFailed(t) BY <1>1, <1>6 DEF MarkFailed, Drives, TaskPoints
  <1>7. CASE Release(t) BY <1>1, <1>7 DEF Release, Drives, TaskPoints
  <1>8. CASE \E k \in EndKinds : ReceiveEnd(t, k) BY <1>1, <1>8 DEF ReceiveEnd, Drives, TaskPoints
  <1>9. CASE ReceiveData(t)
    <2>1. NothingSent BY <1>9, LogGrowsUnsent DEF ReceiveData, Drives, LogKinds
    <2> QED BY <1>9, <2>1, ViewsStay DEF ReceiveData
  <1>10. CASE AppendEnd(t)
    <2>1. ending[t] \in LogKinds BY DEF TurnsKept, TurnTypes, LogKinds
    <2>2. NothingSent BY <1>10, <2>1, LogGrowsUnsent DEF AppendEnd, Drives
    <2> QED BY <1>10, <2>2, ViewsStay DEF AppendEnd
  <1>11. CASE Close(t)
    <2>1. NothingSent BY <1>11, QuietTaskSendsNothing DEF Close, Drives, TaskPoints
    <2> QED BY <1>11, <2>1, CloseBusKeeps DEF Close
  <1> QED BY <1>2, <1>3, <1>4, <1>5, <1>6, <1>7, <1>8, <1>9, <1>10, <1>11, PublishKeeps DEF Task

LEMMA ViewsInit == Init => ViewsKept
  <1> SUFFICES ASSUME Init PROVE ViewsKept OBVIOUS
  <1>1. 1 \in Turns BY BoundAssumption DEF Turns
  <1>2. NewView \in Views BY <1>1, NothingInOrder DEF NewView, Views, Stages
  <1>3. NewView.at = "idle" /\ NewView.seen = <<>> /\ NewView.open = FALSE BY DEF NewView
  <1>4. \A k, n : Viewed(NewView, k, n) BY <1>3, NothingInOrder DEF Viewed
  <1> QED BY <1>2, <1>4 DEF Init, ViewsKept

LEMMA ViewsStep == TurnsKept /\ TurnsKept' /\ ViewsKept /\ [Next]_vars => ViewsKept'
  <1> SUFFICES ASSUME TurnsKept, TurnsKept', ViewsKept, [Next]_vars PROVE ViewsKept' OBVIOUS
  <1>1. ASSUME UNCHANGED <<log, tpc, view>> PROVE ViewsKept' BY <1>1, StillSendsNothing, ViewsStay
  <1>2. CASE UNCHANGED vars BY <1>1, <1>2 DEF vars, task
  <1>3. ASSUME NEW r \in Starters, StartLook(r) \/ StartCreate(r) \/ StartSpawn(r) \/ StartDropped(r) PROVE ViewsKept'
    <2>1. CASE StartSpawn(r)
      <3>1. spc[r] = "spawn" /\ tpc' = [tpc EXCEPT ![sturn[r]] = "start"] /\ UNCHANGED <<log, view>>
        BY <2>1 DEF StartSpawn
      <3>2. sturn[r] \in Turns /\ tpc[sturn[r]] = "none" BY <3>1 DEF TurnsKept, TurnTypes, Requests
      <3>3. "start" \in TaskPoints BY DEF TaskPoints
      <3> QED BY <3>1, <3>2, <3>3, QuietTaskSendsNothing, ViewsStay
    <2>2. CASE StartLook(r) \/ StartCreate(r) \/ StartDropped(r)
      BY <1>1, <2>2 DEF StartLook, StartCreate, StartDropped, task
    <2> QED BY <1>3, <2>1, <2>2
  <1>4. ASSUME NEW c \in Cancellers, Cancel(c) PROVE ViewsKept'
    <2>1. CASE CancelClose(c)
      <3>1. UNCHANGED <<log, tpc>> /\ CloseBus(xturn[c]) BY <2>1 DEF CancelClose, task
      <3>2. xturn[c] \in Turns BY DEF TurnsKept, TurnTypes
      <3> QED BY <3>1, <3>2, StillSendsNothing, CloseBusKeeps
    <2>2. CASE ~CancelClose(c)
      BY <1>1, <1>4, <2>2 DEF Cancel, ForceFind, CancelLook, CancelFire, CancelMark, CancelDropped, CancelRequest, task
    <2> QED BY <2>1, <2>2
  <1>5. CASE Next BY <1>3, <1>4, <1>5, TaskKeepsViews, StreamKeepsViews, CrashKeepsViews DEF Next
  <1> QED BY <1>2, <1>5

\* Across its history, what comes over the bus, lag, a closed bus, restarts and
\* reconnects, a client is shown consecutive events of the turn's log, each once,
\* from the first or the second on.
THEOREM ShownInOrderHolds == Spec => []ShownInOrder
  <1>1. ViewsKept => ShownInOrder
    <2> SUFFICES ASSUME ViewsKept, NEW v \in Viewers PROVE InOrder(view[v].seen) BY DEF ShownInOrder, InOrder, Runs
    <2> QED BY DEF ViewsKept, Viewed
  <1> QED BY <1>1, TurnsInit, TurnsStep, ViewsInit, ViewsStep, PTL DEF Spec
-----------------------------------------------------------------------------
(* The contract                                                            *)

\* Rows and logs stay, and so does what each viewer watches and has been shown.
Unseen == /\ UNCHANGED <<turns, log>>
          /\ \A v \in Viewers : view'[v].turn = view[v].turn /\ view'[v].seen = view[v].seen

LEMMA UnseenStutters == Unseen => UNCHANGED Contract!vars
  BY DEF Unseen, Contract!vars

LEMMA ContractInit == Init => Contract!Init
  <1>1. 1 \in Turns BY BoundAssumption DEF Turns
  <1> QED BY <1>1 DEF Init, NewView, Contract!Init

LEMMA StarterRefines ==
    ASSUME TurnsKept, NEW r \in Starters, StartLook(r) \/ StartCreate(r) \/ StartSpawn(r) \/ StartDropped(r)
    PROVE  [Contract!Next]_(Contract!vars)
  <1>1. CASE StartLook(r) \/ StartSpawn(r) \/ StartDropped(r)
    <2>1. UNCHANGED <<turns, log, view>> BY <1>1 DEF StartLook, StartSpawn, StartDropped
    <2> QED BY <2>1, UnseenStutters DEF Unseen
  <1>2. CASE StartCreate(r)
    <2>1. PICK t \in Turns : turns[t] = "absent" /\ turns' = [turns EXCEPT ![t] = "pending"] BY <1>2 DEF StartCreate
    <2>2. UNCHANGED <<log, view>> BY <1>2 DEF StartCreate
    <2>3. Contract!Begin(t) BY <2>1, <2>2 DEF Contract!Begin
    <2> QED BY <2>3 DEF Contract!Next
  <1> QED BY <1>1, <1>2

LEMMA MarkRefines ==
    ASSUME NEW t \in Turns, turns[t] # "absent", NEW s \in {"streaming"} \cup TurnTerminal, s = "streaming" => log[t] = <<>>,
           Mark(t, s), UNCHANGED <<log, view>>
    PROVE  Contract!Next
  <1>1. Contract!Mark(t) BY DEF Mark, Contract!Mark
  <1> QED BY <1>1 DEF Contract!Next

LEMMA RecordRefines ==
    ASSUME NEW t \in Turns, NEW k \in EndKinds \cup {"data"}, k \in EndKinds => turns[t] \in TurnTerminal,
           k \notin EndKinds => ~Ended(t), turns[t] \notin {"absent", "pending"},
           log' = [log EXCEPT ![t] = Append(@, k)], UNCHANGED <<turns, view>>
    PROVE  Contract!Next
  <1>1. Contract!Record(t, k) BY DEF Ended, Contract!Record, Contract!Ended
  <1> QED BY <1>1 DEF Contract!Next

LEMMA TaskRefines ==
    ASSUME TurnsKept, ViewsKept, NEW t \in Turns, Task(t)
    PROVE  [Contract!Next]_(Contract!vars)
  <1>0. TurnKept(turns[t], log[t], tpc[t], faults = 0) /\ turns[t] \in TurnStates /\ ending[t] \in EndKinds
    BY TurnKnown DEF TurnsKept, TurnTypes
  <1>1. CASE AdapterFails(t) \/ EndOfStream(t) \/ TaskFails(t) \/ Release(t)
    <2>1. UNCHANGED <<turns, log, view>> BY <1>1 DEF AdapterFails, EndOfStream, TaskFails, Release
    <2> QED BY <2>1, UnseenStutters DEF Unseen
  <1>2. CASE MarkStreaming(t)
    <2>1. tpc[t] = "start" /\ Mark(t, "streaming") /\ UNCHANGED <<log, view>> BY <1>2 DEF MarkStreaming, Drives
    <2>2. turns[t] # "absent" /\ log[t] = <<>> BY <1>0, <2>1 DEF TurnKept
    <2> QED BY <2>1, <2>2, MarkRefines
  <1>3. CASE ReceiveData(t)
    <2>1. /\ tpc[t] = "recv" /\ ~Ended(t) /\ log' = [log EXCEPT ![t] = Append(@, "data")] /\ UNCHANGED <<turns, view>>
      BY <1>3 DEF ReceiveData, Drives
    <2>2. turns[t] \notin {"absent", "pending"} BY <1>0, <2>1 DEF TurnKept
    <2> QED BY <2>1, <2>2, EndKindsAre, RecordRefines
  <1>4. ASSUME NEW k \in EndKinds, ReceiveEnd(t, k) PROVE Contract!Next
    <2>1. tpc[t] = "recv" /\ Mark(t, StatusOf[k]) /\ UNCHANGED <<log, view>> BY <1>4 DEF ReceiveEnd, Drives
    <2>2. turns[t] # "absent" BY <1>0, <2>1 DEF TurnKept
    <2>3. StatusOf[k] \in TurnTerminal /\ "streaming" \notin TurnTerminal BY EndKindsAre DEF TurnTerminal
    <2> QED BY <2>1, <2>2, <2>3, MarkRefines
  <1>5. CASE AppendEnd(t)
    <2>1. tpc[t] = "append" /\ log' = [log EXCEPT ![t] = Append(@, ending[t])] /\ UNCHANGED <<turns, view>>
      BY <1>5 DEF AppendEnd, Drives
    <2>2. turns[t] \in TurnTerminal /\ turns[t] \notin {"absent", "pending"} BY <1>0, <2>1 DEF TurnKept, TurnTerminal
    <2> QED BY <1>0, <2>1, <2>2, RecordRefines
  <1>6. CASE Publish(t)
    <2>1. ASSUME NEW w \in Views, NEW n PROVE Receive(w, n).turn = w.turn /\ Receive(w, n).seen = w.seen
      BY DEF Views, Receive
    <2>2. UNCHANGED <<turns, log>> BY <1>6 DEF Publish
    <2>3. \A v \in Viewers : view'[v].turn = view[v].turn /\ view'[v].seen = view[v].seen
      BY <1>6, <2>1 DEF Publish, ViewsKept
    <2> QED BY <2>2, <2>3, UnseenStutters DEF Unseen
  <1>7. CASE MarkFailed(t)
    <2>1. tpc[t] = "fail" /\ Mark(t, "failed") /\ UNCHANGED <<log, view>> BY <1>7 DEF MarkFailed, Drives
    <2>2. turns[t] # "absent" /\ "failed" \in TurnTerminal BY <1>0, <2>1 DEF TurnKept, TurnTerminal
    <2> QED BY <2>1, <2>2, MarkRefines
  <1>8. CASE Close(t)
    <2>1. UNCHANGED <<turns, log>> BY <1>8 DEF Close
    <2>2. \A v \in Viewers : view'[v].turn = view[v].turn /\ view'[v].seen = view[v].seen
      BY <1>8 DEF Close, CloseBus, ViewsKept, Views
    <2> QED BY <2>1, <2>2, UnseenStutters DEF Unseen
  <1> QED BY <1>1, <1>2, <1>3, <1>4, <1>5, <1>6, <1>7, <1>8 DEF Task

LEMMA CancelRefines ==
    ASSUME TurnsKept, ViewsKept, NEW c \in Cancellers, Cancel(c)
    PROVE  [Contract!Next]_(Contract!vars)
  <1>1. CASE CancelMark(c)
    <2>1. xpc[c] = "mark" /\ Mark(xturn[c], "cancelled") /\ UNCHANGED <<log, view>> BY <1>1 DEF CancelMark
    <2>2. xturn[c] \in Turns /\ turns[xturn[c]] # "absent" /\ "cancelled" \in TurnTerminal
      BY <2>1 DEF TurnsKept, TurnTypes, Requests, TurnTerminal
    <2> QED BY <2>1, <2>2, MarkRefines
  <1>2. CASE CancelClose(c)
    <2>1. UNCHANGED <<turns, log>> BY <1>2 DEF CancelClose
    <2>2. \A v \in Viewers : view'[v].turn = view[v].turn /\ view'[v].seen = view[v].seen
      BY <1>2 DEF CancelClose, CloseBus, ViewsKept, Views
    <2> QED BY <2>1, <2>2, UnseenStutters DEF Unseen
  <1>3. CASE ~CancelMark(c) /\ ~CancelClose(c)
    <2>1. UNCHANGED <<turns, log, view>>
      BY <1>3 DEF Cancel, ForceFind, CancelLook, CancelFire, CancelDropped, CancelRequest
    <2> QED BY <2>1, UnseenStutters DEF Unseen
  <1> QED BY <1>1, <1>2, <1>3
\* A viewer moves on and stays with its turn.
LEMMA SilentRefines ==
    ASSUME ViewsKept, NEW v \in Viewers, NEW x, View(v, x), x.turn = view[v].turn, x.seen = view[v].seen
    PROVE  UNCHANGED Contract!vars
  <1>1. UNCHANGED <<turns, log>> /\ view' = [view EXCEPT ![v] = x] BY DEF View
  <1>2. \A u \in Viewers : view'[u].turn = view[u].turn /\ view'[u].seen = view[u].seen BY <1>1 DEF ViewsKept
  <1> QED BY <1>1, <1>2, UnseenStutters DEF Unseen

\* A viewer is shown the events after e, up to the last of n.
LEMMA ShowRefines ==
    ASSUME ViewsKept, NEW v \in Viewers, NEW x, View(v, x), x.turn = view[v].turn,
           NEW e \in Nat \cup {-1}, NEW n \in 1 .. Len(log[view[v].turn]),
           view[v].seen = <<>> => e \in {-1, 0}, view[v].seen # <<>> => e = Latest(view[v]),
           NEW s, s = [i \in 1 .. n - 1 - e |-> e + i], x.seen = view[v].seen \o s
    PROVE  Contract!Next
  <1> DEFINE watched == [u \in Viewers |-> view[u].turn]
             shown == [u \in Viewers |-> view[u].seen]
             f == e + 1
             from == IF shown[v] = <<>> THEN {0, 1} ELSE {shown[v][Len(shown[v])] + 1}
  <1>1. UNCHANGED <<turns, log>> /\ view' = [view EXCEPT ![v] = x] BY DEF View
  <1>2. \A u \in Viewers : view'[u].turn = view[u].turn /\ view'[u].seen = IF u = v THEN x.seen ELSE view[u].seen
    BY <1>1 DEF ViewsKept
  <1>3. UNCHANGED watched BY <1>2
  <1>4. shown' = [shown EXCEPT ![v] = x.seen] BY <1>2
  <1>5. [i \in 1 .. n - 1 - e |-> e + i] = [i \in 1 .. n - f |-> f + i - 1]
    <2>1. n \in Int /\ n - 1 - e = n - f BY DEF f
    <2>2. \A i \in 1 .. n - f : e + i = f + i - 1 BY <2>1 DEF f
    <2> QED BY <2>1, <2>2
  <1>6. f \in from
    <2>1. shown[v] = view[v].seen OBVIOUS
    <2>2. CASE view[v].seen = <<>> BY <2>1, <2>2
    <2>3. CASE view[v].seen # <<>> BY <2>1, <2>3 DEF Latest
    <2> QED BY <2>2, <2>3
  <1>7. shown' = [shown EXCEPT ![v] = shown[v] \o [i \in 1 .. n - f |-> f + i - 1]]
    <2>1. x.seen = shown[v] \o [i \in 1 .. n - f |-> f + i - 1] BY <1>5
    <2> QED BY <1>4, <2>1
  <1>8. n \in 1 .. Len(log[watched[v]]) OBVIOUS
  <1> HIDE DEF f
  <1>9. Contract!Show(v)
    <2>1. \E g \in from : shown' = [shown EXCEPT ![v] = shown[v] \o [i \in 1 .. n - g |-> g + i - 1]] BY <1>6, <1>7
    <2>2. \E m \in 1 .. Len(log[watched[v]]) : \E g \in from :
             shown' = [shown EXCEPT ![v] = shown[v] \o [i \in 1 .. m - g |-> g + i - 1]]
      BY <1>8, <2>1
    <2> QED BY <1>1, <1>3, <2>2 DEF Contract!Show
  <1> QED BY <1>9 DEF Contract!Next

\* A viewer reads on in the database: Show, unless there is nothing more.
LEMMA CatchUpRefines ==
    ASSUME ViewsKept, NEW v \in Viewers, NEW x, View(v, x), NEW y, NEW k \in Nat, Len(log[view[v].turn]) = k,
           NEW e \in Nat \cup {-1}, CaughtUp(view[v], y, After(view[v].turn, e), k), x.turn = y.turn, x.seen = y.seen,
           view[v].seen = <<>> => e \in {-1, 0}, view[v].seen # <<>> => e = Latest(view[v])
    PROVE  [Contract!Next]_(Contract!vars)
  <1> DEFINE w == view[v]
             s == After(w.turn, e)
  <1>1. w \in Views /\ w.turn \in Turns /\ w.seen \in Seq(Nat) BY ViewFields DEF ViewsKept
  <1>2. s = [i \in 1 .. k - 1 - e |-> e + i] BY DEF After
  <1>3. x.turn = w.turn /\ x.seen = w.seen \o s BY DEF CaughtUp
  <1>4. CASE s = <<>>
    <2>1. w.seen \o <<>> = w.seen BY <1>1, ConcatEmptySeq
    <2> QED BY <1>3, <1>4, <2>1, SilentRefines
  <1>5. CASE s # <<>>
    <2>1. k > e + 1 BY <1>1, <1>5, AfterIs
    <2>2. k \in 1 .. Len(log[view[v].turn]) BY <2>1
    <2>3. x.turn = view[v].turn /\ x.seen = view[v].seen \o s BY <1>3
    <2> HIDE DEF s, w
    <2> QED BY <1>2, <2>2, <2>3, ShowRefines
  <1> QED BY <1>4, <1>5

LEMMA HistoryRefines ==
    ASSUME TurnsKept, ViewsKept, NEW v \in Viewers, History(v)
    PROVE  [Contract!Next]_(Contract!vars)
  <1> DEFINE w == view[v]
             k == Len(log[w.turn])
             e == IF w.resumed THEN w.last ELSE -1
             y == Shows(w, After(w.turn, e))
             x == IF w.finished THEN Leave(y, "done") ELSE [y EXCEPT !.at = "live"]
  <1>1. w.at = "history" /\ View(v, x) BY DEF History
  <1>2. w \in Views /\ Viewed(w, k, Sent(log[w.turn], tpc[w.turn])) /\ k \in Nat BY ViewKnown
  <1>3. InOrder(w.seen) /\ AtLatest(w) /\ (w.resumed <=> w.seen # <<>>) BY <1>1, <1>2 DEF Viewed
  <1>4. (w.resumed => e = w.last) /\ (~w.resumed => e = -1) OBVIOUS
  <1> HIDE DEF e
  <1>5. e \in Nat \cup {-1} /\ (e = w.last \/ (e = -1 /\ w.seen = <<>>)) BY <1>2, <1>3, <1>4, ViewFields
  <1>6. CaughtUp(w, y, After(w.turn, e), k) BY <1>2, <1>3, <1>5, CatchesUp
  <1>7. (w.seen = <<>> => e \in {-1, 0}) /\ (w.seen # <<>> => e = Latest(w)) BY <1>3, <1>4 DEF AtLatest
  <1>8. x.turn = y.turn /\ x.seen = y.seen
    <2>1. y \in Views BY <1>6 DEF CaughtUp
    <2> HIDE DEF y
    <2>2. Leave(y, "done").turn = y.turn /\ Leave(y, "done").seen = y.seen BY <2>1, LeaveIs DEF Stages
    <2>3. [y EXCEPT !.at = "live"].turn = y.turn /\ [y EXCEPT !.at = "live"].seen = y.seen BY <2>1 DEF Views
    <2> QED BY <2>2, <2>3
  <1> HIDE DEF x, y
  <1> QED BY <1>1, <1>2, <1>5, <1>6, <1>7, <1>8, CatchUpRefines
LEMMA LeaveKeeps == ASSUME NEW w, NEW p PROVE Leave(w, p).turn = w.turn /\ Leave(w, p).seen = w.seen
  BY DEF Leave, NewView

LEMMA LiveRefines ==
    ASSUME TurnsKept, ViewsKept, NEW v \in Viewers, Live(v)
    PROVE  [Contract!Next]_(Contract!vars)
  <1> DEFINE w == view[v]
             k == Len(log[w.turn])
             n == Head(w.inbox)
             s == <<n>>
             y == Shows(w, s)
             x == [y EXCEPT !.inbox = Tail(@)]
             z == [w EXCEPT !.inbox = Tail(@)]
             u == IF log[w.turn][n + 1] \in EndKinds THEN Leave(x, "done") ELSE x
  <1>1. w.at = "live" /\ ~w.lagged /\ w.inbox # <<>> /\ View(v, IF n <= w.last THEN z ELSE u) BY DEF Live
  <1>2. w \in Views /\ Viewed(w, k, Sent(log[w.turn], tpc[w.turn])) /\ k \in Nat BY ViewKnown
  <1>3. w.inbox \in Seq(Nat) /\ w.last \in Nat BY <1>2, ViewFields
  <1>4. /\ InOrder(w.seen) /\ AtLatest(w) /\ Runs(w.inbox) /\ w.inbox[1] <= w.last + 1
        /\ \A i \in 1 .. Len(w.inbox) : w.inbox[i] < k
    BY <1>1, <1>2 DEF Viewed
  <1>5. n = w.inbox[1] /\ n \in Nat /\ 1 \in 1 .. Len(w.inbox) BY <1>1, <1>3, <1>4, RunsTail
  <1>6. n < k BY <1>4, <1>5
  <1> HIDE DEF n
  <1>7. CASE n <= w.last
    <2>1. View(v, z) BY <1>1, <1>7
    <2>2. z.turn = w.turn /\ z.seen = w.seen BY <1>2 DEF Views
    <2> QED BY <2>1, <2>2, SilentRefines
  <1>8. CASE ~(n <= w.last)
    <2>1. View(v, u) BY <1>1, <1>8
    <2>a. w = view[v] /\ k = Len(log[w.turn]) OBVIOUS
    <2> HIDE DEF w, k
    <2>2. n = w.last + 1 BY <1>3, <1>4, <1>5, <1>8
    <2>3. s \in Seq(Nat) /\ Len(s) = 1 /\ s[1] = n /\ s # <<>> BY <1>5
    <2>4. Runs(s) BY <2>3 DEF Runs
    <2> DEFINE e == n - 1
               m == n + 1
    <2>5. s = [i \in 1 .. m - 1 - e |-> e + i]
      <3>1. 1 .. m - 1 - e = 1 .. 1 BY <1>5
      <3>2. \A i \in 1 .. 1 : e + i = n BY <1>5
      <3>3. s = [i \in 1 .. 1 |-> n] OBVIOUS
      <3> QED BY <3>1, <3>2, <3>3
    <2>9. e \in Nat \cup {-1} /\ m \in 1 .. k /\ e = w.last BY <1>2, <1>3, <1>5, <1>6, <2>2
    <2> HIDE DEF e, m
    <2> HIDE DEF s
    <2>6. y \in Views /\ y.turn = w.turn /\ y.seen = w.seen \o s
      <3>1. w \in Views /\ s \in Seq(Nat) /\ InOrder(w.seen) /\ AtLatest(w) /\ Runs(s) BY <1>2, <1>4, <2>3, <2>4
      <3>2. s # <<>> => s[1] = w.last + 1 \/ (w.seen = <<>> /\ s[1] = 0) BY <2>2, <2>3
      <3> QED BY ONLY <3>1, <3>2, ShowsIs
    <2> HIDE DEF y
    <2>7. x.turn = w.turn /\ x.seen = w.seen \o s
      <3> DEFINE b == Tail(y.inbox)
      <3>1. x = [y EXCEPT !.inbox = b] BY <2>6 DEF Views
      <3> HIDE DEF x, b
      <3>2. x.turn = y.turn /\ x.seen = y.seen BY <2>6, <3>1 DEF Views
      <3> QED BY <2>6, <3>2
    <2> HIDE DEF x
    <2>8. u.turn = w.turn /\ u.seen = w.seen \o s BY <2>7, LeaveKeeps
    <2> HIDE DEF u
    <2>10. (w.seen = <<>> => e \in {-1, 0}) /\ (w.seen # <<>> => e = Latest(w)) BY <1>4, <2>9 DEF AtLatest
    <2> QED BY <2>1, <2>5, <2>8, <2>9, <2>10, <2>a, ShowRefines
  <1> QED BY <1>7, <1>8

LEMMA LagRefines ==
    ASSUME TurnsKept, ViewsKept, NEW v \in Viewers, Lagged(v) \/ Closed(v)
    PROVE  [Contract!Next]_(Contract!vars)
  <1> DEFINE w == view[v]
             k == Len(log[w.turn])
             s == After(w.turn, w.last)
             y == Shows(w, s)
             x == IF w.lagged THEN [y EXCEPT !.lagged = FALSE] ELSE [y EXCEPT !.at = "status"]
  <1>1. w.at = "live" /\ View(v, x) BY DEF Lagged, Closed
  <1>2. w \in Views /\ Viewed(w, k, Sent(log[w.turn], tpc[w.turn])) /\ k \in Nat BY ViewKnown
  <1>3. CaughtUp(w, y, s, k) BY <1>1, ReadsOn
  <1>4. w.last \in Nat \cup {-1} BY <1>2, ViewFields
  <1>5. (w.seen = <<>> => w.last \in {-1, 0}) /\ (w.seen # <<>> => w.last = Latest(w))
    BY <1>1, <1>2 DEF Viewed, AtLatest
  <1>6. x.turn = y.turn /\ x.seen = y.seen
    <2>1. y \in Views BY <1>3 DEF CaughtUp
    <2> HIDE DEF y
    <2> QED BY <2>1 DEF Views
  <1> HIDE DEF x, y
  <1> QED BY <1>1, <1>2, <1>3, <1>4, <1>5, <1>6, CatchUpRefines

LEMMA StreamRefines ==
    ASSUME TurnsKept, ViewsKept, NEW v \in Viewers, Streams(v) \/ Reopen(v) \/ \E t \in Turns : Open(v, t)
    PROVE  [Contract!Next]_(Contract!vars)
  <1>0. view[v] \in Views /\ Viewed(view[v], Len(log[view[v].turn]), Sent(log[view[v].turn], tpc[view[v].turn]))
    BY ViewKnown
  <1>1. CASE Subscribe(v)
    <2> DEFINE x == [view[v] EXCEPT !.at = "history", !.open = TRUE]
    <2>1. View(v, x) BY <1>1 DEF Subscribe
    <2>2. x.turn = view[v].turn /\ x.seen = view[v].seen BY <1>0 DEF Views
    <2> QED BY <2>1, <2>2, SilentRefines
  <1>2. CASE LastStatus(v)
    <2>1. PICK p \in {"done", "ended"} : View(v, Leave(view[v], p)) BY <1>2 DEF LastStatus
    <2> DEFINE x == Leave(view[v], p)
    <2>2. x.turn = view[v].turn /\ x.seen = view[v].seen BY LeaveKeeps
    <2>3. View(v, x) BY <2>1
    <2> HIDE DEF x
    <2> QED BY <2>2, <2>3, SilentRefines
  <1>3. CASE Reopen(v)
    <2>1. PICK f, b, l : View(v, [Leave(view[v], "subscribe") EXCEPT !.finished = f, !.resumed = b, !.last = l])
      BY <1>3 DEF Reopen
    <2> DEFINE u == Leave(view[v], "subscribe")
               x == [u EXCEPT !.finished = f, !.resumed = b, !.last = l]
    <2>2. u \in Views /\ u.turn = view[v].turn /\ u.seen = view[v].seen BY <1>0, LeaveIs DEF Stages
    <2>3. View(v, x) BY <2>1
    <2> HIDE DEF u
    <2>4. x.turn = view[v].turn /\ x.seen = view[v].seen BY <2>2 DEF Views
    <2> HIDE DEF x
    <2> QED BY <2>3, <2>4, SilentRefines
  <1>4. ASSUME NEW t \in Turns, Open(v, t) PROVE Contract!Next
    <2> DEFINE f == Terminal(t)
               x == [NewView EXCEPT !.at = "subscribe", !.turn = t, !.finished = f]
    <2>1. view[v].at = "idle" /\ View(v, x) BY <1>4 DEF Open
    <2>2. view[v].seen = <<>> BY <1>0, <2>1 DEF Viewed
    <2> HIDE DEF f
    <2>3. x.turn = t /\ x.seen = <<>> BY DEF NewView
    <2> HIDE DEF x
    <2>4. UNCHANGED <<turns, log>> /\ view' = [view EXCEPT ![v] = x] BY <2>1 DEF View
    <2>5. \A u \in Viewers : /\ view'[u].seen = view[u].seen
                             /\ view'[u].turn = IF u = v THEN t ELSE view[u].turn
      BY <2>2, <2>3, <2>4 DEF ViewsKept
    <2> DEFINE watched == [u \in Viewers |-> view[u].turn]
               shown == [u \in Viewers |-> view[u].seen]
    <2>6. UNCHANGED shown /\ shown[v] = <<>> BY <2>2, <2>5
    <2>7. watched' = [watched EXCEPT ![v] = t] BY <2>5
    <2>8. \E a \in Turns : watched' = [watched EXCEPT ![v] = a] BY <2>7
    <2>9. Contract!Watch(v) BY <2>4, <2>6, <2>8 DEF Contract!Watch
    <2> QED BY <2>9 DEF Contract!Next
  <1> QED BY <1>1, <1>2, <1>3, <1>4, HistoryRefines, LiveRefines, LagRefines DEF Streams

LEMMA CrashRefines == ASSUME ViewsKept, Crash PROVE UNCHANGED Contract!vars
  <1>1. UNCHANGED <<turns, log>> BY DEF Crash
  <1>2. ASSUME NEW v \in Viewers PROVE view'[v].turn = view[v].turn /\ view'[v].seen = view[v].seen
    <2>1. PICK p : view'[v] = Leave(view[v], p) BY DEF Crash
    <2> QED BY <2>1, LeaveKeeps
  <1> QED BY <1>1, <1>2, UnseenStutters DEF Unseen

LEMMA ContractStep == TurnsKept /\ ViewsKept /\ [Next]_vars => [Contract!Next]_(Contract!vars)
  <1> SUFFICES ASSUME TurnsKept, ViewsKept, [Next]_vars PROVE [Contract!Next]_(Contract!vars) OBVIOUS
  <1>1. CASE UNCHANGED vars
    <2>1. UNCHANGED <<turns, log, view>> BY <1>1 DEF vars
    <2> QED BY <2>1, UnseenStutters DEF Unseen
  <1>2. CASE Next BY <1>2, StarterRefines, TaskRefines, CancelRefines, StreamRefines, CrashRefines DEF Next
  <1> QED BY <1>1, <1>2

\* The rows of the turns, their event logs and what each viewer is shown do what
\* the contract of a conversation says: a turn settles before its end is on record,
\* and viewers are shown recorded events only, in order and without a hole.
THEOREM ConversationRefined == Spec => ImplementsContract
  <1> QED BY ContractInit, ContractStep, TurnsInit, TurnsStep, ViewsInit, ViewsStep, PTL
          DEF Spec, ImplementsContract, Contract!Spec
=============================================================================
