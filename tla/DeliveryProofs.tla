--------------------------- MODULE DeliveryProofs ---------------------------
(***************************************************************************)
(* Theorems about Delivery for any number of requests, branches, threads,  *)
(* checkpoints and entries.  The parts share no state, and nothing here    *)
(* depends on the others being at rest: each part has an invariant of its  *)
(* own, kept by its own steps.                                             *)
(***************************************************************************)
EXTENDS Delivery, FiniteSetTheorems, WellFoundedInduction, TLAPS

LEMMA Parts ==
    ASSUME [Next]_vars
    PROVE  /\ PrNext \/ UNCHANGED prVars
           /\ DiffNext \/ UNCHANGED diffVars
           /\ ReviewNext \/ UNCHANGED reviewVars
           /\ OrchNext \/ UNCHANGED orchVars
           /\ NotesNext \/ UNCHANGED noteVars
           /\ WishNext \/ UNCHANGED wishVars
           /\ DefNext \/ UNCHANGED defVars
BY DEF Next, vars, Deliver, Diff, Review, Record, RecordsNext, Orchestrate, TakeNote, Intervene, Define, recordVars

-----------------------------------------------------------------------------
(* The diff of a pull request: everything that is known is at most as new  *)
(* as GitHub, and files are fetched after the head they are filed under.   *)

ReadPCs == {"idle", "details", "upsert", "list", "fetch", "store"}
Readings == [pc : ReadPCs, sha : Nat, files : Nat]
Syncings == [pc : {"idle", "save"}, sha : Nat]

Fetched ==
    /\ head \in Nat /\ issueRow \in Nat \cup {Absent} /\ issueRow <= head
    /\ cache \in [Heads -> Nat] /\ CacheNotStale
    /\ reader \in [Readers -> Readings] /\ sync \in [Syncs -> Syncings]
    /\ \A y \in Syncs : sync[y].sha <= head
    /\ \A r \in Readers : /\ reader[r].sha <= head
                          /\ reader[r].pc = "store" => reader[r].files >= reader[r].sha

LEMMA FetchedInit == DiffInit => Fetched
<1> SUFFICES ASSUME DiffInit PROVE Fetched OBVIOUS
<1>1. NoRead \in Readings /\ NoRead.sha = 0 /\ NoRead.pc = "idle" BY DEF NoRead, Readings, ReadPCs, NoSha
<1>2. NoSync \in Syncings /\ NoSync.sha = 0 BY DEF NoSync, Syncings, NoSha
<1>3. /\ head = 1 /\ issueRow = -1 /\ cache = [h \in Heads |-> 0]
      /\ reader = [r \in Readers |-> NoRead] /\ sync = [y \in Syncs |-> NoSync]
  BY DEF DiffInit, Absent, NoSha
<1>4. reader \in [Readers -> Readings] /\ sync \in [Syncs -> Syncings] BY <1>1, <1>2, <1>3
<1>5. CacheNotStale BY <1>3 DEF CacheNotStale, NoSha
<1> QED BY <1>1, <1>2, <1>3, <1>4, <1>5 DEF Fetched, Absent

\* Reader r goes on to reading k; at most the row or the cache changes with it.
LEMMA ReaderMoves ==
    ASSUME Fetched, NEW r \in Readers, NEW k \in Readings, Reads(r, k), UNCHANGED <<head, sync>>,
           issueRow' \in Nat \cup {Absent}, issueRow' <= head, cache' \in [Heads -> Nat], CacheNotStale',
           k.sha <= head, k.pc = "store" => k.files >= k.sha
    PROVE  Fetched'
<1>1. reader' \in [Readers -> Readings] /\ reader'[r] = k /\ \A o \in Readers \ {r} : reader'[o] = reader[o]
  BY DEF Fetched, Reads
<1> QED BY <1>1 DEF Fetched

LEMMA FetchedStep ==
    ASSUME Fetched, DiffNext \/ UNCHANGED diffVars
    PROVE  Fetched'
<1>t. head \in Nat /\ issueRow \in Nat \cup {Absent} /\ issueRow <= head /\ cache \in [Heads -> Nat] /\ CacheNotStale
  BY DEF Fetched
<1>n. NoRead \in Readings /\ NoRead.sha = 0 /\ NoRead.pc = "idle" BY DEF NoRead, Readings, ReadPCs, NoSha
<1>c. ASSUME UNCHANGED cache PROVE cache' \in [Heads -> Nat] /\ CacheNotStale'
  BY <1>c, <1>t DEF CacheNotStale
<1>1. CASE UNCHANGED diffVars BY <1>1 DEF diffVars, Fetched, CacheNotStale
<1>2. CASE PushHead
  <2>1. head' = head + 1 /\ UNCHANGED <<issueRow, cache, reader, sync>> BY <1>2 DEF PushHead
  <2>2. \A y \in Syncs : sync[y] \in Syncings /\ sync[y].sha \in Nat BY DEF Fetched, Syncings
  <2>3. \A r \in Readers : reader[r] \in Readings /\ reader[r].sha \in Nat BY DEF Fetched, Readings
  <2>4. issueRow' <= head' /\ head' \in Nat BY <1>t, <2>1 DEF Absent
  <2> QED BY <1>c, <2>1, <2>2, <2>3, <2>4 DEF Fetched
<1>3. ASSUME NEW y \in Syncs, FetchDetails(y) PROVE Fetched'
  <2>1. PICK sha \in {head, NoSha} : sync' = [sync EXCEPT ![y] = [pc |-> "save", sha |-> sha]]
    BY <1>3 DEF FetchDetails
  <2>0. sha \in Nat /\ sha <= head BY <1>t, <2>1 DEF NoSha
  <2>2. PICK k \in Syncings : k = [pc |-> "save", sha |-> sha] BY <2>0 DEF Syncings
  <2>3. k.sha <= head BY <2>0, <2>2
  <2>4. /\ sync' \in [Syncs -> Syncings] /\ sync'[y] = k /\ \A o \in Syncs \ {y} : sync'[o] = sync[o]
    BY <2>1, <2>2 DEF Fetched
  <2>5. \A o \in Syncs : sync'[o].sha <= head BY <2>3, <2>4 DEF Fetched
  <2>6. UNCHANGED <<head, issueRow, cache, reader>> BY <1>3 DEF FetchDetails
  <2> QED BY <1>c, <2>4, <2>5, <2>6 DEF Fetched
<1>4. ASSUME NEW y \in Syncs, SaveDetails(y) PROVE Fetched'
  <2>0. NoSync \in Syncings /\ NoSync.sha = 0 BY DEF NoSync, Syncings, NoSha
  <2>1. PICK k \in Syncings : k = NoSync /\ k.sha = 0 BY <2>0
  <2>2. /\ sync' = [sync EXCEPT ![y] = k] /\ issueRow' \in {sync[y].sha, issueRow}
        /\ UNCHANGED <<head, cache, reader>>
    BY <1>4, <2>1 DEF SaveDetails
  <2>3. sync[y] \in Syncings /\ sync[y].sha \in Nat /\ sync[y].sha <= head BY DEF Fetched, Syncings
  <2>4. /\ sync' \in [Syncs -> Syncings] /\ sync'[y] = k /\ \A o \in Syncs \ {y} : sync'[o] = sync[o]
    BY <2>2 DEF Fetched
  <2>5. \A o \in Syncs : sync'[o].sha <= head BY <1>t, <2>1, <2>4 DEF Fetched
  <2>6. issueRow' \in Nat \cup {Absent} /\ issueRow' <= head BY <1>t, <2>2, <2>3
  <2> QED BY <1>c, <2>2, <2>4, <2>5, <2>6 DEF Fetched
<1>5. ASSUME NEW r \in Readers, Find(r) PROVE Fetched'
  <2>1. issueRow # Absent /\ Reads(r, [pc |-> "details", sha |-> issueRow, files |-> NoSha])
        /\ UNCHANGED <<head, issueRow, cache, sync>>
    BY <1>5 DEF Find
  <2>2. PICK k \in Readings : k = [pc |-> "details", sha |-> issueRow, files |-> NoSha]
    BY <1>t, <2>1 DEF Readings, ReadPCs, NoSha
  <2>3. k.sha <= head /\ k.pc = "details" BY <1>t, <2>2
  <2> QED BY <1>c, <1>t, <2>1, <2>2, <2>3, ReaderMoves
<1>6. ASSUME NEW r \in Readers, Details(r) \/ SaveRow(r) \/ Lookup(r) \/ FetchFiles(r) \/ ReplaceFiles(r) \/ ReadFails(r)
      PROVE  Fetched'
  <2>t. reader[r] \in Readings /\ reader[r].sha \in Nat /\ reader[r].files \in Nat /\ reader[r].sha <= head
    BY DEF Fetched, Readings
  <2>0. ASSUME NEW k \in {NoRead, [reader[r] EXCEPT !.pc = "list"], [reader[r] EXCEPT !.pc = "fetch"]}
        PROVE  k \in Readings /\ k.sha <= head /\ k.pc # "store"
    BY <1>n, <1>t, <2>t DEF Readings, ReadPCs
  <2>1. CASE Details(r)
    <3>1. CASE Reads(r, [reader[r] EXCEPT !.pc = "upsert", !.sha = head])
      <4>1. PICK k \in Readings : k = [reader[r] EXCEPT !.pc = "upsert", !.sha = head]
        BY <1>t, <2>t DEF Readings, ReadPCs
      <4>2. k.sha <= head /\ k.pc = "upsert" BY <1>t, <2>t, <4>1 DEF Readings
      <4> QED BY <1>c, <1>t, <2>1, <3>1, <4>1, <4>2, ReaderMoves DEF Details
    <3>2. CASE Reads(r, IF reader[r].sha = NoSha THEN NoRead ELSE [reader[r] EXCEPT !.pc = "list"])
      BY <1>c, <1>t, <2>0, <2>1, <3>2, ReaderMoves DEF Details
    <3> QED BY <2>1, <3>1, <3>2 DEF Details
  <2>2. CASE SaveRow(r) BY <1>c, <1>t, <2>0, <2>t, <2>2, ReaderMoves DEF SaveRow
  <2>3. CASE Lookup(r) BY <1>c, <1>t, <2>0, <2>3, ReaderMoves DEF Lookup
  <2>4. CASE FetchFiles(r)
    <3>1. PICK k \in Readings : k = [reader[r] EXCEPT !.pc = "store", !.files = head]
      BY <1>t, <2>t DEF Readings, ReadPCs
    <3>2. k.sha = reader[r].sha /\ k.files = head BY <2>t, <3>1 DEF Readings
    <3> QED BY <1>c, <1>t, <2>t, <2>4, <3>1, <3>2, ReaderMoves DEF FetchFiles
  <2>5. CASE ReplaceFiles(r)
    <3>1. reader[r].files >= reader[r].sha BY <2>5 DEF ReplaceFiles, Fetched
    <3>2. /\ cache' = [cache EXCEPT ![reader[r].sha] = reader[r].files] /\ Reads(r, NoRead)
          /\ UNCHANGED <<head, issueRow, sync>>
      BY <2>5 DEF ReplaceFiles
    <3>3. cache' \in [Heads -> Nat] BY <1>t, <2>t, <3>2
    <3>4. CacheNotStale' BY <1>t, <2>t, <3>1, <3>2 DEF CacheNotStale
    <3> QED BY <1>t, <2>0, <3>2, <3>3, <3>4, ReaderMoves
  <2>6. CASE ReadFails(r) BY <1>c, <1>t, <2>0, <2>6, ReaderMoves DEF ReadFails
  <2> QED BY <1>6, <2>1, <2>2, <2>3, <2>4, <2>5, <2>6
<1> QED BY <1>1, <1>2, <1>3, <1>4, <1>5, <1>6 DEF DiffNext

\* CacheNotStale: the files cached under a head were fetched when the pull
\* request had got that far, for any number of readers, syncs and pushes.
THEOREM CacheNotStaleHolds == Spec => []CacheNotStale
<1>1. Fetched /\ [Next]_vars => Fetched' BY FetchedStep, Parts
<1>2. Init => Fetched BY FetchedInit DEF Init
<1>3. Fetched => CacheNotStale BY DEF Fetched
<1> QED BY <1>1, <1>2, <1>3, PTL DEF Spec

-----------------------------------------------------------------------------
(* An orchestrator's session.  While requests come one after another, the  *)
(* copy a patch works on is the row but for what it changes, and the       *)
(* checkpoint under way is the newest there is.                            *)

Sessions == [status : Statuses, latest : Summaries \cup {Unset}, cursor : Cursors \cup {Unset}]
Patchings == [pc : {"idle", "update"}, row : Sessions, cursor : Cursors \cup {Unset}]
Summings  == [pc : {"idle", "insert"}, to : Cursors \cup {Unset}]

SessionTypes ==
    /\ session \in Sessions /\ rows \subseteq Summaries /\ minted \in [Summaries -> Nat] /\ clock \in Nat
    /\ named \in Cursors \cup {Unset} /\ patch \in [Patches -> Patchings] /\ summary \in [Summaries -> Summings]
    /\ skipped \in BOOLEAN /\ tangled \in BOOLEAN

OneRequest ==
    /\ \A p, q \in Patches : patch[p].pc = "update" /\ patch[q].pc = "update" => p = q
    /\ \A c, d \in Summaries : summary[c].pc = "insert" /\ summary[d].pc = "insert" => c = d
    /\ \A p \in Patches, c \in Summaries : ~(patch[p].pc = "update" /\ summary[c].pc = "insert")

\* The copy of patch p.
Copied(p) ==
    /\ patch[p].row.latest = session.latest
    /\ patch[p].row.status \in Allowed[session.status] \cup {session.status}
    /\ patch[p].row.cursor = Or(patch[p].cursor, session.cursor)

Stamped ==
    /\ \A c \in Summaries : minted[c] <= clock
    /\ \A c \in Summaries : c \in rows \/ summary[c].pc = "insert" => minted[c] # 0

Untangled ==
    /\ SessionFollows /\ OneRequest
    /\ \A p \in Patches : patch[p].pc = "update" => Copied(p)
    /\ \A c \in Summaries : summary[c].pc = "insert" => minted[c] = clock

Followed ==
    /\ SessionTypes /\ PointerOnRecord /\ Stamped
    /\ \A p \in Patches : patch[p].row.latest \in rows \cup {Unset}
    /\ ~tangled => Untangled

LEMMA FollowedInit == OrchInit => Followed
<1> SUFFICES ASSUME OrchInit PROVE Followed OBVIOUS
<1>1. Fresh \in Sessions /\ Fresh.latest = Unset /\ Fresh.cursor = Unset
  BY DEF Fresh, Sessions, Statuses, Idle, Allowed
<1>2. NoPatch \in Patchings /\ NoPatch.pc = "idle" /\ NoPatch.row = Fresh BY <1>1 DEF NoPatch, Patchings
<1>3. NoSummary \in Summings /\ NoSummary.pc = "idle" BY DEF NoSummary, Summings
<1>4. /\ session = Fresh /\ rows = {} /\ minted = [c \in Summaries |-> 0] /\ clock = 0
      /\ patch = [p \in Patches |-> NoPatch] /\ summary = [c \in Summaries |-> NoSummary]
      /\ skipped = FALSE /\ named = Unset /\ tangled = FALSE
  BY DEF OrchInit
<1>5. SessionTypes BY <1>1, <1>2, <1>3, <1>4 DEF SessionTypes
<1>6. /\ \A p \in Patches : patch[p].pc = "idle" /\ patch[p].row.latest = Unset
      /\ \A c \in Summaries : summary[c].pc = "idle" /\ minted[c] = 0
  BY <1>1, <1>2, <1>3, <1>4
<1>7. Untangled BY <1>1, <1>4, <1>6 DEF Untangled, SessionFollows, OneRequest
<1> QED BY <1>1, <1>4, <1>5, <1>6, <1>7 DEF Followed, PointerOnRecord, Stamped

LEMMA PatchMoves ==
    ASSUME SessionTypes, NEW p \in Patches, NEW k \in Patchings, patch' = [patch EXCEPT ![p] = k]
    PROVE  /\ patch' \in [Patches -> Patchings] /\ patch'[p] = k
           /\ \A q \in Patches \ {p} : patch'[q] = patch[q]
BY DEF SessionTypes

LEMMA SummaryMoves ==
    ASSUME SessionTypes, NEW c \in Summaries, NEW k \in Summings, summary' = [summary EXCEPT ![c] = k]
    PROVE  /\ summary' \in [Summaries -> Summings] /\ summary'[c] = k
           /\ \A d \in Summaries \ {c} : summary'[d] = summary[d]
BY DEF SessionTypes

LEMMA ReadRowKeeps ==
    ASSUME Followed, NEW p \in Patches, ReadRow(p)
    PROVE  Followed'
<1>t. SessionTypes BY DEF Followed
<1>1. PICK cursor \in Cursors \cup {Unset}, status \in Statuses :
          /\ status = session.status \/ CanTransition(session.status, status)
          /\ patch' = [patch EXCEPT ![p] =
                [pc |-> "update", cursor |-> cursor,
                 row |-> [session EXCEPT !.status = status, !.cursor = Or(cursor, session.cursor)]]]
  BY DEF ReadRow
<1>2. PICK copy \in Sessions : copy = [session EXCEPT !.status = status, !.cursor = Or(cursor, session.cursor)]
  BY <1>t DEF SessionTypes, Sessions, Or
<1>3. /\ copy.latest = session.latest /\ copy.cursor = Or(cursor, session.cursor)
      /\ copy.status \in Allowed[session.status] \cup {session.status}
  BY <1>1, <1>2, <1>t DEF SessionTypes, Sessions, CanTransition
<1>4. PICK k \in Patchings : k = [pc |-> "update", cursor |-> cursor, row |-> copy] BY DEF Patchings
<1>5. k.cursor = cursor /\ k.row = copy BY <1>4
<1>6. patch' = [patch EXCEPT ![p] = k] BY <1>1, <1>2, <1>4
<1>7. /\ patch' \in [Patches -> Patchings] /\ patch'[p] = k /\ \A q \in Patches \ {p} : patch'[q] = patch[q]
  BY <1>6, <1>t, PatchMoves
<1>8. /\ UNCHANGED <<session, rows, minted, clock, summary, skipped, named>>
      /\ tangled' = (tangled \/ Busy)
  BY DEF ReadRow, Meets
<1>9. SessionTypes' BY <1>7, <1>8, <1>t DEF SessionTypes
<1>10. \A q \in Patches : patch'[q].row.latest \in rows' \cup {Unset}
  BY <1>3, <1>5, <1>7, <1>8 DEF Followed, PointerOnRecord
<1>11. PointerOnRecord' /\ Stamped' BY <1>8 DEF Followed, PointerOnRecord, Stamped
<1>12. ASSUME ~tangled' PROVE Untangled'
  <2>1. ~tangled /\ ~Busy /\ Untangled BY <1>8, <1>12, <1>t DEF Followed, SessionTypes
  <2>2. SessionFollows' BY <1>8, <1>12, <2>1 DEF Untangled, SessionFollows, NewestOf
  <2>3. OneRequest' BY <1>7, <1>8, <2>1 DEF OneRequest, Busy
  <2>4. Copied(p)' BY <1>3, <1>5, <1>7, <1>8 DEF Copied
  <2>5. \A q \in Patches : patch'[q].pc = "update" => q = p BY <1>7, <2>1 DEF Busy
  <2>6. \A c \in Summaries : summary'[c].pc # "insert" BY <1>8, <2>1 DEF Busy
  <2> QED BY <2>2, <2>3, <2>4, <2>5, <2>6 DEF Untangled
<1> QED BY <1>9, <1>10, <1>11, <1>12 DEF Followed

LEMMA UpdateRowKeeps ==
    ASSUME Followed, NEW p \in Patches, UpdateRow(p)
    PROVE  Followed'
<1>t. SessionTypes BY DEF Followed
<1>1. NoPatch \in Patchings /\ NoPatch.pc = "idle" /\ NoPatch.row.latest = Unset
  BY DEF NoPatch, Patchings, Fresh, Sessions, Statuses, Idle, Allowed
<1>2. /\ patch[p].pc = "update" /\ session' = patch[p].row /\ named' = Or(patch[p].cursor, named)
      /\ skipped' = (skipped \/ patch[p].row.status \notin Allowed[session.status] \cup {session.status})
      /\ patch' = [patch EXCEPT ![p] = NoPatch] /\ UNCHANGED <<rows, minted, clock, summary, tangled>>
  BY DEF UpdateRow
<1>3. /\ patch' \in [Patches -> Patchings] /\ patch'[p] = NoPatch
      /\ \A q \in Patches \ {p} : patch'[q] = patch[q]
  BY <1>1, <1>2, <1>t, PatchMoves
<1>4. patch[p] \in Patchings /\ patch[p].row \in Sessions /\ patch[p].cursor \in Cursors \cup {Unset}
  BY <1>t DEF SessionTypes, Patchings
<1>5. SessionTypes' BY <1>2, <1>3, <1>4, <1>t DEF SessionTypes, Or
<1>6. PointerOnRecord' /\ Stamped' BY <1>2 DEF Followed, PointerOnRecord, Stamped
<1>7. \A q \in Patches : patch'[q].row.latest \in rows' \cup {Unset} BY <1>1, <1>2, <1>3 DEF Followed
<1>8. ASSUME ~tangled' PROVE Untangled'
  <2>1. ~tangled /\ Untangled /\ Copied(p) BY <1>2, <1>8 DEF Followed, Untangled
  <2>2. session'.latest = session.latest /\ session'.cursor = Or(patch[p].cursor, session.cursor)
        /\ skipped' = skipped
    BY <1>2, <2>1, <1>t DEF Copied, SessionTypes
  <2>3. SessionFollows' BY <1>2, <2>1, <2>2 DEF Untangled, SessionFollows, NewestOf
  <2>4. /\ \A q \in Patches : patch'[q].pc # "update"
        /\ \A c \in Summaries : summary'[c].pc # "insert"
    BY <1>1, <1>2, <1>3, <2>1 DEF Untangled, OneRequest
  <2> QED BY <2>3, <2>4 DEF Untangled, OneRequest
<1> QED BY <1>5, <1>6, <1>7, <1>8 DEF Followed

LEMMA MintCheckpointKeeps ==
    ASSUME Followed, NEW c \in Summaries, MintCheckpoint(c)
    PROVE  Followed'
<1>t. SessionTypes /\ Stamped BY DEF Followed
<1>1. PICK k \in Summings : summary' = [summary EXCEPT ![c] = k] BY DEF MintCheckpoint, Summings
<1>2. /\ minted[c] = 0 /\ clock' = clock + 1 /\ minted' = [minted EXCEPT ![c] = clock + 1]
      /\ tangled' = (tangled \/ Busy) /\ UNCHANGED <<session, rows, patch, skipped, named>>
  BY DEF MintCheckpoint, Meets
<1>3. summary' \in [Summaries -> Summings] /\ \A d \in Summaries \ {c} : summary'[d] = summary[d]
  BY <1>1, <1>t, SummaryMoves
<1>4. clock \in Nat /\ minted \in [Summaries -> Nat] BY <1>t DEF SessionTypes
<1>5. /\ minted' \in [Summaries -> Nat] /\ clock' \in Nat /\ minted'[c] = clock' /\ clock' # 0 /\ clock <= clock'
      /\ \A d \in Summaries \ {c} : minted'[d] = minted[d] /\ minted[d] \in Nat
  BY <1>2, <1>4
<1>6. SessionTypes' BY <1>2, <1>3, <1>5, <1>t DEF SessionTypes, Busy
<1>7. Stamped'
  <2>1. ASSUME NEW d \in Summaries PROVE minted'[d] <= clock'
    <3>1. CASE d = c BY <1>5, <3>1
    <3>2. CASE d # c
      <4>1. minted[d] <= clock /\ minted'[d] = minted[d] /\ minted[d] \in Nat BY <1>5, <1>t, <3>2 DEF Stamped
      <4> QED BY <1>2, <1>4, <4>1
    <3> QED BY <3>1, <3>2
  <2> QED BY <1>2, <1>3, <1>5, <1>t, <2>1 DEF Stamped
<1>8. PointerOnRecord' /\ \A q \in Patches : patch'[q].row.latest \in rows' \cup {Unset}
  BY <1>2 DEF Followed, PointerOnRecord
<1>9. ASSUME ~tangled' PROVE Untangled'
  <2>1. ~tangled /\ ~Busy /\ Untangled BY <1>2, <1>9, <1>t DEF Followed, SessionTypes
  <2>2. c \notin rows BY <1>2, <1>t DEF Stamped
  <2>3. \A d \in rows : minted'[d] = minted[d] BY <1>5, <2>2, <1>t DEF SessionTypes
  <2>4. SessionFollows' BY <1>2, <2>1, <2>3 DEF Untangled, SessionFollows, NewestOf
  <2>5. /\ \A q \in Patches : patch'[q].pc # "update"
        /\ \A d \in Summaries : summary'[d].pc = "insert" => d = c
    BY <1>2, <1>3, <2>1 DEF Busy
  <2> QED BY <1>5, <2>4, <2>5 DEF Untangled, OneRequest
<1> QED BY <1>6, <1>7, <1>8, <1>9 DEF Followed

LEMMA InsertCheckpointKeeps ==
    ASSUME Followed, NEW c \in Summaries, InsertCheckpoint(c)
    PROVE  Followed'
<1>t. SessionTypes /\ Stamped BY DEF Followed
<1>1. NoSummary \in Summings /\ NoSummary.pc = "idle" BY DEF NoSummary, Summings
<1>2. /\ summary[c].pc = "insert" /\ rows' = rows \cup {c}
      /\ session' = [session EXCEPT !.latest = c, !.cursor = Or(summary[c].to, session.cursor)]
      /\ named' = Or(summary[c].to, named) /\ summary' = [summary EXCEPT ![c] = NoSummary]
      /\ UNCHANGED <<minted, clock, patch, skipped, tangled>>
  BY DEF InsertCheckpoint
<1>3. summary' \in [Summaries -> Summings] /\ summary'[c] = NoSummary
      /\ \A d \in Summaries \ {c} : summary'[d] = summary[d]
  BY <1>1, <1>2, <1>t, SummaryMoves
<1>4. summary[c] \in Summings /\ summary[c].to \in Cursors \cup {Unset} BY <1>t DEF SessionTypes, Summings
<1>5. session' \in Sessions /\ session'.latest = c /\ session'.cursor = Or(summary[c].to, session.cursor)
  BY <1>2, <1>4, <1>t DEF SessionTypes, Sessions, Or
<1>6. SessionTypes' BY <1>2, <1>3, <1>4, <1>5, <1>t DEF SessionTypes, Or
<1>7. PointerOnRecord' /\ \A q \in Patches : patch'[q].row.latest \in rows' \cup {Unset}
  BY <1>2, <1>5 DEF Followed, PointerOnRecord
<1>8. Stamped' BY <1>1, <1>2, <1>3, <1>t DEF Stamped
<1>9. ASSUME ~tangled' PROVE Untangled'
  <2>1. ~tangled /\ Untangled BY <1>2, <1>9 DEF Followed
  <2>2. minted[c] = clock /\ \A d \in rows' : minted[d] <= minted[c]
    BY <1>2, <2>1, <1>t DEF Untangled, Stamped, SessionTypes
  <2>3. session'.latest \in NewestOf(rows)' /\ rows' # {} BY <1>2, <1>5, <2>2 DEF NewestOf
  <2>4. SessionFollows' BY <1>2, <1>5, <2>1, <2>3 DEF Untangled, SessionFollows
  <2>5. /\ \A q \in Patches : patch'[q].pc # "update"
        /\ \A d \in Summaries : summary'[d].pc # "insert"
    BY <1>1, <1>2, <1>3, <2>1 DEF Untangled, OneRequest
  <2> QED BY <2>4, <2>5 DEF Untangled, OneRequest
<1> QED BY <1>6, <1>7, <1>8, <1>9 DEF Followed

LEMMA FollowedStep ==
    ASSUME Followed, OrchNext \/ UNCHANGED orchVars
    PROVE  Followed'
<1>t. SessionTypes BY DEF Followed
<1>s. ASSUME UNCHANGED <<session, rows, minted, clock, skipped, named, tangled>>,
             patch' \in [Patches -> Patchings], summary' \in [Summaries -> Summings],
             \A p \in Patches : patch'[p] \in {patch[p], NoPatch},
             \A c \in Summaries : summary'[c] \in {summary[c], NoSummary}
      PROVE  Followed'
  <2>1. SessionTypes' BY <1>s, <1>t DEF SessionTypes
  <2>2. NoPatch.pc = "idle" /\ NoPatch.row.latest = Unset /\ NoSummary.pc = "idle"
    BY DEF NoPatch, NoSummary, Fresh
  <2>3. PointerOnRecord' /\ \A q \in Patches : patch'[q].row.latest \in rows' \cup {Unset}
    BY <1>s, <2>2 DEF Followed, PointerOnRecord
  <2>4. Stamped' BY <1>s, <2>2 DEF Followed, Stamped
  <2>5. ASSUME ~tangled' PROVE Untangled'
    <3>1. ~tangled /\ Untangled BY <1>s, <2>5 DEF Followed
    <3>2. SessionFollows' BY <1>s, <3>1 DEF Untangled, SessionFollows, NewestOf
    <3>3. /\ \A p \in Patches : patch'[p].pc = "update" => patch'[p] = patch[p]
          /\ \A c \in Summaries : summary'[c].pc = "insert" => summary'[c] = summary[c]
      BY <1>s, <2>2
    <3>4. OneRequest' BY <3>1, <3>3 DEF Untangled, OneRequest
    <3> QED BY <1>s, <3>1, <3>2, <3>3, <3>4 DEF Untangled, Copied
  <2> QED BY <2>1, <2>3, <2>4, <2>5 DEF Followed
<1>1. CASE UNCHANGED orchVars BY <1>1, <1>s, <1>t DEF orchVars, SessionTypes
<1>2. CASE CreateSession BY <1>2, <1>s, <1>t DEF CreateSession, SessionTypes
<1>3. ASSUME NEW p \in Patches, DropPatch(p) PROVE Followed'
  <2>1. NoPatch \in Patchings BY DEF NoPatch, Patchings, Fresh, Sessions, Statuses, Idle, Allowed
  <2> QED BY <1>3, <1>s, <1>t, <2>1, PatchMoves DEF DropPatch, SessionTypes
<1>4. ASSUME NEW c \in Summaries, DropCheckpoint(c) PROVE Followed'
  <2>1. NoSummary \in Summings BY DEF NoSummary, Summings
  <2> QED BY <1>4, <1>s, <1>t, <2>1, SummaryMoves DEF DropCheckpoint, SessionTypes
<1> QED
  BY <1>1, <1>2, <1>3, <1>4, ReadRowKeeps, UpdateRowKeeps, MintCheckpointKeeps, InsertCheckpointKeeps DEF OrchNext

\* OrchestratorKept: a session's pointer never names a checkpoint that is not
\* on record; without two requests at work at once it names the newest, the
\* cursor is the one named last, and the status has kept to its machine.
THEOREM OrchestratorKeptHolds == Spec => []OrchestratorKept
<1>1. Followed /\ [Next]_vars => Followed' BY FollowedStep, Parts
<1>2. Init => Followed BY FollowedInit DEF Init, RecordsInit
<1>3. Followed => OrchestratorKept BY DEF Followed, OrchestratorKept, Untangled, SessionFollows
<1> QED BY <1>1, <1>2, <1>3, PTL DEF Spec

-----------------------------------------------------------------------------
(* What an operator leaves for a task.  A prompt that was given and neither *)
(* recorded nor lost is the step's that is starting, and what it read is    *)
(* not consumed until it is recorded.                                       *)

WishRows == [pc : {"none", "insert", "row", "gone"}, target : Steps \cup {AnyStep}, consumed : BOOLEAN]

WishTypes ==
    /\ wish \in [Wishes -> WishRows] /\ told \in [Wishes -> [Steps -> Nat]] /\ heard \in [Wishes -> Nat]
    /\ fails \in Nat /\ turn.pc \in {"rest", "spawn", "mark"} /\ turn.list \subseteq Wishes

Given(w) == {s \in Steps : told[w][s] > 0}

\* Nothing is known of w's last prompt yet.
Owed(w) == turn.pc = "mark" /\ w \in turn.list

\* What holds of intervention w; once it is consumed or gone no prompt is added.
Kept(w) ==
    /\ wish[w].pc \in {"none", "insert"} => Given(w) = {} /\ ~wish[w].consumed
    /\ wish[w].consumed => Given(w) # {}
    /\ wish[w].target # AnyStep => Given(w) \subseteq {wish[w].target}
    /\ IsFiniteSet(Given(w)) /\ Cardinality(Given(w)) <= 1 + fails
    /\ \A s \in Steps : told[w][s] <= 1 + fails
    /\ wish[w].pc = "row" /\ ~wish[w].consumed /\ ~Owed(w) =>
          Cardinality(Given(w)) <= fails /\ \A s \in Steps : told[w][s] <= fails
    /\ heard[w] <= 1 /\ (heard[w] = 1 <=> wish[w].consumed)

\* What the step that is starting has read.
Starting ==
    turn.pc \in {"spawn", "mark"} =>
        /\ turn.step \in Steps
        /\ \A w \in turn.list : /\ wish[w].pc \in {"row", "gone"} /\ ~wish[w].consumed
                                /\ wish[w].target \in {AnyStep, turn.step}
                                /\ turn.pc = "mark" => turn.step \in Given(w)
                                /\ wish[w].pc = "gone" /\ turn.pc = "spawn" =>
                                      Cardinality(Given(w)) <= fails /\ \A s \in Steps : told[w][s] <= fails

Attended == WishTypes /\ Starting /\ \A w \in Wishes : Kept(w)

LEMMA AttendedInit == WishInit => Attended
<1> SUFFICES ASSUME WishInit PROVE Attended OBVIOUS
<1>1. PICK k \in WishRows : k = [pc |-> "none", target |-> AnyStep, consumed |-> FALSE] BY DEF WishRows
<1>2. k.pc = "none" /\ k.target = AnyStep /\ k.consumed = FALSE BY <1>1
<1>3. /\ turn = NoTurn /\ fails = 0 /\ wish = [w \in Wishes |-> k]
      /\ told = [w \in Wishes |-> [s \in Steps |-> 0]] /\ heard = [w \in Wishes |-> 0]
  BY <1>1 DEF WishInit
<1>4. NoTurn.pc = "rest" /\ NoTurn.list = {} BY DEF NoTurn
<1>5. WishTypes /\ Starting BY <1>2, <1>3, <1>4 DEF WishTypes, Starting
<1>6. \A w \in Wishes : Given(w) = {} /\ wish[w] = k /\ heard[w] = 0 BY <1>3 DEF Given
<1>7. IsFiniteSet({}) /\ Cardinality({}) = 0 BY FS_EmptySet
<1> QED BY <1>2, <1>3, <1>5, <1>6, <1>7 DEF Attended, Kept

\* Intervention w, on its row or becoming one, as nothing is given or recorded.
LEMMA WishRests ==
    ASSUME Attended, WishTypes', UNCHANGED <<told, heard, fails>>, NEW w \in Wishes,
           wish'[w].consumed = wish[w].consumed, Owed(w) => Owed(w)',
           \/ wish'[w].target = wish[w].target /\ wish'[w].pc = wish[w].pc
           \/ wish'[w].target = wish[w].target /\ wish'[w].pc = "gone"
           \/ wish[w].pc \in {"none", "insert"}
    PROVE  Kept(w)'
<1>1. Given(w)' = Given(w) BY DEF Given
<1>2. Kept(w) /\ fails \in Nat BY DEF Attended, WishTypes
<1>3. IsFiniteSet({}) /\ Cardinality({}) = 0 BY FS_EmptySet
<1>4. \A s \in Steps : told[w][s] \in Nat BY DEF Attended, WishTypes
<1>5. CASE wish[w].pc \in {"none", "insert"}
  <2>1. Given(w) = {} /\ ~wish[w].consumed BY <1>2, <1>5 DEF Kept
  <2>2. \A s \in Steps : told[w][s] = 0 BY <1>4, <2>1 DEF Given
  <2> QED BY <1>1, <1>2, <1>3, <2>1, <2>2 DEF Kept
<1>6. CASE wish[w].pc \notin {"none", "insert"} BY <1>1, <1>2, <1>6 DEF Kept
<1> QED BY <1>5, <1>6

LEMMA SpawnedKeeps ==
    ASSUME Attended, Spawned
    PROVE  Attended'
<1>t. WishTypes /\ Starting /\ turn.pc = "spawn" BY DEF Attended, Spawned
<1>1. PICK s : s = turn.step OBVIOUS
<1>2. /\ s \in Steps /\ turn.list \subseteq Wishes /\ UNCHANGED <<wish, heard, fails>>
      /\ told' = [w \in Wishes |-> IF w \in turn.list THEN [told[w] EXCEPT ![s] = told[w][s] + 1] ELSE told[w]]
  BY <1>1, <1>t DEF Spawned, Starting, WishTypes
<1>3. turn'.pc = "mark" /\ turn'.step = s /\ turn'.list = turn.list
  BY <1>1, <1>t DEF Spawned
<1>4. ASSUME NEW w \in Wishes PROVE told'[w] \in [Steps -> Nat] BY <1>2, <1>4, <1>t DEF WishTypes
<1>5. WishTypes' BY <1>2, <1>3, <1>4, <1>t DEF WishTypes
<1>6. ASSUME NEW w \in turn.list
      PROVE  /\ told'[w][s] = told[w][s] + 1 /\ \A x \in Steps \ {s} : told'[w][x] = told[w][x]
             /\ \A x \in Steps : told[w][x] \in Nat
             /\ Given(w)' = Given(w) \cup {s}
  <2>1. /\ told[w] \in [Steps -> Nat] /\ told'[w] = [told[w] EXCEPT ![s] = told[w][s] + 1]
    BY <1>2, <1>6, <1>t DEF WishTypes
  <2>2. told'[w][s] = told[w][s] + 1 /\ (\A x \in Steps \ {s} : told'[w][x] = told[w][x]) /\ told[w][s] \in Nat
    BY <1>2, <2>1
  <2>3. Given(w)' = Given(w) \cup {s} BY <1>2, <2>1, <2>2 DEF Given
  <2> QED BY <2>1, <2>2, <2>3
<1>7. Starting'
  <2>1. \A w \in turn.list : s \in Given(w)' BY <1>6
  <2> QED BY <1>1, <1>2, <1>3, <1>t, <2>1 DEF Starting
<1>8. ASSUME NEW w \in Wishes PROVE Kept(w)'
  <2>1. CASE w \notin turn.list
    <3>1. told'[w] = told[w] BY <1>2, <2>1
    <3>2. Given(w)' = Given(w) BY <3>1 DEF Given
    <3> QED BY <1>2, <1>3, <2>1, <3>1, <3>2 DEF Attended, Kept, Owed
  <2>2. CASE w \in turn.list
    <3>1. /\ wish[w].pc \in {"row", "gone"} /\ ~wish[w].consumed /\ wish[w].target \in {AnyStep, s}
          /\ Kept(w)
      BY <1>1, <1>t, <2>2 DEF Attended, Starting
    <3>2. Cardinality(Given(w)) <= fails /\ \A x \in Steps : told[w][x] <= fails
      BY <1>t, <2>2, <3>1 DEF Starting, Kept, Owed
    <3>3. /\ IsFiniteSet(Given(w)') /\ Cardinality(Given(w)') \in {Cardinality(Given(w)), Cardinality(Given(w)) + 1}
      <4>1. IsFiniteSet(Given(w)) BY <3>1 DEF Kept
      <4>2. Given(w)' = Given(w) \cup {s} BY <1>6, <2>2
      <4>3. CASE s \in Given(w)
        <5>1. Given(w)' = Given(w) BY <4>2, <4>3
        <5> QED BY <4>1, <5>1
      <4>4. CASE s \notin Given(w) BY <4>1, <4>2, <4>4, FS_AddElement
      <4> QED BY <4>3, <4>4
    <3>4. Cardinality(Given(w)) \in Nat /\ fails \in Nat BY <1>t, <3>1, FS_CardinalityType DEF Kept, WishTypes
    <3>5. Cardinality(Given(w)') <= 1 + fails' BY <1>2, <3>2, <3>3, <3>4
    <3>6. \A x \in Steps : told'[w][x] <= 1 + fails'
      <4> TAKE x \in Steps
      <4>1. told[w][x] \in Nat /\ told[w][x] <= fails BY <1>6, <2>2, <3>2
      <4>2. told'[w][x] \in {told[w][x], told[w][x] + 1} BY <1>6, <2>2
      <4> QED BY <1>2, <3>4, <4>1, <4>2
    <3>7. Owed(w)' BY <1>3, <2>2 DEF Owed
    <3>8. wish[w].target # AnyStep => Given(w)' \subseteq {wish[w].target} BY <1>6, <2>2, <3>1 DEF Kept
    <3>9. heard[w] <= 1 /\ heard[w] # 1 BY <3>1 DEF Kept
    <3> QED BY <1>2, <3>1, <3>3, <3>5, <3>6, <3>7, <3>8, <3>9 DEF Kept
  <2> QED BY <2>1, <2>2
<1> QED BY <1>5, <1>7, <1>8 DEF Attended

LEMMA MarkConsumedKeeps ==
    ASSUME Attended, MarkConsumed
    PROVE  Attended'
<1>t. WishTypes /\ Starting /\ turn.pc = "mark" BY DEF Attended, MarkConsumed
<1> DEFINE updated == {w \in turn.list : wish[w].pc = "row" /\ ~wish[w].consumed}
<1>1. /\ turn' = NoTurn /\ UNCHANGED <<told, fails>> /\ updated \subseteq Wishes
      /\ wish' = [w \in Wishes |-> [wish[w] EXCEPT !.consumed = @ \/ w \in updated]]
      /\ heard' = [w \in Wishes |-> IF w \in updated THEN heard[w] + 1 ELSE heard[w]]
  BY <1>t DEF MarkConsumed, WishTypes
<1>2. NoTurn.pc = "rest" /\ NoTurn.list = {} BY DEF NoTurn
<1>3. ASSUME NEW w \in Wishes
      PROVE  /\ wish'[w] \in WishRows /\ heard'[w] \in Nat
             /\ wish'[w].pc = wish[w].pc /\ wish'[w].target = wish[w].target
             /\ w \in updated => wish'[w].consumed = TRUE /\ heard'[w] = heard[w] + 1
             /\ w \notin updated => wish'[w].consumed = wish[w].consumed /\ heard'[w] = heard[w]
  <2>1. wish[w] \in WishRows /\ heard[w] \in Nat BY <1>t DEF WishTypes
  <2>2. wish'[w] = [wish[w] EXCEPT !.consumed = (wish[w].consumed \/ w \in updated)] BY <1>1
  <2>3. wish[w].consumed \in BOOLEAN BY <2>1 DEF WishRows
  <2>e. ASSUME NEW b \in BOOLEAN, wish'[w] = [wish[w] EXCEPT !.consumed = b]
        PROVE  /\ wish'[w] \in WishRows /\ wish'[w].consumed = b
               /\ wish'[w].pc = wish[w].pc /\ wish'[w].target = wish[w].target
    BY <2>1, <2>e DEF WishRows
  <2>4. CASE w \in updated
    <3>1. wish'[w] = [wish[w] EXCEPT !.consumed = TRUE] BY <2>2, <2>4
    <3>2. heard'[w] = heard[w] + 1 BY <1>1, <2>4
    <3> HIDE DEF updated
    <3>3. /\ wish'[w] \in WishRows /\ wish'[w].consumed = TRUE
          /\ wish'[w].pc = wish[w].pc /\ wish'[w].target = wish[w].target
      BY <2>e, <3>1
    <3> QED BY <2>1, <2>4, <3>2, <3>3
  <2>5. CASE w \notin updated
    <3>1. wish'[w] = [wish[w] EXCEPT !.consumed = wish[w].consumed] BY <2>2, <2>3, <2>5
    <3>2. heard'[w] = heard[w] BY <1>1, <2>5
    <3> HIDE DEF updated
    <3>3. wish[w].consumed \in BOOLEAN BY <2>3
    <3>4. /\ wish'[w] \in WishRows /\ wish'[w].consumed = wish[w].consumed
          /\ wish'[w].pc = wish[w].pc /\ wish'[w].target = wish[w].target
      BY <2>e, <3>1, <3>3
    <3> QED BY <2>1, <2>5, <3>2, <3>4
  <2> QED BY <2>4, <2>5
<1>4. WishTypes'
  <2>1. wish' \in [Wishes -> WishRows] /\ heard' \in [Wishes -> Nat] BY <1>1, <1>3
  <2> QED BY <1>1, <1>2, <1>t, <2>1 DEF WishTypes
<1>5. Starting' BY <1>1, <1>2 DEF Starting
<1>6. ASSUME NEW w \in Wishes PROVE Kept(w)'
  <2>1. Given(w)' = Given(w) /\ Kept(w) BY <1>1 DEF Given, Attended
  <2>2. CASE w \in updated
    <3>1. Given(w) # {} /\ ~wish[w].consumed BY <1>t, <2>2 DEF Starting
    <3>2. wish[w].pc = "row" BY <2>2
    <3>3. heard[w] \in Nat /\ heard[w] <= 1 /\ heard[w] # 1 BY <2>1, <3>1, <1>t DEF Kept, WishTypes
    <3>4. heard'[w] = 1 /\ wish'[w].consumed = TRUE /\ wish'[w].pc = "row" /\ wish'[w].target = wish[w].target
      <4>1. heard'[w] = heard[w] + 1 /\ wish'[w].consumed = TRUE BY <1>3, <2>2
      <4>2. wish'[w].pc = "row" /\ wish'[w].target = wish[w].target BY <1>3, <3>2
      <4> QED BY <3>3, <4>1, <4>2
    <3> HIDE DEF updated
    <3> QED BY <1>1, <2>1, <3>1, <3>4 DEF Kept
  <2>3. CASE w \notin updated
    <3>1. wish[w].pc = "row" /\ ~wish[w].consumed => ~Owed(w) BY <2>3 DEF Owed
    <3>2. /\ wish'[w].pc = wish[w].pc /\ wish'[w].consumed = wish[w].consumed
          /\ wish'[w].target = wish[w].target /\ heard'[w] = heard[w]
      BY <1>3, <2>3
    <3> HIDE DEF updated
    <3>3. wish'[w].pc = "row" /\ ~wish'[w].consumed =>
              Cardinality(Given(w)) <= fails /\ \A s \in Steps : told[w][s] <= fails
      BY <2>1, <3>1, <3>2 DEF Kept
    <3> QED BY <1>1, <2>1, <3>2, <3>3 DEF Kept
  <2> QED BY <2>2, <2>3
<1> QED BY <1>4, <1>5, <1>6 DEF Attended

LEMMA MarkFailsKeeps ==
    ASSUME Attended, MarkFails
    PROVE  Attended'
<1>t. WishTypes /\ fails \in Nat BY DEF Attended, WishTypes
<1>1. turn' = NoTurn /\ fails' = fails + 1 /\ UNCHANGED <<wish, told, heard>> BY DEF MarkFails
<1>2. NoTurn.pc = "rest" /\ NoTurn.list = {} BY DEF NoTurn
<1>3. WishTypes' /\ Starting' BY <1>1, <1>2, <1>t DEF WishTypes, Starting
<1>4. ASSUME NEW w \in Wishes PROVE Kept(w)'
  <2>1. Given(w)' = Given(w) /\ Kept(w) BY <1>1 DEF Given, Attended
  <2>2. \A s \in Steps : told[w][s] \in Nat /\ told[w][s] <= 1 + fails BY <1>t, <2>1 DEF WishTypes, Kept
  <2>3. Cardinality(Given(w)) \in Nat /\ Cardinality(Given(w)) <= 1 + fails
    BY <2>1, FS_CardinalityType DEF Kept
  <2>4. (\A s \in Steps : told[w][s] <= fails' /\ told[w][s] <= 1 + fails')
        /\ Cardinality(Given(w)) <= fails' /\ Cardinality(Given(w)) <= 1 + fails'
    BY <1>1, <1>t, <2>2, <2>3
  <2> QED BY <1>1, <2>1, <2>4 DEF Kept
<1> QED BY <1>3, <1>4 DEF Attended

LEMMA AttendedStep ==
    ASSUME Attended, WishNext \/ UNCHANGED wishVars
    PROVE  Attended'
<1>t. WishTypes /\ Starting BY DEF Attended
<1>1. CASE UNCHANGED wishVars
  <2>1. UNCHANGED <<wish, turn, told, heard, fails>> BY <1>1 DEF wishVars
  <2>2. WishTypes' BY <1>t, <2>1 DEF WishTypes
  <2>3. \A w \in Wishes : Given(w)' = Given(w) /\ (Owed(w)' <=> Owed(w)) BY <2>1 DEF Given, Owed
  <2>4. \A w \in Wishes : Kept(w)' BY <2>1, <2>3 DEF Attended, Kept
  <2>5. turn.list \subseteq Wishes BY <1>t DEF WishTypes
  <2>6. Starting' BY <1>t, <2>1, <2>3, <2>5 DEF Starting
  <2> QED BY <2>2, <2>4, <2>6 DEF Attended
<1>2. ASSUME NEW w \in Wishes, CheckTask(w) \/ InsertWish(w) PROVE Attended'
  <2>1. PICK k \in WishRows : /\ wish' = [wish EXCEPT ![w] = k] /\ k.consumed = wish[w].consumed
                              /\ k.pc # wish[w].pc /\ wish[w].pc \in {"none", "insert"}
                              /\ k.pc \in {"insert", "row", "gone"}
    <3>1. wish[w] \in WishRows BY <1>t DEF WishTypes
    <3>2. CASE CheckTask(w)
      <4>1. PICK u \in Steps \cup {AnyStep} : wish' = [wish EXCEPT ![w].pc = "insert", ![w].target = u]
        BY <3>2 DEF CheckTask
      <4>2. PICK k \in WishRows : k = [wish[w] EXCEPT !.pc = "insert", !.target = u] BY <3>1 DEF WishRows
      <4>3. wish' = [wish EXCEPT ![w] = k] BY <4>1, <4>2, <1>t DEF WishTypes
      <4>4. k.consumed = wish[w].consumed /\ k.pc = "insert" BY <3>1, <4>2 DEF WishRows
      <4> QED BY <3>2, <4>3, <4>4 DEF CheckTask
    <3>3. CASE InsertWish(w)
      <4>1. PICK pc \in {"row", "gone"} : wish' = [wish EXCEPT ![w].pc = pc] BY <3>3 DEF InsertWish
      <4>2. PICK k \in WishRows : k = [wish[w] EXCEPT !.pc = pc] BY <3>1 DEF WishRows
      <4>3. wish' = [wish EXCEPT ![w] = k] BY <4>1, <4>2
      <4>4. k.consumed = wish[w].consumed /\ k.pc \in {"row", "gone"} BY <3>1, <4>2 DEF WishRows
      <4> QED BY <3>3, <4>3, <4>4 DEF InsertWish
    <3> QED BY <1>2, <3>2, <3>3
  <2>2. UNCHANGED <<turn, told, heard, fails>> BY <1>2 DEF CheckTask, InsertWish
  <2>3. wish' \in [Wishes -> WishRows] /\ wish'[w] = k /\ \A v \in Wishes \ {w} : wish'[v] = wish[v]
    BY <2>1, <1>t DEF WishTypes
  <2>4. WishTypes' BY <1>t, <2>2, <2>3 DEF WishTypes
  <2>5. Starting'
    <3>1. turn.pc \in {"spawn", "mark"} => \A v \in turn.list : v # w /\ v \in Wishes
      BY <1>t, <2>1 DEF Starting, WishTypes
    <3>2. \A v \in Wishes : Given(v)' = Given(v) BY <2>2 DEF Given
    <3> QED BY <1>t, <2>2, <2>3, <3>1, <3>2 DEF Starting
  <2>6. \A v \in Wishes : Kept(v)'
    <3> TAKE v \in Wishes
    <3>1. Owed(v) => Owed(v)' BY <2>2 DEF Owed
    <3>2. CASE v = w BY <2>1, <2>2, <2>3, <2>4, <3>1, <3>2, WishRests
    <3>3. CASE v # w BY <2>2, <2>3, <2>4, <3>1, <3>3, WishRests
    <3> QED BY <3>2, <3>3
  <2> QED BY <2>4, <2>5, <2>6 DEF Attended
<1>3. ASSUME NEW s \in Steps, ListPending(s) PROVE Attended'
  <2>1. PICK list \in SUBSET Wishes :
            /\ \A w \in list : Pending(w, s) /\ turn' = [pc |-> "spawn", step |-> s, list |-> list]
            /\ turn' = [pc |-> "spawn", step |-> s, list |-> list] /\ turn.pc = "rest"
            /\ UNCHANGED <<wish, told, heard, fails>>
    BY <1>3 DEF ListPending
  <2>2. turn'.pc = "spawn" /\ turn'.step = s /\ turn'.list = list BY <2>1
  <2>3. WishTypes' BY <1>t, <2>1, <2>2 DEF WishTypes
  <2>4. \A w \in Wishes : Kept(w)'
    <3> TAKE w \in Wishes
    <3>1. ~Owed(w) BY <2>1 DEF Owed
    <3> QED BY <2>1, <2>3, <3>1, WishRests
  <2>5. Starting' BY <2>1, <2>2 DEF Starting, Pending
  <2> QED BY <2>3, <2>4, <2>5 DEF Attended
<1>4. CASE NotSpawned
  <2>1. turn.pc = "spawn" /\ turn' = NoTurn /\ UNCHANGED <<wish, told, heard, fails>> BY <1>4 DEF NotSpawned
  <2>2. NoTurn.pc = "rest" /\ NoTurn.list = {} BY DEF NoTurn
  <2>3. WishTypes' /\ Starting' BY <1>t, <2>1, <2>2 DEF WishTypes, Starting
  <2>4. \A w \in Wishes : Kept(w)'
    <3> TAKE w \in Wishes
    <3>1. ~Owed(w) BY <2>1 DEF Owed
    <3> QED BY <2>1, <2>3, <3>1, WishRests
  <2> QED BY <2>3, <2>4 DEF Attended
<1>5. CASE Purge
  <2>1. /\ wish' = [w \in Wishes |-> [wish[w] EXCEPT !.pc = IF wish[w].pc = "row" THEN "gone" ELSE wish[w].pc]]
        /\ UNCHANGED <<turn, told, heard, fails>>
    BY <1>5 DEF Purge
  <2>2. ASSUME NEW w \in Wishes
        PROVE  /\ wish'[w] \in WishRows /\ wish'[w].target = wish[w].target /\ wish'[w].consumed = wish[w].consumed
               /\ wish'[w].pc = (IF wish[w].pc = "row" THEN "gone" ELSE wish[w].pc)
    <3>1. wish[w] \in WishRows BY <1>t DEF WishTypes
    <3> QED BY <2>1, <3>1 DEF WishRows
  <2>3. WishTypes'
    <3>1. wish' \in [Wishes -> WishRows] BY <2>1, <2>2
    <3> QED BY <1>t, <2>1, <3>1 DEF WishTypes
  <2>4. \A w \in Wishes : Kept(w)'
    <3> TAKE w \in Wishes
    <3>1. Owed(w) => Owed(w)' BY <2>1 DEF Owed
    <3> QED BY <2>1, <2>2, <2>3, <3>1, WishRests
  <2>5. Starting'
    <3> SUFFICES ASSUME turn.pc \in {"spawn", "mark"}, NEW w \in turn.list
                 PROVE  /\ turn.step \in Steps
                        /\ wish'[w].pc \in {"row", "gone"} /\ ~wish'[w].consumed
                        /\ wish'[w].target \in {AnyStep, turn.step}
                        /\ turn.pc = "mark" => turn.step \in Given(w)'
                        /\ turn.pc = "spawn" =>
                              Cardinality(Given(w)') <= fails /\ \A s \in Steps : told[w][s] <= fails
      BY <1>t, <2>1 DEF Starting
    <3>1. w \in Wishes /\ Kept(w) BY <1>t DEF WishTypes, Attended
    <3>2. Given(w)' = Given(w) BY <2>1 DEF Given
    <3> QED BY <1>t, <2>2, <3>1, <3>2 DEF Starting, Kept, Owed
  <2> QED BY <2>3, <2>4, <2>5 DEF Attended
<1> QED BY <1>1, <1>2, <1>3, <1>4, <1>5, SpawnedKeeps, MarkConsumedKeeps, MarkFailsKeeps DEF WishNext

\* WishesKept: an intervention is consumed only when an agent was given it, is
\* given once more for each prompt that went unrecorded and no oftener, is
\* announced once, and goes to the step it was meant for.
THEOREM WishesKeptHolds == Spec => []WishesKept
<1>1. Attended /\ [Next]_vars => Attended' BY AttendedStep, Parts
<1>2. Init => Attended BY AttendedInit DEF Init, RecordsInit
<1>3. Attended => WishesKept
  <2> SUFFICES ASSUME Attended, NEW w \in Wishes
               PROVE  /\ wish[w].consumed => Given(w) # {}
                      /\ \A s \in Steps : told[w][s] <= 1 + fails
                      /\ Cardinality(Given(w)) <= 1 + fails
                      /\ heard[w] <= 1 /\ (heard[w] = 1 => wish[w].consumed)
                      /\ wish[w].target # AnyStep => Given(w) \subseteq {wish[w].target}
    BY DEF WishesKept, Given
  <2> QED BY DEF Attended, Kept
<1> QED BY <1>1, <1>2, <1>3, PTL DEF Spec

-----------------------------------------------------------------------------
(* The pages of a ledger: the newest n of a finite set of times, cut off a *)
(* window of n + 1 that says whether there are more.                       *)

Below == {ss \in Nat \X Nat : ss[1] < ss[2]}

LEMMA LeastOf ==
    ASSUME NEW S \in SUBSET Nat, S # {}
    PROVE  \E i \in S : \A j \in S : i <= j
<1>1. IsWellFoundedOn(Below, Nat) BY NatLessThanWellFounded DEF OpToRel, Below
<1>2. PICK i \in S : \A j \in S : ~(<<j, i>> \in Below) BY <1>1, WFMin
<1>3. ASSUME NEW j \in S PROVE i <= j
  <2>1. i \in Nat /\ j \in Nat /\ ~(<<j, i>> \in Below) BY <1>2
  <2>2. ~(j < i) BY <2>1 DEF Below
  <2> QED BY <2>1, <2>2
<1> QED BY <1>2, <1>3

LEMMA GreatestOf ==
    ASSUME NEW t \in Nat, NEW S \in SUBSET (1 .. t), S # {}
    PROVE  \E i \in S : \A j \in S : j <= i
<1> DEFINE T == {k \in Nat : t - k \in S}
<1>1. T # {}
  <2>1. PICK i \in S : TRUE OBVIOUS
  <2>2. t - i \in Nat /\ t - (t - i) = i OBVIOUS
  <2> QED BY <2>1, <2>2
<1>2. PICK k \in T : \A j \in T : k <= j
  <2>1. T \in SUBSET Nat OBVIOUS
  <2> HIDE DEF T
  <2> QED BY <1>1, <2>1, LeastOf
<1>3. ASSUME NEW j \in S PROVE j <= t - k
  <2>1. j \in Nat /\ t - j \in Nat /\ t - (t - j) = j OBVIOUS
  <2>2. t - j \in T BY <2>1
  <2>3. k <= t - j /\ k \in Nat BY <1>2, <2>2
  <2> QED BY <2>1, <2>3
<1> QED BY <1>2, <1>3

LEMMA Few ==
    ASSUME NEW t \in Nat, NEW S \in SUBSET (1 .. t)
    PROVE  IsFiniteSet(S) /\ Cardinality(S) \in Nat
<1>1. S \in SUBSET Nat /\ \A x \in S : x <= t OBVIOUS
<1>2. IsFiniteSet(S) BY <1>1, FS_BoundedSetOfNaturals
<1> QED BY <1>2, FS_CardinalityType

\* Whatever is newer than one of the newest is one of them.
LEMMA TopIsUpward ==
    ASSUME NEW t \in Nat, NEW S \in SUBSET (1 .. t), NEW n \in Nat,
           NEW x \in Top(S, n), NEW y \in S, y > x
    PROVE  y \in Top(S, n)
<1>1. x \in S /\ Cardinality({z \in S : z > x}) < n BY DEF Top
<1>2. {z \in S : z > y} \in SUBSET {z \in S : z > x}
  <2> SUFFICES ASSUME NEW z \in S, z > y PROVE z > x OBVIOUS
  <2>1. x \in Nat /\ y \in Nat /\ z \in Nat BY <1>1
  <2> QED BY <2>1
<1>3. {z \in S : z > x} \in SUBSET (1 .. t) /\ {z \in S : z > y} \in SUBSET (1 .. t) OBVIOUS
<1>4. IsFiniteSet({z \in S : z > x}) BY <1>3, Few
<1>5. Cardinality({z \in S : z > y}) <= Cardinality({z \in S : z > x}) BY <1>2, <1>4, FS_Subset
<1>6. Cardinality({z \in S : z > y}) \in Nat /\ Cardinality({z \in S : z > x}) \in Nat BY <1>3, Few
<1>7. Cardinality({z \in S : z > y}) < n BY <1>1, <1>5, <1>6
<1> QED BY <1>7 DEF Top

\* A window that is not full has everything.
LEMMA WindowHasAll ==
    ASSUME NEW t \in Nat, NEW S \in SUBSET (1 .. t), NEW n \in Nat, Cardinality(Top(S, n + 1)) <= n
    PROVE  Top(S, n + 1) = S
<1>0. Top(S, n + 1) \subseteq S BY DEF Top
<1>1. SUFFICES ASSUME S \ Top(S, n + 1) # {} PROVE FALSE BY <1>0
<1>2. S \ Top(S, n + 1) \in SUBSET (1 .. t) OBVIOUS
<1>3. PICK x \in S \ Top(S, n + 1) : \A y \in S \ Top(S, n + 1) : y <= x BY <1>1, <1>2, GreatestOf
<1>4. {y \in S : y > x} \in SUBSET (1 .. t) /\ Top(S, n + 1) \in SUBSET (1 .. t) BY <1>0
<1>5. {y \in S : y > x} \in SUBSET Top(S, n + 1)
  <2> SUFFICES ASSUME NEW y \in S, y > x PROVE y \in Top(S, n + 1) OBVIOUS
  <2>1. x \in Nat /\ y \in Nat OBVIOUS
  <2> QED BY <1>3, <2>1
<1>6. IsFiniteSet(Top(S, n + 1)) BY <1>4, Few
<1>7. Cardinality({y \in S : y > x}) <= Cardinality(Top(S, n + 1)) BY <1>5, <1>6, FS_Subset
<1>8. Cardinality({y \in S : y > x}) \in Nat /\ Cardinality(Top(S, n + 1)) \in Nat BY <1>4, Few
<1>9. Cardinality({y \in S : y > x}) < n + 1 BY <1>7, <1>8
<1> QED BY <1>3, <1>9 DEF Top

\* A page of a window: all of it, or what is newer than everything it leaves.
LEMMA PageOf ==
    ASSUME NEW t \in Nat, NEW S \in SUBSET (1 .. t), NEW n \in Nat \ {0}
    PROVE  LET window == Top(S, n + 1)
               page   == Top(window, n)
           IN  /\ page \subseteq S
               /\ Cardinality(window) <= n => page = S
               /\ Cardinality(window) > n =>
                     /\ Lowest(page) \in page /\ \A x \in page : Lowest(page) <= x
                     /\ \A y \in S \ page : y < Lowest(page)
<1> DEFINE window == Top(S, n + 1)
           page   == Top(window, n)
<1>1. window \in SUBSET (1 .. t) /\ window \subseteq S /\ page \subseteq window BY DEF Top
<1>2. IsFiniteSet(window) /\ Cardinality(window) \in Nat BY <1>1, Few
<1>3. ASSUME Cardinality(window) <= n PROVE page = S
  <2>1. window = S BY <1>3, WindowHasAll
  <2>2. ASSUME NEW x \in window PROVE x \in page
    <3> DEFINE newer == {y \in window : y > x}
    <3>1. newer \in SUBSET window /\ newer # window
      <4>1. x \in Nat /\ x \notin newer BY <1>1
      <4> QED BY <4>1
    <3> HIDE DEF window
    <3>2. Cardinality(newer) <= Cardinality(window) /\ Cardinality(newer) # Cardinality(window)
      <4> HIDE DEF newer
      <4> QED BY <1>2, <3>1, FS_Subset
    <3>3. Cardinality(newer) \in Nat
      <4>1. newer \in SUBSET (1 .. t) BY <1>1
      <4> QED BY <4>1, Few
    <3>4. Cardinality(newer) < n BY <1>2, <1>3, <3>2, <3>3
    <3> QED BY <3>4 DEF Top
  <2> QED BY <1>1, <2>1, <2>2
<1>4. ASSUME Cardinality(window) > n
      PROVE  /\ Lowest(page) \in page /\ \A x \in page : Lowest(page) <= x
             /\ \A y \in S \ page : y < Lowest(page)
  <2>1. window # {} BY <1>2, <1>4, FS_EmptySet
  <2>2. PICK m \in window : \A y \in window : y <= m
    <3> HIDE DEF window
    <3> QED BY <1>1, <2>1, GreatestOf
  <2>3. {y \in window : y > m} = {}
    <3> SUFFICES ASSUME NEW y \in window, y > m PROVE FALSE OBVIOUS
    <3>1. y \in Nat /\ m \in Nat /\ y <= m BY <1>1, <2>2
    <3> QED BY <3>1
  <2>4. m \in page
    <3>1. Cardinality({y \in window : y > m}) = 0 BY <2>3, FS_EmptySet
    <3>2. Cardinality({y \in window : y > m}) < n BY <3>1
    <3> HIDE DEF window
    <3> QED BY <3>2 DEF Top
  <2>5. page \in SUBSET Nat BY <1>1
  <2>6. \E x \in page : \A y \in page : x <= y
    <3> HIDE DEF page
    <3> QED BY <2>4, <2>5, LeastOf
  <2>7. Lowest(page) \in page /\ \A x \in page : Lowest(page) <= x
    <3> HIDE DEF page
    <3> QED BY <2>6 DEF Lowest
  <2>8. ASSUME NEW y \in S, y \notin page PROVE y < Lowest(page)
    <3>1. PICK x : x = Lowest(page) OBVIOUS
    <3>2. x \in page /\ x \in window /\ x \in Nat /\ y \in Nat BY <1>1, <2>7, <3>1
    <3>3. ASSUME y > x PROVE FALSE
      <4>1. n + 1 \in Nat OBVIOUS
      <4>2. y \in window BY <3>2, <3>3, <4>1, TopIsUpward
      <4>3. y \in page
        <5> HIDE DEF window
        <5> QED BY <1>1, <3>2, <3>3, <4>2, TopIsUpward
      <4> QED BY <2>8, <4>3
    <3>4. y # x BY <2>8, <3>2
    <3>5. y < x BY <3>2, <3>3, <3>4
    <3> QED BY <3>1, <3>5
  <2> QED BY <2>7, <2>8
<1>5. page \subseteq S BY <1>1
<1> QED BY <1>3, <1>4, <1>5

-----------------------------------------------------------------------------
(* The ledger of an issue, until two requests get past the guard together: *)
(* one context, which every entry and every caller has, and a walk that    *)
(* has shown what is newer than its cursor and has what is older to show.  *)

Calls == [want : {"none", "open", "append", "page"}, of : Nat, at : Nat,
          pc : {"idle", "probe", "lookup", "again", "attach", "insert", "page", "work"}]
Walks == [cursor : Nat, shown : SUBSET Nat, over : BOOLEAN]

LedgerTypes ==
    /\ contexts \subseteq Nat /\ entries \subseteq [at : Nat, of : Nat] /\ tick \in Nat
    /\ call \in [Callers -> Calls] /\ walk \in Walks /\ due \subseteq entries

\* Caller q may be where its locals k say.
Calling(k) ==
    /\ k.pc = "attach" => contexts = {}
    /\ k.pc \in {"insert", "page", "work"} => k.of \in contexts
    /\ k.pc = "insert" => 0 < k.at /\ k.at <= tick
    /\ k.pc = "page" => k.want = "page"
    /\ k.want = "page" => ~walk.over
    /\ k.want = "none" => k.pc = "idle"

OneOfEach ==
    /\ \A x, y \in contexts : x = y
    /\ \A q, o \in Callers : /\ call[q].pc = "attach" /\ call[o].pc = "attach" => q = o
                             /\ call[q].want = "page" /\ call[o].want = "page" => q = o

Filed == \A e \in entries : e.of \in contexts /\ 0 < e.at /\ e.at <= tick

Walking ==
    /\ ~twice
    /\ \A e \in due : e.at \in walk.shown \/ (~walk.over /\ (walk.cursor = Start \/ e.at < walk.cursor))
    /\ walk.cursor = Start => walk.over \/ walk.shown = {}
    /\ walk.cursor # Start => \A x \in walk.shown : walk.cursor <= x

Unraced == LedgerTypes /\ OneOfEach /\ Filed /\ Walking /\ \A q \in Callers : Calling(call[q])
Ledger  == raced \in BOOLEAN /\ (~raced => Unraced)

LEMMA LedgerInit == NotesInit => Ledger
<1> SUFFICES ASSUME NotesInit PROVE Ledger OBVIOUS
<1>1. NoCall \in Calls /\ NoCall.pc = "idle" /\ NoCall.want = "none" BY DEF NoCall, Calls, NoContext
<1>2. NewWalk \in Walks /\ NewWalk.cursor = Start /\ NewWalk.shown = {} /\ ~NewWalk.over
  BY DEF NewWalk, Walks, Start
<1>3. /\ contexts = {} /\ entries = {} /\ tick = 0 /\ call = [q \in Callers |-> NoCall]
      /\ walk = NewWalk /\ due = {} /\ twice = FALSE /\ raced = FALSE
  BY DEF NotesInit
<1>4. LedgerTypes BY <1>1, <1>2, <1>3 DEF LedgerTypes
<1>5. \A q \in Callers : call[q] = NoCall BY <1>3
<1>6. OneOfEach /\ Filed /\ Walking BY <1>1, <1>2, <1>3, <1>5 DEF OneOfEach, Filed, Walking
<1>7. \A q \in Callers : Calling(call[q]) BY <1>1, <1>5 DEF Calling
<1> QED BY <1>3, <1>4, <1>6, <1>7 DEF Ledger, Unraced

\* Caller q goes on to k; the context, the clock and the entries may grow.
LEMMA CallerMoves ==
    ASSUME Unraced, NEW q \in Callers, NEW k \in Calls, call' = [call EXCEPT ![q] = k], UNCHANGED <<walk, twice>>,
           tick' \in Nat, tick <= tick',
           contexts' \subseteq Nat, contexts \subseteq contexts', \A x, y \in contexts' : x = y,
           entries \subseteq entries', entries' \subseteq [at : Nat, of : Nat], Filed',
           \/ contexts' = contexts
           \/ \A o \in Callers : call[o].pc = "attach" => o = q,
           k.pc = "attach" => \A o \in Callers : call[o].pc # "attach",
           Calling(k)',
           k.want = "page" => \/ call[q].want = "page"
                              \/ \A o \in Callers : call[o].want # "page",
           due' = due \/ (due' = entries /\ walk = NewWalk)
    PROVE  Unraced'
<1>1. call' \in [Callers -> Calls] /\ call'[q] = k /\ \A o \in Callers \ {q} : call'[o] = call[o]
  BY DEF Unraced, LedgerTypes
<1>2. LedgerTypes' BY <1>1 DEF Unraced, LedgerTypes
<1>3. OneOfEach'
  <2>1. \A p, o \in Callers : call'[p].pc = "attach" /\ call'[o].pc = "attach" => p = o
    BY <1>1 DEF Unraced, OneOfEach
  <2>2. \A p, o \in Callers : call'[p].want = "page" /\ call'[o].want = "page" => p = o
    BY <1>1 DEF Unraced, OneOfEach
  <2> QED BY <2>1, <2>2 DEF OneOfEach
<1>4. Walking'
  <2>1. CASE due' = due BY <2>1 DEF Unraced, Walking
  <2>2. CASE due' = entries /\ walk = NewWalk
    <3>1. walk.cursor = Start /\ ~walk.over BY <2>2 DEF NewWalk
    <3> QED BY <3>1 DEF Unraced, Walking
  <2> QED BY <2>1, <2>2
<1>5. \A o \in Callers : Calling(call[o])'
  <2> SUFFICES ASSUME NEW o \in Callers PROVE Calling(call[o])' OBVIOUS
  <2>1. CASE o = q BY <1>1, <2>1 DEF Calling
  <2>2. CASE o # q
    <3>1. call'[o] = call[o] /\ Calling(call[o]) /\ call[o] \in Calls /\ call[o].at \in Nat /\ tick \in Nat
      BY <1>1, <2>2 DEF Unraced, LedgerTypes, Calls
    <3>2. call[o].pc = "attach" => contexts' = {} BY <2>2, <3>1 DEF Calling
    <3>3. call[o].at <= tick => call[o].at <= tick' BY <3>1
    <3> QED BY <3>1, <3>2, <3>3 DEF Calling
  <2> QED BY <2>1, <2>2
<1> QED BY <1>2, <1>3, <1>4, <1>5 DEF Unraced

\* The context is at hand, and is the issue's.
LEMMA HasKeeps ==
    ASSUME Unraced, NEW q \in Callers, NEW c \in contexts', Has(q, c), UNCHANGED <<walk, twice, due, entries>>,
           call[q].pc # "idle",
           contexts' \subseteq Nat, contexts \subseteq contexts', \A x, y \in contexts' : x = y,
           contexts' = contexts \/ \A o \in Callers : call[o].pc = "attach" => o = q
    PROVE  Unraced'
<1>t. call[q] \in Calls /\ tick \in Nat /\ c \in Nat BY DEF Unraced, LedgerTypes
<1>1. tick' = tick \/ tick' = tick + 1 BY DEF Has
<1>2. tick' \in Nat /\ tick <= tick' BY <1>1, <1>t
<1>3. Filed'
  <2>1. \A e \in entries : e.at \in Nat BY DEF Unraced, LedgerTypes
  <2>2. ASSUME NEW e \in entries PROVE e.of \in contexts' /\ 0 < e.at /\ e.at <= tick'
    <3>1. e.of \in contexts /\ 0 < e.at /\ e.at <= tick /\ e.at \in Nat BY <2>1 DEF Unraced, Filed
    <3>2. e.at <= tick' BY <1>2, <1>t, <3>1
    <3> QED BY <3>1, <3>2
  <2> QED BY <2>2 DEF Filed
<1>4. CASE call[q].want = "open"
  <2>1. NoCall \in Calls /\ NoCall.pc = "idle" /\ NoCall.want = "none" BY DEF NoCall, Calls, NoContext
  <2>2. call' = [call EXCEPT ![q] = NoCall] BY <1>4 DEF Has
  <2>3. Calling(NoCall)' BY <2>1 DEF Calling
  <2> QED BY <1>2, <1>3, <2>1, <2>2, <2>3, CallerMoves DEF Unraced, LedgerTypes
<1>5. CASE call[q].want = "append"
  <2>1. call' = [call EXCEPT ![q] = [call[q] EXCEPT !.of = c, !.at = tick', !.pc = "insert"]] /\ tick' = tick + 1
    BY <1>5 DEF Has
  <2>2. PICK k \in Calls : k = [call[q] EXCEPT !.of = c, !.at = tick', !.pc = "insert"] BY <1>2, <1>t DEF Calls
  <2>3. k.pc = "insert" /\ k.of = c /\ k.at = tick' /\ k.want = "append" BY <1>5, <1>t, <2>2 DEF Calls
  <2>4. Calling(k)' BY <1>t, <1>2, <2>1, <2>3 DEF Calling
  <2> QED BY <1>2, <1>3, <2>1, <2>2, <2>3, <2>4, CallerMoves DEF Unraced, LedgerTypes
<1>6. CASE call[q].want \notin {"open", "append"}
  <2>0. call[q].want = "page" /\ Calling(call[q]) BY <1>6, <1>t DEF Calls, Calling, Unraced
  <2>1. call' = [call EXCEPT ![q] = [call[q] EXCEPT !.of = c, !.at = 0, !.pc = "page"]]
    BY <1>6 DEF Has
  <2>2. PICK k \in Calls : k = [call[q] EXCEPT !.of = c, !.at = 0, !.pc = "page"] BY <1>t DEF Calls
  <2>3. k.pc = "page" /\ k.of = c /\ k.want = call[q].want BY <1>t, <2>2 DEF Calls
  <2>4. Calling(k)' BY <2>0, <2>3 DEF Calling
  <2> QED BY <1>2, <1>3, <2>0, <2>1, <2>2, <2>3, <2>4, CallerMoves DEF Unraced, LedgerTypes
<1> QED BY <1>4, <1>5, <1>6

\* A page is shown: what it leaves is older than its oldest entry.
LEMMA ListPageKeeps ==
    ASSUME Unraced, NEW q \in Callers, ListPage(q)
    PROVE  Unraced'
<1>1. PICK c : c = call[q].of OBVIOUS
<1>2. PICK S : S = OlderThan(c, walk.cursor) OBVIOUS
<1>3. PICK page : page = Page(c, walk.cursor) OBVIOUS
<1>t. /\ walk \in Walks /\ walk.cursor \in Nat /\ walk.shown \subseteq Nat /\ tick \in Nat
      /\ PageSize \in Nat \ {0} /\ due \subseteq entries /\ entries \subseteq [at : Nat, of : Nat]
  BY NotesAssumption DEF Unraced, LedgerTypes, Walks
<1>4. /\ call[q].pc = "page" /\ twice' = (twice \/ page \cap walk.shown # {}) /\ call' = [call EXCEPT ![q] = NoCall]
      /\ walk' = [cursor |-> NextCursor(c, walk.cursor), shown |-> walk.shown \cup page,
                  over |-> ~More(c, walk.cursor)]
      /\ UNCHANGED <<contexts, entries, tick, due>>
  BY <1>1, <1>3 DEF ListPage
<1>5. walk'.cursor = NextCursor(c, walk.cursor) /\ walk'.shown = walk.shown \cup page
      /\ walk'.over = ~More(c, walk.cursor)
  BY <1>4
<1>6. ~walk.over /\ c \in contexts /\ call[q].want = "page" BY <1>1, <1>4 DEF Unraced, Calling
<1>7. \A e \in entries : e.at \in Nat /\ e.of = c BY <1>6, <1>t DEF Unraced, Filed, OneOfEach
<1>8. S \in SUBSET (1 .. tick)
  <2> SUFFICES ASSUME NEW e \in entries PROVE e.at \in 1 .. tick BY <1>2 DEF OlderThan
  <2>1. e.at \in Nat /\ 0 < e.at /\ e.at <= tick BY <1>7 DEF Unraced, Filed
  <2> QED BY <1>t, <2>1
<1>9. /\ page \subseteq S
      /\ ~More(c, walk.cursor) => page = S
      /\ More(c, walk.cursor) =>
            /\ walk'.cursor \in page /\ \A x \in page : walk'.cursor <= x
            /\ \A y \in S \ page : y < walk'.cursor
  <2>1. page = Top(Top(S, PageSize + 1), PageSize) BY <1>2, <1>3 DEF Page, Window
  <2>2. More(c, walk.cursor) <=> Cardinality(Top(S, PageSize + 1)) > PageSize BY <1>2 DEF More, Window
  <2>3. More(c, walk.cursor) => walk'.cursor = Lowest(page) BY <1>3, <1>5 DEF NextCursor
  <2>4. Top(S, PageSize + 1) \in SUBSET (1 .. tick) BY <1>8 DEF Top
  <2>5. Cardinality(Top(S, PageSize + 1)) \in Nat BY <1>t, <2>4, Few
  <2>6. PICK size : size = Cardinality(Top(S, PageSize + 1)) OBVIOUS
  <2>7. /\ page \subseteq S /\ (size <= PageSize => page = S)
        /\ size > PageSize => /\ Lowest(page) \in page /\ \A x \in page : Lowest(page) <= x
                              /\ \A y \in S \ page : y < Lowest(page)
    BY <1>8, <1>t, <2>1, <2>6, PageOf
  <2>8. size > PageSize \/ size <= PageSize BY <1>t, <2>5, <2>6
  <2> QED BY <2>2, <2>3, <2>6, <2>7, <2>8
<1>10. \A x \in S : walk.cursor = Start \/ x < walk.cursor BY <1>2 DEF OlderThan
<1>11. NoCall \in Calls /\ NoCall.pc = "idle" /\ NoCall.want = "none" BY DEF NoCall, Calls, NoContext
<1>12. /\ call' \in [Callers -> Calls] /\ call'[q] = NoCall
       /\ \A o \in Callers \ {q} : call'[o] = call[o] /\ call[o].want # "page"
  BY <1>4, <1>6, <1>11 DEF Unraced, LedgerTypes, OneOfEach
<1>13. walk'.cursor \in Nat /\ (More(c, walk.cursor) => walk'.cursor # Start)
       /\ (~More(c, walk.cursor) => walk'.cursor = Start)
  <2>1. More(c, walk.cursor) => walk'.cursor \in 1 .. tick BY <1>8, <1>9
  <2>2. ~More(c, walk.cursor) => walk'.cursor = Start BY <1>5 DEF NextCursor
  <2> QED BY <2>1, <2>2, <1>t DEF Start
<1>14. LedgerTypes'
  <2>a. page \subseteq 1 .. tick BY <1>8, <1>9
  <2>b. \A x \in 1 .. tick : x \in Nat BY <1>t
  <2>1. page \subseteq Nat /\ walk.shown \cup page \subseteq Nat BY <2>a, <2>b, <1>t
  <2>2. (~More(c, walk.cursor)) \in BOOLEAN BY DEF More
  <2>3. walk' \in Walks BY <1>4, <1>5, <1>13, <2>1, <2>2 DEF Walks
  <2> QED BY <1>4, <1>12, <2>3 DEF Unraced, LedgerTypes
<1>15. OneOfEach' /\ Filed' BY <1>4, <1>11, <1>12 DEF Unraced, OneOfEach, Filed
<1>16. \A o \in Callers : Calling(call[o])' BY <1>4, <1>11, <1>12 DEF Unraced, Calling
<1>17. page \cap walk.shown = {}
  <2>1. CASE walk.cursor = Start BY <1>6, <2>1 DEF Unraced, Walking
  <2>2. CASE walk.cursor # Start
    <3> SUFFICES ASSUME NEW x \in page, x \in walk.shown PROVE FALSE OBVIOUS
    <3>1. walk.cursor <= x /\ x < walk.cursor /\ x \in Nat BY <1>9, <1>10, <1>t, <2>2 DEF Unraced, Walking
    <3> QED BY <1>t, <3>1
  <2> QED BY <2>1, <2>2
<1>18. Walking'
  <2>1. ~twice' BY <1>4, <1>17 DEF Unraced, Walking
  <2>2. ASSUME NEW e \in due
        PROVE  e.at \in walk'.shown \/ (~walk'.over /\ (walk'.cursor = Start \/ e.at < walk'.cursor))
    <3>1. e.at \in walk.shown \/ e.at \in S
      <4>1. e \in entries /\ e.of = c BY <1>7, <1>t
      <4>2. e.at \in walk.shown \/ walk.cursor = Start \/ e.at < walk.cursor BY DEF Unraced, Walking
      <4> QED BY <1>2, <4>1, <4>2 DEF OlderThan
    <3> QED BY <1>5, <1>9, <3>1
  <2>3. walk'.cursor = Start => walk'.over BY <1>5, <1>13
  <2>4. ASSUME walk'.cursor # Start, NEW x \in walk'.shown PROVE walk'.cursor <= x
    <3>1. More(c, walk.cursor) BY <1>13, <2>4
    <3>2. CASE x \in page BY <1>9, <3>1, <3>2
    <3>3. CASE x \in walk.shown
      <4>1. walk.cursor # Start /\ walk.cursor <= x BY <1>6, <3>3 DEF Unraced, Walking
      <4>2. walk'.cursor < walk.cursor BY <1>9, <1>10, <3>1, <4>1
      <4>3. x \in Nat BY <1>t, <3>3
      <4> QED BY <1>13, <1>t, <4>1, <4>2, <4>3
    <3> QED BY <1>5, <2>4, <3>2, <3>3
  <2> QED BY <1>4, <2>1, <2>2, <2>3, <2>4 DEF Walking
<1> QED BY <1>14, <1>15, <1>16, <1>18 DEF Unraced

LEMMA LatestOfOne ==
    ASSUME Unraced, contexts # {}
    PROVE  Latest(contexts) \in contexts
<1>1. PICK c \in contexts : contexts = {c} BY DEF Unraced, OneOfEach
<1>2. c \in Nat BY DEF Unraced, LedgerTypes
<1>3. \E x \in contexts : \A y \in contexts : y <= x BY <1>1, <1>2
<1> QED BY <1>3 DEF Latest

LEMMA UnracedStep ==
    ASSUME Unraced, NEW q \in Callers, raced' \/ UNCHANGED raced, ~raced', raced \in BOOLEAN,
           \/ \E want \in {"open", "append", "page"} : Request(q, want)
           \/ Probe(q) \/ ResolveIssue(q) \/ ProbeAgain(q) \/ Attach(q)
           \/ AppendEntry(q) \/ LoadContext(q) \/ StepOver(q) \/ Gives(q)
    PROVE  Unraced'
<1>t. /\ call[q] \in Calls /\ tick \in Nat /\ contexts \subseteq Nat /\ (\A x, y \in contexts : x = y)
      /\ entries \subseteq [at : Nat, of : Nat] /\ Filed /\ Calling(call[q])
  BY DEF Unraced, LedgerTypes, OneOfEach
<1>n. NoCall \in Calls /\ NoCall.pc = "idle" /\ NoCall.want = "none" BY DEF NoCall, Calls, NoContext
\* A step of q that leaves context, clock and entries alone.
<1>q. ASSUME NEW k \in Calls, call' = [call EXCEPT ![q] = k],
             UNCHANGED <<contexts, entries, tick, walk, twice>>, Calling(k), k.pc # "attach",
             due' = due \/ (due' = entries /\ walk = NewWalk),
             k.want = "page" => \/ call[q].want = "page"
                                \/ \A o \in Callers : call[o].want # "page"
      PROVE  Unraced'
  <2>1. Calling(k)' BY <1>q DEF Calling
  <2>2. Filed' BY <1>q, <1>t DEF Filed
  <2>3. tick' \in Nat /\ tick <= tick' BY <1>q, <1>t
  <2>4. /\ contexts' \subseteq Nat /\ contexts \subseteq contexts' /\ \A x, y \in contexts' : x = y
        /\ entries \subseteq entries' /\ entries' \subseteq [at : Nat, of : Nat]
    BY <1>q, <1>t
  <2> QED BY <1>q, <2>1, <2>2, <2>3, <2>4, CallerMoves
<1>1. ASSUME NEW want \in {"open", "append", "page"}, Request(q, want) PROVE Unraced'
  <2>1. PICK k \in Calls : k = [NoCall EXCEPT !.want = want, !.pc = "probe"] BY DEF NoCall, Calls, NoContext
  <2>2. k.pc = "probe" /\ k.want = want BY <2>1 DEF NoCall
  <2>3. /\ call' = [call EXCEPT ![q] = k] /\ UNCHANGED <<contexts, entries, tick, walk, twice>>
        /\ want = "page" => ~walk.over /\ \A o \in Callers : call[o].want # "page"
        /\ due' = due \/ (due' = entries /\ walk = NewWalk)
    BY <1>1, <2>1 DEF Request
  <2>4. Calling(k) BY <2>2, <2>3 DEF Calling
  <2>5. k.pc # "attach" /\ (k.want = "page" => \A o \in Callers : call[o].want # "page") BY <2>2, <2>3
  <2> QED BY <1>q, <2>3, <2>4, <2>5
<1>h. ASSUME NEW c \in contexts, Has(q, c), UNCHANGED <<contexts, walk, twice, due, entries>>, call[q].pc # "idle"
      PROVE  Unraced'
  BY <1>h, <1>t, HasKeeps
<1>g. ASSUME NEW to \in {"lookup", "again"}, Goes(q, to), call[q].pc # "idle",
             UNCHANGED <<contexts, entries, walk, due, twice>>
      PROVE  Unraced'
  <2>1. PICK k \in Calls : k = [call[q] EXCEPT !.pc = to] BY <1>t DEF Calls
  <2>2. k.pc = to /\ k.want = call[q].want BY <1>t, <2>1 DEF Calls
  <2>3. call' = [call EXCEPT ![q] = k] /\ UNCHANGED tick BY <1>g, <2>1 DEF Goes
  <2>4. Calling(k) BY <1>g, <1>t, <2>2 DEF Calling
  <2> QED BY <1>q, <1>g, <2>2, <2>3, <2>4
<1>2. CASE Probe(q)
  <2>1. CASE contexts # {} BY <1>2, <1>h, <2>1, LatestOfOne DEF Probe
  <2>2. CASE contexts = {} BY <1>2, <1>g, <2>2 DEF Probe
  <2> QED BY <2>1, <2>2
<1>3. CASE ResolveIssue(q) BY <1>3, <1>g DEF ResolveIssue
<1>4. CASE ProbeAgain(q)
  <2>1. CASE contexts # {} BY <1>4, <1>h, <2>1, LatestOfOne DEF ProbeAgain
  <2>2. CASE contexts = {}
    <3>1. /\ tick' = tick + 1 /\ call' = [call EXCEPT ![q].pc = "attach", ![q].at = tick'] /\ call[q].pc = "again"
          /\ raced' = (raced \/ \E o \in Callers : call[o].pc = "attach")
          /\ UNCHANGED <<contexts, entries, walk, due, twice>>
      BY <1>4, <2>2 DEF ProbeAgain
    <3>0. tick' \in Nat BY <1>t, <3>1
    <3>2. PICK k \in Calls : k = [call[q] EXCEPT !.pc = "attach", !.at = tick'] BY <1>t, <3>0 DEF Calls
    <3>3. k.pc = "attach" /\ k.want = call[q].want BY <1>t, <3>2 DEF Calls
    <3>4. call' = [call EXCEPT ![q] = k] BY <3>1, <3>2 DEF Unraced, LedgerTypes
    <3>5. \A o \in Callers : call[o].pc # "attach" BY <3>1
    <3>6. Calling(k)' BY <1>t, <2>2, <3>1, <3>3 DEF Calling
    <3>7. tick' \in Nat /\ tick <= tick' BY <1>t, <3>1
    <3>8. Filed'
      <4> SUFFICES ASSUME NEW e \in entries PROVE e.of \in contexts /\ 0 < e.at /\ e.at <= tick' BY <3>1 DEF Filed
      <4>1. e.of \in contexts /\ 0 < e.at /\ e.at <= tick /\ e.at \in Nat BY <1>t DEF Filed
      <4>2. e.at <= tick' BY <1>t, <3>1, <4>1
      <4> QED BY <4>1, <4>2
    <3> QED BY <1>t, <3>1, <3>3, <3>4, <3>5, <3>6, <3>7, <3>8, CallerMoves
  <2> QED BY <2>1, <2>2
<1>5. CASE Attach(q)
  <2>1. /\ call[q].pc = "attach" /\ contexts' = contexts \cup {call[q].at} /\ Has(q, call[q].at)
        /\ UNCHANGED <<entries, walk, due, twice>>
    BY <1>5 DEF Attach
  <2>2. contexts = {} BY <1>t, <2>1 DEF Calling
  <2>3. call[q].at \in Nat BY <1>t DEF Calls
  <2>4. \A o \in Callers : call[o].pc = "attach" => o = q BY <2>1 DEF Unraced, OneOfEach
  <2>5. contexts' = {call[q].at} BY <2>1, <2>2
  <2> QED BY <2>1, <2>2, <2>3, <2>4, <2>5, HasKeeps
<1>6. CASE AppendEntry(q)
  <2>1. PICK e \in [at : Nat, of : Nat] : e = [at |-> call[q].at, of |-> call[q].of] BY <1>t DEF Calls
  <2>2. e.at = call[q].at /\ e.of = call[q].of BY <2>1
  <2>3. /\ call[q].pc = "insert" /\ entries' = entries \cup {e} /\ call' = [call EXCEPT ![q] = NoCall]
        /\ UNCHANGED <<contexts, tick, walk, due, twice>>
    BY <1>6, <2>1 DEF AppendEntry
  <2>4. Filed' BY <1>t, <2>2, <2>3 DEF Filed, Calling
  <2>5. Calling(NoCall)' BY <1>n DEF Calling
  <2>6. entries' \subseteq [at : Nat, of : Nat] /\ entries \subseteq entries' BY <1>t, <2>3
  <2>7. /\ tick' \in Nat /\ tick <= tick' /\ contexts' \subseteq Nat /\ contexts \subseteq contexts'
        /\ \A x, y \in contexts' : x = y
    BY <1>t, <2>3
  <2>8. contexts' = contexts /\ NoCall.pc # "attach" /\ NoCall.want # "page" BY <1>n, <2>3
  <2> QED BY <1>n, <2>3, <2>4, <2>5, <2>6, <2>7, <2>8, CallerMoves
<1>7. CASE LoadContext(q)
  <2>0. contexts # {} /\ Latest(contexts) \in contexts /\ Latest(contexts) \in Nat
    BY <1>7, <1>t, LatestOfOne DEF LoadContext
  <2>1. PICK k \in Calls : k = [NoCall EXCEPT !.want = "append", !.pc = "work", !.of = Latest(contexts)]
    BY <2>0 DEF NoCall, Calls, NoContext
  <2>2. k.pc = "work" /\ k.want = "append" /\ k.of = Latest(contexts) BY <2>1 DEF NoCall
  <2>3. call' = [call EXCEPT ![q] = k] /\ UNCHANGED <<contexts, entries, tick, walk, due, twice>>
    BY <1>7, <2>1 DEF LoadContext
  <2>4. Calling(k) BY <2>0, <2>2 DEF Calling
  <2>5. k.pc # "attach" /\ k.want # "page" BY <2>2
  <2> QED BY <1>q, <2>3, <2>4, <2>5
<1>8. CASE StepOver(q)
  <2>1. call[q].pc = "work" /\ Has(q, call[q].of) /\ UNCHANGED <<contexts, entries, walk, due, twice>>
    BY <1>8 DEF StepOver
  <2>2. call[q].of \in contexts BY <1>t, <2>1 DEF Calling
  <2> QED BY <1>h, <2>1, <2>2
<1>9. CASE Gives(q)
  <2>1. call' = [call EXCEPT ![q] = NoCall] /\ UNCHANGED <<contexts, entries, tick, walk, due, twice>>
    BY <1>9 DEF Gives
  <2>2. Calling(NoCall) BY <1>n DEF Calling
  <2> QED BY <1>n, <1>q, <2>1, <2>2
<1> QED BY <1>1, <1>2, <1>3, <1>4, <1>5, <1>6, <1>7, <1>8, <1>9

LEMMA LedgerStep ==
    ASSUME Ledger, NotesNext \/ UNCHANGED noteVars
    PROVE  Ledger'
<1>r. raced \in BOOLEAN /\ (~raced => Unraced) BY DEF Ledger
<1>1. CASE UNCHANGED noteVars
  <2>1. UNCHANGED <<contexts, entries, tick, call, walk, due, twice, raced>> BY <1>1 DEF noteVars
  <2>2. ASSUME Unraced PROVE Unraced'
    BY <2>1, <2>2 DEF Unraced, LedgerTypes, OneOfEach, Filed, Walking, Calling
  <2> QED BY <1>r, <2>1, <2>2 DEF Ledger
<1>2. ASSUME NEW q \in Callers,
             \/ \E want \in {"open", "append", "page"} : Request(q, want)
             \/ Probe(q) \/ ResolveIssue(q) \/ ProbeAgain(q) \/ Attach(q)
             \/ AppendEntry(q) \/ LoadContext(q) \/ StepOver(q) \/ Gives(q)
      PROVE  Ledger'
  <2>1. raced' = raced \/ raced' = (raced \/ \E o \in Callers : call[o].pc = "attach")
    BY <1>2 DEF Request, Probe, ResolveIssue, ProbeAgain, Attach, AppendEntry, LoadContext, StepOver, Gives
  <2>2. raced' \in BOOLEAN /\ (~raced' => ~raced) BY <1>r, <2>1
  <2>3. ASSUME ~raced' PROVE Unraced'
    <3>1. ~raced /\ Unraced /\ raced' = raced BY <1>r, <2>2, <2>3
    <3> QED BY <1>2, <1>r, <2>3, <3>1, UnracedStep
  <2> QED BY <2>2, <2>3 DEF Ledger
<1>3. ASSUME NEW q \in Callers, ListPage(q) PROVE Ledger'
  <2>1. UNCHANGED raced BY <1>3 DEF ListPage
  <2> QED BY <1>3, <1>r, <2>1, ListPageKeeps DEF Ledger
<1>4. CASE WalkAgain
  <2>1. /\ \A o \in Callers : call[o].want # "page"
        /\ walk' = NewWalk /\ due' = {} /\ UNCHANGED <<contexts, entries, tick, call, twice, raced>>
    BY <1>4 DEF WalkAgain
  <2>2. NewWalk \in Walks /\ NewWalk.cursor = Start /\ NewWalk.shown = {} BY DEF NewWalk, Walks, Start
  <2>3. ASSUME Unraced PROVE Unraced'
    <3>1. LedgerTypes' BY <2>1, <2>2, <2>3 DEF Unraced, LedgerTypes
    <3>2. OneOfEach' /\ Filed' BY <2>1, <2>3 DEF Unraced, OneOfEach, Filed
    <3>3. Walking' BY <2>1, <2>2, <2>3 DEF Unraced, Walking
    <3>4. \A o \in Callers : Calling(call[o])' BY <2>1, <2>3 DEF Unraced, Calling
    <3> QED BY <3>1, <3>2, <3>3, <3>4 DEF Unraced
  <2> QED BY <1>r, <2>1, <2>3 DEF Ledger
<1> QED BY <1>1, <1>2, <1>3, <1>4 DEF NotesNext

\* NotesKept: unless two requests get past the guard together an issue has one
\* context, and a walk through its ledger shows every entry that was on record
\* when it began and none twice, whoever appends meanwhile; and what is left
\* for a task reaches the step it was meant for.
THEOREM NotesKeptHolds == Spec => []NotesKept
<1>1. Ledger /\ [Next]_vars => Ledger' BY LedgerStep, Parts
<1>2. Init => Ledger BY LedgerInit DEF Init, RecordsInit
<1>3. Ledger => LedgerKept
  <2> SUFFICES ASSUME Ledger, ~raced
               PROVE  /\ Cardinality(contexts) <= 1 /\ ~twice
                      /\ walk.over => {e.at : e \in due} \subseteq walk.shown
    BY DEF LedgerKept
  <2>1. Unraced BY DEF Ledger
  <2>2. Cardinality(contexts) <= 1
    <3>1. CASE contexts = {} BY <3>1, FS_EmptySet
    <3>2. CASE contexts # {}
      <4>1. PICK c \in contexts : contexts = {c} BY <2>1, <3>2 DEF Unraced, OneOfEach
      <4>2. Cardinality(contexts) = 1 BY <4>1, FS_Singleton
      <4> QED BY <4>2
    <3> QED BY <3>1, <3>2
  <2> QED BY <2>1, <2>2 DEF Unraced, Walking
<1>4. LedgerKept /\ WishesKept => NotesKept BY DEF NotesKept
<1> QED BY <1>1, <1>2, <1>3, <1>4, WishesKeptHolds, PTL DEF Spec

-----------------------------------------------------------------------------
(* A review.  What the handlers do to the tables, and what that leaves true*)
(* for a submission that is at work.                                       *)

States == {"none", "open", "resolved", "gone"}
Notations == [of : Threads \cup {None}, text : Nat, live : BOOLEAN]
Writings  == [op : {"idle", "add", "edit", "drop", "delete", "resolve", "reopen"},
              of : Threads \cup {None}, on : Comments \cup {None}, count : Nat]

Said == {c \in Comments : comment[c].text # 0}

Grounded == IsFiniteSet(Said) /\ \A c \in Comments : comment[c].live => c \in Said /\ comment[c].of \in Threads

Tables ==
    /\ thread \in [Threads -> States] /\ comment \in [Comments -> Notations]
    /\ Grounded /\ NoEmptyThread

Writing ==
    /\ writer \in [Writers -> Writings]
    /\ \A w \in Writers : /\ writer[w].op # "idle" => writer[w].of \in Threads /\ thread[writer[w].of] # "none"
                          /\ writer[w].op \in {"edit", "drop"} => writer[w].on \in Comments

\* A comment on record is unread, or as it was.
Untouched == \A t \in Threads : \A c \in Of(t)' :
    c \in unread' \/ (c \in Of(t) /\ c \notin unread /\ comment'[c].text = comment[c].text)

\* No thread comes to be posted, resolved by a review or forgotten.
Quiet == \A t \in Threads :
    /\ thread[t] # "none" => thread'[t] # "none"
    /\ thread'[t] = "resolved" /\ closer'[t] = "review" => thread[t] = "resolved" /\ closer[t] = "review"
    /\ sent'[t] = sent[t] \/ (sent'[t] = 0 /\ thread'[t] # "none")
    /\ thread'[t] = "open" => thread[t] = "open" \/ thread[t] = "none" \/ sent'[t] = 0

LEMMA OfIsFinite ==
    ASSUME Tables, NEW t
    PROVE  IsFiniteSet(Of(t)) /\ Cardinality(Of(t)) \in Nat
<1>1. Of(t) \in SUBSET Said BY DEF Of, Tables, Grounded
<1>2. IsFiniteSet(Of(t)) BY <1>1, FS_Subset DEF Tables, Grounded
<1> QED BY <1>2, FS_CardinalityType

\* Comment c becomes k; the others stay.
LEMMA CommentMoves ==
    ASSUME Tables, NEW c \in Comments, NEW k \in Notations, comment' = [comment EXCEPT ![c] = k],
           k.text # 0, k.live => k.of \in Threads
    PROVE  /\ comment' \in [Comments -> Notations] /\ comment'[c] = k
           /\ \A d \in Comments \ {c} : comment'[d] = comment[d]
           /\ Grounded'
<1>1. comment' \in [Comments -> Notations] /\ comment'[c] = k /\ \A d \in Comments \ {c} : comment'[d] = comment[d]
  BY DEF Tables
<1>2. Said' = Said \cup {c} BY <1>1 DEF Said
<1>3. IsFiniteSet(Said \cup {c}) BY FS_AddElement DEF Tables, Grounded
<1>4. \A d \in Comments : comment'[d].live => d \in Said' /\ comment'[d].of \in Threads BY <1>1, <1>2 DEF Tables, Grounded
<1>5. IsFiniteSet(Said') BY <1>2, <1>3
<1>6. Grounded' BY <1>4, <1>5 DEF Grounded
<1> QED BY <1>1, <1>6

\* The first comment of a thread, or one more.
LEMMA SayKeeps ==
    ASSUME Tables, NEW c \in Comments, NEW t \in Threads, Say(c, t), thread' \in [Threads -> States], Present(t)',
           \A u \in Threads \ {t} : thread'[u] = thread[u]
    PROVE  Tables' /\ Untouched
<1>1. PICK k \in Notations : k = [of |-> t, text |-> 1, live |-> TRUE] BY DEF Notations
<1>2. k.of = t /\ k.text = 1 /\ k.live = TRUE /\ k.text # 0 BY <1>1
<1>3. comment[c].text = 0 /\ unread' = unread \cup {c} /\ comment' = [comment EXCEPT ![c] = k]
  BY <1>1 DEF Say, NextComment
<1>4. /\ comment' \in [Comments -> Notations] /\ comment'[c] = k
      /\ \A d \in Comments \ {c} : comment'[d] = comment[d]
      /\ Grounded'
  BY <1>2, <1>3, CommentMoves
<1>5. ~comment[c].live BY <1>3 DEF Tables, Grounded, Said
<1>6. Of(t)' = Of(t) \cup {c} /\ \A u \in Threads \ {t} : Of(u)' = Of(u) BY <1>2, <1>4, <1>5 DEF Of
<1>7. NoEmptyThread'
  <2>1. ASSUME NEW u \in Threads, Present(u)' PROVE Of(u)' # {}
    <3>1. CASE u = t BY <1>6, <3>1
    <3>2. CASE u # t
      <4>1. Present(u) BY <2>1, <3>2 DEF Present
      <4> QED BY <1>6, <3>2, <4>1 DEF Tables, NoEmptyThread
    <3> QED BY <3>1, <3>2
  <2>2. ASSUME NEW d \in Comments, comment'[d].live PROVE Present(comment[d].of)'
    <3>1. CASE d = c BY <1>2, <1>4, <3>1 DEF Present
    <3>2. CASE d # c
      <4>1. comment'[d] = comment[d] /\ Present(comment[d].of) /\ comment[d].of \in Threads
        BY <1>4, <2>2, <3>2 DEF Tables, Grounded, NoEmptyThread
      <4>2. CASE comment[d].of = t BY <4>1, <4>2 DEF Present
      <4>3. CASE comment[d].of # t BY <4>1, <4>3 DEF Present
      <4> QED BY <4>2, <4>3
    <3> QED BY <3>1, <3>2
  <2> QED BY <2>1, <2>2 DEF NoEmptyThread
<1>8. Untouched BY <1>3, <1>4, <1>6 DEF Untouched, Of
<1> QED BY <1>4, <1>7, <1>8 DEF Tables

LEMMA RemoveKeeps ==
    ASSUME Tables, NEW t \in Threads, Remove(t), UNCHANGED unread
    PROVE  /\ Tables' /\ Untouched /\ thread'[t] = "gone"
           /\ \A u \in Threads \ {t} : thread'[u] = thread[u]
<1>1. /\ thread' \in [Threads -> States] /\ thread'[t] = "gone" /\ \A u \in Threads \ {t} : thread'[u] = thread[u]
  BY DEF Remove, Tables, States
<1>2. comment' = [c \in Comments |-> IF comment[c].of = t THEN [comment[c] EXCEPT !.live = FALSE] ELSE comment[c]]
  BY DEF Remove
<1>3. ASSUME NEW c \in Comments
      PROVE  /\ comment'[c] \in Notations /\ comment'[c].of = comment[c].of /\ comment'[c].text = comment[c].text
             /\ comment'[c].live <=> (comment[c].live /\ comment[c].of # t)
  <2>1. comment[c] \in Notations BY DEF Tables
  <2>2. CASE comment[c].of = t
    <3>1. comment'[c] = [comment[c] EXCEPT !.live = FALSE] BY <1>2, <2>2
    <3> QED BY <2>1, <2>2, <3>1 DEF Notations
  <2>3. CASE comment[c].of # t BY <1>2, <2>1, <2>3
  <2> QED BY <2>2, <2>3
<1>4. comment' \in [Comments -> Notations] /\ Said' = Said BY <1>2, <1>3 DEF Said
<1>5. Of(t)' = {} /\ \A u \in Threads \ {t} : Of(u)' = Of(u) BY <1>3 DEF Of
<1>6. Grounded' BY <1>3, <1>4 DEF Tables, Grounded
<1>7. NoEmptyThread'
  <2>1. ASSUME NEW u \in Threads, Present(u)' PROVE Of(u)' # {}
    <3>1. u # t /\ Present(u) BY <1>1, <2>1 DEF Present
    <3> QED BY <1>5, <3>1 DEF Tables, NoEmptyThread
  <2>2. ASSUME NEW c \in Comments, comment'[c].live PROVE Present(comment[c].of)'
    <3>1. /\ comment[c].live /\ comment[c].of \in Threads \ {t} /\ comment'[c].of = comment[c].of
          /\ Present(comment[c].of)
      BY <1>3, <2>2 DEF Tables, Grounded, NoEmptyThread
    <3> QED BY <1>1, <3>1 DEF Present
  <2> QED BY <2>1, <2>2 DEF NoEmptyThread
<1>8. Untouched BY <1>3 DEF Untouched, Of
<1> QED BY <1>1, <1>4, <1>6, <1>7, <1>8 DEF Tables

\* Nothing of the comments changes, and no thread appears or disappears.
LEMMA ThreadsKeep ==
    ASSUME Tables, UNCHANGED <<comment, unread>>, thread' \in [Threads -> States],
           \A u \in Threads : Present(u)' <=> Present(u)
    PROVE  Tables' /\ Untouched
<1>1. \A u : Of(u)' = Of(u) BY DEF Of
<1>2. Said' = Said BY DEF Said
<1>4. Grounded' BY <1>2 DEF Tables, Grounded
<1>3. NoEmptyThread' BY <1>1 DEF Tables, Grounded, NoEmptyThread
<1> QED BY <1>1, <1>3, <1>4 DEF Tables, Untouched, Of

\* The handlers: after each the tables agree and a submission can go on.
LEMMA CommentStep ==
    ASSUME Tables, Writing, NEW w \in Writers,
           (\E c \in Comments : AddComment(w, c)) \/ EditComment(w) \/ DropComment(w)
    PROVE  Tables' /\ Untouched /\ Quiet
<1>t. writer[w].op # "idle" BY DEF AddComment, EditComment, DropComment, Does
<1>q. ASSUME UNCHANGED <<thread, closer, sent>> PROVE Quiet BY <1>q DEF Quiet
<1>u. ASSUME UNCHANGED <<thread, comment, unread, closer, sent>> PROVE Tables' /\ Untouched /\ Quiet
  <2>1. \A t \in Threads : Present(t)' <=> Present(t) BY <1>u DEF Present
  <2>2. thread' \in [Threads -> States] BY <1>u DEF Tables
  <2> QED BY <1>u, <1>q, <2>1, <2>2, ThreadsKeep
<1>1. ASSUME NEW c \in Comments, AddComment(w, c) PROVE Tables' /\ Untouched /\ Quiet
  <2>1. PICK t \in Threads : t = writer[w].of BY <1>t DEF Writing
  <2>2. UNCHANGED <<thread, closer, sent>> /\ thread' \in [Threads -> States] BY <1>1 DEF AddComment, Tables
  <2>3. CASE Present(t)
    <3>1. Say(c, t) BY <1>1, <2>1, <2>3 DEF AddComment
    <3>2. Present(t)' BY <2>2, <2>3 DEF Present
    <3> QED BY <1>q, <2>2, <3>1, <3>2, SayKeeps
  <2>4. CASE ~Present(t) BY <1>1, <1>u, <2>1, <2>2, <2>4 DEF AddComment
  <2> QED BY <2>3, <2>4
<1>2. CASE EditComment(w)
  <2>1. PICK c \in Comments : c = writer[w].on BY <1>2 DEF EditComment, Does, Writing
  <2>2. UNCHANGED <<thread, closer, sent>> BY <1>2 DEF EditComment
  <2>3. CASE comment[c].live
    <3>1. comment[c] \in Notations /\ comment[c].text \in Nat /\ comment[c].text # 0 /\ comment[c].of \in Threads
      BY <2>3 DEF Tables, Grounded, Notations, Said
    <3>0. comment[c].text + 1 \in Nat BY <3>1
    <3>2. PICK k \in Notations : k = [comment[c] EXCEPT !.text = comment[c].text + 1] BY <3>0, <3>1 DEF Notations
    <3>3. k.text = comment[c].text + 1 /\ k.of = comment[c].of /\ k.live = comment[c].live
      BY <3>1, <3>2 DEF Notations
    <3>4. comment' = [comment EXCEPT ![c] = k] /\ unread' = unread \cup {c}
      BY <1>2, <2>1, <2>3, <3>2 DEF EditComment
    <3>5. k.text # 0 BY <3>1, <3>3
    <3>6. /\ comment' \in [Comments -> Notations] /\ comment'[c] = k
          /\ \A d \in Comments \ {c} : comment'[d] = comment[d]
          /\ Grounded'
      BY <3>1, <3>3, <3>4, <3>5, CommentMoves
    <3>7. \A d \in Comments : comment'[d].of = comment[d].of /\ comment'[d].live = comment[d].live BY <3>3, <3>6
    <3>8. \A u : Of(u)' = Of(u) BY <3>7 DEF Of
    <3>9. NoEmptyThread' BY <2>2, <3>7, <3>8 DEF Tables, NoEmptyThread, Present
    <3>10. Untouched BY <3>4, <3>6, <3>8 DEF Untouched, Of
    <3> QED BY <1>q, <2>2, <3>6, <3>9, <3>10 DEF Tables
  <2>4. CASE ~comment[c].live BY <1>2, <1>u, <2>1, <2>2, <2>4 DEF EditComment
  <2> QED BY <2>3, <2>4
<1>3. CASE DropComment(w)
  <2>1. PICK c \in Comments : c = writer[w].on BY <1>3 DEF DropComment, Does, Writing
  <2>2. UNCHANGED <<closer, unread, sent>> BY <1>3 DEF DropComment
  <2>3. CASE ~comment[c].live BY <1>3, <1>u, <2>1, <2>2, <2>3 DEF DropComment
  <2>4. CASE comment[c].live
    <3>1. PICK t \in Threads : t = comment[c].of BY <2>4 DEF Tables, Grounded
    <3>2. c \in Of(t) BY <2>4, <3>1 DEF Of
    <3>3. CASE Cardinality(Of(t)) <= 1
      <4>1. Remove(t) BY <1>3, <2>1, <2>4, <3>1, <3>3 DEF DropComment
      <4>2. Tables' /\ Untouched /\ thread'[t] = "gone" /\ \A u \in Threads \ {t} : thread'[u] = thread[u]
        BY <2>2, <4>1, RemoveKeeps
      <4> QED BY <2>2, <4>2 DEF Quiet
    <3>4. CASE ~(Cardinality(Of(t)) <= 1)
      <4>1. comment' = [comment EXCEPT ![c].live = FALSE] /\ UNCHANGED thread
        BY <1>3, <2>1, <2>4, <3>1, <3>4 DEF DropComment
      <4>2. comment[c] \in Notations /\ comment[c].text # 0 BY <2>4 DEF Tables, Grounded, Said
      <4>3. PICK k \in Notations : k = [comment[c] EXCEPT !.live = FALSE] BY <4>2 DEF Notations
      <4>4. k.text = comment[c].text /\ k.of = comment[c].of /\ k.live = FALSE BY <4>2, <4>3 DEF Notations
      <4>5. comment' = [comment EXCEPT ![c] = k] BY <4>1, <4>3
      <4>6. /\ comment' \in [Comments -> Notations] /\ comment'[c] = k
            /\ \A d \in Comments \ {c} : comment'[d] = comment[d]
            /\ Grounded'
        BY <4>2, <4>4, <4>5, CommentMoves
      <4>7. Of(t)' = Of(t) \ {c} /\ \A u : u # t => Of(u)' = Of(u) BY <3>1, <4>4, <4>6 DEF Of
      <4>8. Of(t) # {c} BY <3>4, FS_Singleton
      <4>9. Of(t)' # {} BY <3>2, <4>7, <4>8
      <4>10. NoEmptyThread' BY <4>1, <4>4, <4>6, <4>7, <4>9 DEF Tables, NoEmptyThread, Present
      <4>11. Untouched BY <2>2, <4>4, <4>6 DEF Untouched, Of
      <4> QED BY <1>q, <2>2, <4>1, <4>6, <4>10, <4>11 DEF Tables
    <3> QED BY <3>3, <3>4
  <2> QED BY <2>3, <2>4
<1> QED BY <1>1, <1>2, <1>3

LEMMA ThreadStep ==
    ASSUME Tables, Writing, NEW w \in Writers,
           DropThread(w) \/ ResolveByHand(w) \/ Reopen(w), closer \in [Threads -> {"hand", "review"}],
           sent \in [Threads -> Nat]
    PROVE  Tables' /\ Untouched /\ Quiet
<1>t. writer[w].op # "idle" BY DEF DropThread, ResolveByHand, Reopen, Does
<1>1. PICK t \in Threads : t = writer[w].of /\ thread[t] # "none" BY <1>t DEF Writing
<1>2. thread \in [Threads -> States] BY DEF Tables
<1>3. CASE DropThread(w)
  <2>1. UNCHANGED <<closer, unread, sent>> BY <1>3 DEF DropThread
  <2>2. CASE Present(t)
    <3>1. Remove(t) BY <1>1, <1>3, <2>2 DEF DropThread
    <3>2. Tables' /\ Untouched /\ thread'[t] = "gone" /\ \A u \in Threads \ {t} : thread'[u] = thread[u]
      BY <2>1, <3>1, RemoveKeeps
    <3> QED BY <2>1, <3>2 DEF Quiet
  <2>3. CASE ~Present(t)
    <3>1. UNCHANGED <<thread, comment>> BY <1>1, <1>3, <2>3 DEF DropThread
    <3>2. \A u \in Threads : Present(u)' <=> Present(u) BY <3>1 DEF Present
    <3> QED BY <1>2, <2>1, <3>1, <3>2, ThreadsKeep DEF Quiet
  <2> QED BY <2>2, <2>3
<1>4. ASSUME NEW state \in {"open", "resolved"}, SetResolved(t, state, "hand"), UNCHANGED <<comment, unread>>,
             \/ state = "resolved" /\ UNCHANGED sent
             \/ state = "open" /\ sent' = [sent EXCEPT ![t] = 0]
      PROVE  Tables' /\ Untouched /\ Quiet
  <2>1. CASE Present(t)
    <3>1. thread' = [thread EXCEPT ![t] = state] /\ closer' = [closer EXCEPT ![t] = "hand"]
      BY <1>4, <2>1 DEF SetResolved
    <3>2. /\ thread'[t] = state /\ closer'[t] = "hand" /\ thread' \in [Threads -> States]
          /\ \A u \in Threads \ {t} : thread'[u] = thread[u] /\ closer'[u] = closer[u]
      BY <1>2, <3>1 DEF States
    <3>3. \A u \in Threads : Present(u)' <=> Present(u) BY <2>1, <3>2 DEF Present
    <3>4. \A u \in Threads \ {t} : sent'[u] = sent[u] BY <1>4
    <3>5. (state = "resolved" /\ sent'[t] = sent[t]) \/ (state = "open" /\ sent'[t] = 0) BY <1>4
    <3>6. Quiet BY <3>2, <3>4, <3>5 DEF Quiet
    <3> QED BY <1>4, <3>2, <3>3, <3>6, ThreadsKeep
  <2>2. CASE ~Present(t)
    <3>1. UNCHANGED <<thread, closer>> BY <1>4, <2>2 DEF SetResolved
    <3>2. \A u \in Threads : Present(u)' <=> Present(u) BY <3>1 DEF Present
    <3>3. thread[t] # "open" BY <2>2 DEF Present
    <3>4. \A u \in Threads : sent'[u] = sent[u] \/ (sent'[u] = 0 /\ u = t) BY <1>4
    <3>5. Quiet BY <1>1, <3>1, <3>4 DEF Quiet
    <3> QED BY <1>2, <1>4, <3>1, <3>2, <3>5, ThreadsKeep
  <2> QED BY <2>1, <2>2
<1>5. CASE ResolveByHand(w) BY <1>1, <1>4, <1>5 DEF ResolveByHand
<1>6. CASE Reopen(w) BY <1>1, <1>4, <1>6 DEF Reopen
<1> QED BY <1>3, <1>5, <1>6

-----------------------------------------------------------------------------
(* A submission: what it holds, and what it may rely on.                   *)

Batches == [pc : {"idle", "load", "post", "resolve"}, open : SUBSET Threads, left : SUBSET Threads,
            got : SUBSET (Comments \X Nat)]

SubmitTypes == /\ submit \in [Submits -> Batches] /\ sent \in [Threads -> Nat]
               /\ closer \in [Threads -> {"hand", "review"}] /\ slips \in Nat

\* The comments of t are in these texts, or have been written since.
Covers(t, texts) == \A c \in Of(t) : c \in unread \/ <<c, comment[c].text>> \in texts

ByReview(t) == thread[t] = "resolved" /\ closer[t] = "review"

\* What submission r has read is in its hands, what it resolves is posted.
Carrying(r) ==
    /\ r.pc \in {"load", "post"} =>
          /\ r.left \subseteq r.open /\ (r.pc = "post" => r.left = {})
          /\ \A t \in r.open : thread[t] # "none" /\ ~ByReview(t)
          /\ \A t \in r.open \ r.left : Covers(t, r.got)
    /\ r.pc = "resolve" => \A t \in r.left : thread[t] # "none" /\ Covers(t, posted)

OneAtWork == \A s, u \in Submits : submit[s].pc # "idle" /\ submit[u].pc # "idle" => s = u

InTurn ==
    /\ OneAtWork /\ \A s \in Submits : Carrying(submit[s])
    /\ \A t \in Threads : ByReview(t) => Covers(t, posted)

\* An open thread that was posted is about to be resolved.
Once ==
    \A t \in Threads :
        /\ sent[t] <= 1 /\ (thread[t] = "none" => sent[t] = 0)
        /\ thread[t] = "open" /\ sent[t] = 1 => \E s \in Submits : submit[s].pc = "resolve" /\ t \in submit[s].left
        /\ \A s \in Submits : submit[s].pc \in {"load", "post"} /\ t \in submit[s].open => sent[t] = 0

Reviewed ==
    /\ Tables /\ Writing /\ SubmitTypes /\ overlapped \in BOOLEAN
    /\ ~overlapped => InTurn /\ (slips = 0 => Once)

\* Handlers leave a submission what it relies on.
LEMMA HandlersKeep ==
    ASSUME Reviewed, Tables', Writing', Untouched, Quiet, UNCHANGED <<submit, posted, overlapped, slips>>,
           sent' \in [Threads -> Nat], closer' \in [Threads -> {"hand", "review"}]
    PROVE  Reviewed'
<1>1. SubmitTypes' BY DEF Reviewed, SubmitTypes
<1>2. ASSUME NEW t \in Threads, NEW texts, Covers(t, texts)
      PROVE  \A c \in Of(t)' : c \in unread' \/ <<c, comment'[c].text>> \in texts
  BY <1>2 DEF Untouched, Covers
<1>3. \A t \in Threads : ByReview(t)' => ByReview(t) BY DEF ByReview, Quiet
<1>4. ASSUME InTurn PROVE InTurn'
  <2>1. OneAtWork' BY <1>4 DEF InTurn, OneAtWork
  <2>2. ASSUME NEW t \in Threads, ByReview(t)' PROVE Covers(t, posted)'
    <3>1. Covers(t, posted) BY <1>3, <1>4, <2>2 DEF InTurn
    <3> QED BY <1>2, <3>1 DEF Covers
  <2>3. ASSUME NEW u \in Submits PROVE Carrying(submit[u])'
    <3>1. Carrying(submit[u]) /\ submit'[u] = submit[u] BY <1>4 DEF InTurn
    <3>2. submit[u] \in Batches /\ submit[u].open \subseteq Threads /\ submit[u].left \subseteq Threads
      BY DEF Reviewed, SubmitTypes, Batches
    <3>3. ASSUME submit[u].pc \in {"load", "post"} PROVE \A t \in submit[u].open : thread'[t] # "none" /\ ~ByReview(t)'
      BY <1>3, <3>1, <3>2, <3>3 DEF Carrying, Quiet
    <3>4. ASSUME submit[u].pc \in {"load", "post"}, NEW t \in submit[u].open \ submit[u].left
          PROVE  Covers(t, submit[u].got)'
      <4>1. t \in Threads /\ Covers(t, submit[u].got) BY <3>1, <3>2, <3>4 DEF Carrying
      <4> QED BY <1>2, <3>1, <4>1 DEF Covers
    <3>5. ASSUME submit[u].pc = "resolve", NEW t \in submit[u].left
          PROVE  thread'[t] # "none" /\ Covers(t, posted)'
      <4>1. t \in Threads /\ thread[t] # "none" /\ Covers(t, posted) BY <3>1, <3>2, <3>5 DEF Carrying
      <4>2. Covers(t, posted)' BY <1>2, <4>1 DEF Covers
      <4> QED BY <4>1, <4>2 DEF Quiet
    <3> QED BY <3>1, <3>3, <3>4, <3>5 DEF Carrying
  <2> QED BY <2>1, <2>2, <2>3 DEF InTurn
<1>5. ASSUME Once PROVE Once'
  <2> SUFFICES ASSUME NEW t \in Threads
               PROVE  /\ sent'[t] <= 1 /\ (thread'[t] = "none" => sent'[t] = 0)
                      /\ thread'[t] = "open" /\ sent'[t] = 1
                            => \E u \in Submits : submit[u].pc = "resolve" /\ t \in submit[u].left
                      /\ \A u \in Submits : submit[u].pc \in {"load", "post"} /\ t \in submit[u].open => sent'[t] = 0
    BY DEF Once
  <2>1. CASE sent'[t] = 0 BY <2>1
  <2>2. CASE sent'[t] = sent[t]
    <3>1. thread'[t] = "open" => thread[t] = "open" \/ thread[t] = "none" \/ sent'[t] = 0 BY DEF Quiet
    <3>2. thread'[t] = "none" => thread[t] = "none" BY DEF Quiet
    <3> QED BY <1>5, <2>2, <3>1, <3>2 DEF Once
  <2> QED BY <2>1, <2>2 DEF Quiet
<1> QED BY <1>1, <1>4, <1>5 DEF Reviewed

\* One submission moves while the others are at rest.
LEMMA BatchMoves ==
    ASSUME Reviewed, Tables', Writing', NEW s \in Submits, NEW r \in Batches, Moves(s, r),
           sent' \in [Threads -> Nat], closer' \in [Threads -> {"hand", "review"}], slips' \in Nat,
           overlapped' \in BOOLEAN,
           ~overlapped' => /\ \A u \in Submits \ {s} : submit[u].pc = "idle"
                           /\ Carrying(r)' /\ \A t \in Threads : ByReview(t)' => Covers(t, posted)',
           ~overlapped' /\ slips' = 0 =>
              \A t \in Threads : /\ sent'[t] <= 1 /\ (thread'[t] = "none" => sent'[t] = 0)
                                 /\ thread'[t] = "open" /\ sent'[t] = 1 => r.pc = "resolve" /\ t \in r.left
                                 /\ r.pc \in {"load", "post"} /\ t \in r.open => sent'[t] = 0
    PROVE  Reviewed'
<1>1. /\ submit' \in [Submits -> Batches] /\ submit'[s] = r
      /\ \A u \in Submits \ {s} : submit'[u] = submit[u]
  BY DEF Moves, Reviewed, SubmitTypes
<1>2. SubmitTypes' BY <1>1 DEF SubmitTypes
<1>3. ASSUME ~overlapped' PROVE InTurn'
  <2>1. \A u \in Submits \ {s} : submit'[u].pc = "idle" BY <1>1, <1>3
  <2>2. OneAtWork' BY <2>1 DEF OneAtWork
  <2>3. ASSUME NEW u \in Submits PROVE Carrying(submit[u])'
    <3>1. CASE u = s BY <1>1, <1>3, <3>1 DEF Carrying
    <3>2. CASE u # s BY <2>1, <3>2 DEF Carrying
    <3> QED BY <3>1, <3>2
  <2> QED BY <1>3, <2>2, <2>3 DEF InTurn
<1>4. ASSUME ~overlapped', slips' = 0 PROVE Once'
  <2>1. \A u \in Submits \ {s} : submit'[u].pc = "idle" BY <1>1, <1>4
  <2> QED BY <1>1, <1>4, <2>1 DEF Once
<1> QED BY <1>2, <1>3, <1>4 DEF Reviewed

\* Submission s, the only one at work.
LEMMA AloneAtWork ==
    ASSUME Reviewed, NEW s \in Submits, submit[s].pc # "idle", ~overlapped
    PROVE  /\ \A u \in Submits \ {s} : submit[u].pc = "idle"
           /\ Carrying(submit[s]) /\ \A t \in Threads : ByReview(t) => Covers(t, posted)
           /\ slips = 0 =>
                 \A t \in Threads :
                    /\ sent[t] <= 1 /\ (thread[t] = "none" => sent[t] = 0)
                    /\ thread[t] = "open" /\ sent[t] = 1 => submit[s].pc = "resolve" /\ t \in submit[s].left
                    /\ submit[s].pc \in {"load", "post"} /\ t \in submit[s].open => sent[t] = 0
<1>1. InTurn /\ (slips = 0 => Once) BY DEF Reviewed
<1>2. \A u \in Submits \ {s} : submit[u].pc = "idle" BY <1>1 DEF InTurn, OneAtWork
<1>3. ASSUME slips = 0, NEW t \in Threads
      PROVE  /\ sent[t] <= 1 /\ (thread[t] = "none" => sent[t] = 0)
             /\ thread[t] = "open" /\ sent[t] = 1 => submit[s].pc = "resolve" /\ t \in submit[s].left
             /\ submit[s].pc \in {"load", "post"} /\ t \in submit[s].open => sent[t] = 0
  BY <1>1, <1>2, <1>3 DEF Once
<1> QED BY <1>1, <1>2, <1>3 DEF InTurn

LEMMA TablesStay ==
    ASSUME Tables, Writing, UNCHANGED <<thread, comment, writer>>
    PROVE  Tables' /\ Writing'
<1>1. Said' = Said /\ \A t : Of(t)' = Of(t) BY DEF Said, Of
<1>2. Grounded' BY <1>1 DEF Tables, Grounded
<1>3. NoEmptyThread' BY <1>1 DEF Tables, Grounded, NoEmptyThread, Present
<1> QED BY <1>2, <1>3 DEF Tables, Writing

LEMMA NoSubmitIsABatch == NoSubmit \in Batches /\ NoSubmit.pc = "idle"
BY DEF NoSubmit, Batches

LEMMA ListKeeps ==
    ASSUME Reviewed, NEW s \in Submits, List(s)
    PROVE  Reviewed'
<1> DEFINE open == {t \in Threads : thread[t] = "open"}
<1>0. open \in SUBSET Threads /\ {} \in SUBSET (Comments \X Nat) OBVIOUS
<1>p. PICK p \in {"load", "post"} : p = IF open = {} THEN "post" ELSE "load" OBVIOUS
<1>r. [pc |-> p, open |-> open, left |-> open, got |-> {}] \in Batches BY <1>0 DEF Batches
<1>1. PICK r \in Batches : r = [pc |-> IF open = {} THEN "post" ELSE "load", open |-> open, left |-> open, got |-> {}]
  BY <1>p, <1>r
<1>2. /\ r.pc = (IF open = {} THEN "post" ELSE "load") /\ r.open = open /\ r.left = open /\ r.got = {}
  BY <1>1
<1>3. /\ submit[s].pc = "idle" /\ Moves(s, r) /\ notes' = notes + 1
      /\ UNCHANGED <<slips, thread, comment, closer, unread, writer, posted, sent>>
      /\ overlapped' = (overlapped \/ \E u \in Submits : submit[u].pc # "idle")
  BY <1>1 DEF List, Note, tables, github
<1>4. Tables' /\ Writing' BY <1>3, TablesStay DEF Reviewed
<1>5. sent' \in [Threads -> Nat] /\ closer' \in [Threads -> {"hand", "review"}] /\ slips' \in Nat
      /\ overlapped' \in BOOLEAN
  BY <1>3 DEF Reviewed, SubmitTypes
<1>6. ASSUME ~overlapped'
      PROVE  /\ \A u \in Submits : submit[u].pc = "idle"
             /\ Carrying(r)' /\ \A t \in Threads : ByReview(t)' => Covers(t, posted)'
  <2>1. ~overlapped /\ \A u \in Submits : submit[u].pc = "idle" BY <1>3, <1>6 DEF Reviewed
  <2>2. \A t \in Threads : ByReview(t) => Covers(t, posted) BY <2>1 DEF Reviewed, InTurn
  <2>3. \A t \in Threads : ByReview(t)' => Covers(t, posted)' BY <1>3, <2>2 DEF ByReview, Covers, Of
  <2>4. Carrying(r)' BY <1>2, <1>3 DEF Carrying, ByReview
  <2> QED BY <2>1, <2>3, <2>4
<1>7. ASSUME ~overlapped', slips' = 0, NEW t \in Threads
      PROVE  /\ sent'[t] <= 1 /\ (thread'[t] = "none" => sent'[t] = 0)
             /\ thread'[t] = "open" /\ sent'[t] = 1 => r.pc = "resolve" /\ t \in r.left
             /\ r.pc \in {"load", "post"} /\ t \in r.open => sent'[t] = 0
  <2>1. Once /\ \A u \in Submits : submit[u].pc = "idle" BY <1>3, <1>6, <1>7 DEF Reviewed
  <2>2. sent[t] \in Nat BY DEF Reviewed, SubmitTypes
  <2>3. sent[t] <= 1 /\ (thread[t] = "none" => sent[t] = 0) /\ ~(thread[t] = "open" /\ sent[t] = 1)
    BY <2>1 DEF Once
  <2> QED BY <1>2, <1>3, <2>2, <2>3
<1> HIDE DEF open
<1> QED BY <1>3, <1>4, <1>5, <1>6, <1>7, BatchMoves

LEMMA LoadKeeps ==
    ASSUME Reviewed, NEW s \in Submits, NEW t \in Threads, Load(s, t)
    PROVE  Reviewed'
<1>t. submit[s] \in Batches /\ comment \in [Comments -> Notations] BY DEF Reviewed, SubmitTypes, Tables
<1> DEFINE left == submit[s].left \ {t}
           text == {<<c, comment[c].text>> : c \in Of(t)}
<1>0. text \in SUBSET (Comments \X Nat) BY <1>t DEF Of, Notations
<1>1. /\ submit[s].pc = "load" /\ t \in submit[s].left /\ unread' = unread \ Of(t)
      /\ Moves(s, [submit[s] EXCEPT !.pc = IF left = {} THEN "post" ELSE "load", !.left = left,
                                    !.got = submit[s].got \cup text])
      /\ UNCHANGED <<thread, comment, closer, writer, posted, sent, overlapped, notes, slips>>
  BY DEF Load, github
<1>2. submit[s].got \cup text \in SUBSET (Comments \X Nat) /\ left \in SUBSET Threads BY <1>t, <1>0 DEF Batches
<1>3. PICK r \in Batches : r = [submit[s] EXCEPT !.pc = IF left = {} THEN "post" ELSE "load", !.left = left,
                                                 !.got = submit[s].got \cup text]
  BY <1>t, <1>2 DEF Batches
<1>4. /\ r.pc = (IF left = {} THEN "post" ELSE "load") /\ r.open = submit[s].open
      /\ r.left = left /\ r.got = submit[s].got \cup text
  BY <1>t, <1>3 DEF Batches
<1>5. Tables' /\ Writing' BY <1>1, TablesStay DEF Reviewed
<1>6. sent' \in [Threads -> Nat] /\ closer' \in [Threads -> {"hand", "review"}] /\ slips' \in Nat
      /\ overlapped' \in BOOLEAN
  BY <1>1 DEF Reviewed, SubmitTypes
<1>7. ASSUME ~overlapped'
      PROVE  /\ \A u \in Submits \ {s} : submit[u].pc = "idle"
             /\ Carrying(r)' /\ \A u \in Threads : ByReview(u)' => Covers(u, posted)'
  <2>1. /\ \A u \in Submits \ {s} : submit[u].pc = "idle"
        /\ Carrying(submit[s]) /\ \A u \in Threads : ByReview(u) => Covers(u, posted)
    BY <1>1, <1>7, AloneAtWork
  <2>2. /\ submit[s].left \subseteq submit[s].open /\ submit[s].open \subseteq Threads
        /\ \A u \in submit[s].open : thread[u] # "none" /\ ~ByReview(u)
        /\ \A u \in submit[s].open \ submit[s].left : Covers(u, submit[s].got)
    BY <1>t, <1>1, <2>1 DEF Carrying, Batches
  <2>3. ASSUME NEW u \in Threads \ {t}, NEW x, NEW y, x \subseteq y, Covers(u, x)
        PROVE  \A c \in Of(u) : c \in unread' \/ <<c, comment[c].text>> \in y
    BY <1>1, <2>3 DEF Covers, Of
  <2>4. \A u : Of(u)' = Of(u) BY <1>1 DEF Of
  <2>5. ASSUME NEW u \in Threads, ByReview(u)' PROVE Covers(u, posted)'
    <3>1. ByReview(u) /\ u # t BY <1>1, <2>2, <2>5 DEF ByReview
    <3>2. Covers(u, posted) BY <2>1, <3>1
    <3> QED BY <1>1, <2>3, <2>4, <3>1, <3>2 DEF Covers
  <2>6. ASSUME NEW u \in r.open \ r.left PROVE Covers(u, r.got)'
    <3>1. u \in submit[s].open /\ u \in Threads /\ (u = t \/ u \notin submit[s].left) BY <1>4, <2>2, <2>6
    <3>2. CASE u = t
      <4>1. \A c \in Of(t) : <<c, comment[c].text>> \in r.got BY <1>4
      <4> QED BY <1>1, <2>4, <3>2, <4>1 DEF Covers
    <3>3. CASE u # t
      <4>1. Covers(u, submit[s].got) BY <2>2, <3>1, <3>3
      <4>2. submit[s].got \subseteq r.got BY <1>4
      <4>3. \A c \in Of(u) : c \in unread' \/ <<c, comment[c].text>> \in r.got BY <2>3, <3>1, <3>3, <4>1, <4>2
      <4> QED BY <1>1, <2>4, <4>3 DEF Covers
    <3> QED BY <3>2, <3>3
  <2>7. r.left \subseteq r.open /\ (r.pc = "post" => r.left = {}) /\ r.pc # "resolve" BY <1>4, <2>2
  <2>8. \A u \in r.open : thread'[u] # "none" /\ ~ByReview(u)' BY <1>1, <1>4, <2>2 DEF ByReview
  <2>9. Carrying(r)' BY <2>6, <2>7, <2>8 DEF Carrying
  <2> QED BY <2>1, <2>5, <2>9
<1>8. ASSUME ~overlapped', slips' = 0, NEW u \in Threads
      PROVE  /\ sent'[u] <= 1 /\ (thread'[u] = "none" => sent'[u] = 0)
             /\ thread'[u] = "open" /\ sent'[u] = 1 => r.pc = "resolve" /\ u \in r.left
             /\ r.pc \in {"load", "post"} /\ u \in r.open => sent'[u] = 0
  BY <1>1, <1>4, <1>8, AloneAtWork
<1>9. Moves(s, r) BY <1>1, <1>3 DEF Moves
<1> HIDE DEF left, text
<1> QED BY <1>5, <1>6, <1>7, <1>8, <1>9, BatchMoves

\* What is posted does not shrink when submission s ends or is left to resolve.
LEMMA ToResolveKeeps ==
    ASSUME Reviewed, NEW s \in Submits, submit[s].pc # "idle", NEW left \in SUBSET Threads, ToResolve(s, left),
           UNCHANGED <<tables, writer, overlapped>>, sent' \in [Threads -> Nat], slips' \in Nat,
           posted \subseteq posted',
           ~overlapped => \A t \in left : thread[t] # "none" /\ Covers(t, posted'),
           ~overlapped /\ slips' = 0 =>
              \A t \in Threads : /\ sent'[t] <= 1 /\ (thread[t] = "none" => sent'[t] = 0)
                                 /\ thread[t] = "open" /\ sent'[t] = 1 => t \in left
    PROVE  Reviewed'
<1>t. submit[s] \in Batches BY DEF Reviewed, SubmitTypes
<1>1. PICK r \in Batches : r = IF left = {} THEN NoSubmit ELSE [submit[s] EXCEPT !.pc = "resolve", !.left = left]
  BY <1>t, NoSubmitIsABatch DEF Batches
<1>2. Moves(s, r) BY <1>1 DEF ToResolve
<1>3. (left = {} /\ r.pc = "idle") \/ (r.pc = "resolve" /\ r.left = left)
  BY <1>t, <1>1, NoSubmitIsABatch DEF Batches
<1>4. UNCHANGED <<thread, comment, closer, unread, writer, overlapped>> BY DEF tables
<1>5. Tables' /\ Writing' BY <1>4, TablesStay DEF Reviewed
<1>6. closer' \in [Threads -> {"hand", "review"}] /\ overlapped' \in BOOLEAN BY <1>4 DEF Reviewed, SubmitTypes
<1>7. \A t : Of(t)' = Of(t) BY <1>4 DEF Of
<1>8. ASSUME ~overlapped'
      PROVE  /\ \A u \in Submits \ {s} : submit[u].pc = "idle"
             /\ Carrying(r)' /\ \A t \in Threads : ByReview(t)' => Covers(t, posted)'
  <2>1. /\ \A u \in Submits \ {s} : submit[u].pc = "idle"
        /\ \A t \in Threads : ByReview(t) => Covers(t, posted)
    BY <1>4, <1>8, AloneAtWork
  <2>2. ASSUME NEW t \in Threads, ByReview(t)' PROVE Covers(t, posted)'
    <3>1. Covers(t, posted) BY <1>4, <2>1, <2>2 DEF ByReview
    <3> QED BY <1>4, <1>7, <3>1 DEF Covers
  <2>3. \A t \in left : thread'[t] # "none" /\ Covers(t, posted)' BY <1>4, <1>7, <1>8 DEF Covers
  <2>4. Carrying(r)' BY <1>3, <2>3 DEF Carrying
  <2> QED BY <2>1, <2>2, <2>4
<1>9. ASSUME ~overlapped', slips' = 0, NEW t \in Threads
      PROVE  /\ sent'[t] <= 1 /\ (thread'[t] = "none" => sent'[t] = 0)
             /\ thread'[t] = "open" /\ sent'[t] = 1 => r.pc = "resolve" /\ t \in r.left
             /\ r.pc \in {"load", "post"} /\ t \in r.open => sent'[t] = 0
  <2>1. /\ sent'[t] <= 1 /\ (thread[t] = "none" => sent'[t] = 0)
        /\ thread[t] = "open" /\ sent'[t] = 1 => t \in left
    BY <1>4, <1>9
  <2>2. r.pc \notin {"load", "post"} /\ (t \in left => r.pc = "resolve" /\ t \in r.left) BY <1>3
  <2>3. thread'[t] = thread[t] BY <1>4
  <2> QED BY <2>1, <2>2, <2>3
<1> QED BY <1>2, <1>5, <1>6, <1>8, <1>9, BatchMoves

LEMMA PostKeeps ==
    ASSUME Reviewed, NEW s \in Submits, Post(s)
    PROVE  Reviewed'
<1>t. /\ submit[s] \in Batches /\ sent \in [Threads -> Nat] /\ slips \in Nat
      /\ submit[s].open \in SUBSET Threads
  BY DEF Reviewed, SubmitTypes, Batches
<1>1. /\ submit[s].pc = "post" /\ ToResolve(s, submit[s].open) /\ posted' = posted \cup submit[s].got
      /\ sent' = [t \in Threads |-> sent[t] + IF t \in submit[s].open THEN 1 ELSE 0]
      /\ UNCHANGED <<tables, writer, overlapped, notes, slips>>
  BY DEF Post, Accepts
<1>2. \A t \in Threads : sent[t] \in Nat /\ sent'[t] = (IF t \in submit[s].open THEN sent[t] + 1 ELSE sent[t])
  BY <1>t, <1>1
<1>3. sent' \in [Threads -> Nat]
  <2>1. \A t \in Threads : sent'[t] \in Nat BY <1>2
  <2> QED BY <1>1, <2>1
<1>4. ASSUME ~overlapped PROVE \A t \in submit[s].open : thread[t] # "none" /\ Covers(t, posted')
  <2>1. Carrying(submit[s]) BY <1>1, <1>4, AloneAtWork
  <2>2. \A t \in submit[s].open : thread[t] # "none" /\ Covers(t, submit[s].got) BY <1>1, <2>1 DEF Carrying
  <2> QED BY <1>1, <2>2 DEF Covers
<1>5. ASSUME ~overlapped, slips' = 0, NEW t \in Threads
      PROVE  /\ sent'[t] <= 1 /\ (thread[t] = "none" => sent'[t] = 0)
             /\ thread[t] = "open" /\ sent'[t] = 1 => t \in submit[s].open
  <2>1. /\ sent[t] <= 1 /\ (thread[t] = "none" => sent[t] = 0) /\ ~(thread[t] = "open" /\ sent[t] = 1)
        /\ t \in submit[s].open => sent[t] = 0 /\ thread[t] # "none"
    BY <1>1, <1>4, <1>5, AloneAtWork
  <2> QED BY <1>2, <2>1
<1> QED BY <1>t, <1>1, <1>3, <1>4, <1>5, ToResolveKeeps

LEMMA SubmitFailsKeeps ==
    ASSUME Reviewed, NEW s \in Submits, SubmitFails(s)
    PROVE  Reviewed'
<1>t. /\ submit[s] \in Batches /\ sent \in [Threads -> Nat] /\ slips \in Nat
      /\ submit[s].open \in SUBSET Threads
  BY DEF Reviewed, SubmitTypes, Batches
<1>1. /\ submit[s].pc # "idle" /\ ToResolve(s, {}) /\ slips' = slips + 1
      /\ UNCHANGED <<tables, writer, overlapped>>
      /\ (UNCHANGED <<posted, sent>>) \/ Accepts(s)
  BY DEF SubmitFails, Slip, ToResolve, github
<1>2. slips' \in Nat /\ slips' # 0 BY <1>t, <1>1
<1>3. sent' \in [Threads -> Nat] /\ posted \subseteq posted'
  <2>1. CASE UNCHANGED <<posted, sent>> BY <1>t, <2>1
  <2>2. CASE Accepts(s)
    <3>1. sent' = [t \in Threads |-> sent[t] + IF t \in submit[s].open THEN 1 ELSE 0]
      BY <2>2 DEF Accepts
    <3>2. \A t \in Threads : (sent[t] + IF t \in submit[s].open THEN 1 ELSE 0) \in Nat BY <1>t
    <3> QED BY <2>2, <3>1, <3>2 DEF Accepts
  <2> QED BY <1>1, <2>1, <2>2
<1> QED BY <1>1, <1>2, <1>3, ToResolveKeeps

LEMMA ResolveFailsKeeps ==
    ASSUME Reviewed, NEW s \in Submits, ResolveFails(s)
    PROVE  Reviewed'
<1>t. /\ submit[s] \in Batches /\ sent \in [Threads -> Nat] /\ slips \in Nat
      /\ submit[s].left \in SUBSET Threads
  BY DEF Reviewed, SubmitTypes, Batches
<1>1. PICK left \in SUBSET submit[s].left : ToResolve(s, left) BY DEF ResolveFails
<1>2. /\ submit[s].pc = "resolve" /\ slips' = slips + 1 /\ UNCHANGED <<tables, writer, overlapped, posted, sent>>
  BY DEF ResolveFails, Slip, github
<1>3. slips' \in Nat /\ slips' # 0 /\ left \in SUBSET Threads BY <1>t, <1>1, <1>2
<1>4. ASSUME ~overlapped PROVE \A t \in left : thread[t] # "none" /\ Covers(t, posted')
  <2>1. Carrying(submit[s]) BY <1>2, <1>4, AloneAtWork
  <2> QED BY <1>1, <1>2, <2>1 DEF Carrying
<1> QED BY <1>t, <1>1, <1>2, <1>3, <1>4, ToResolveKeeps

LEMMA ResolveKeeps ==
    ASSUME Reviewed, NEW s \in Submits, NEW t \in Threads, Resolve(s, t)
    PROVE  Reviewed'
<1>t. /\ submit[s] \in Batches /\ submit[s].left \in SUBSET Threads /\ thread \in [Threads -> States]
      /\ closer \in [Threads -> {"hand", "review"}] /\ Tables /\ Writing
  BY DEF Reviewed, SubmitTypes, Batches, Tables
<1> DEFINE left == submit[s].left \ {t}
<1>0. left \in SUBSET Threads BY <1>t
<1>1. /\ submit[s].pc = "resolve" /\ t \in submit[s].left /\ ToResolve(s, left) /\ SetResolved(t, "resolved", "review")
      /\ UNCHANGED <<comment, unread, writer, posted, sent, overlapped, notes, slips>>
  BY DEF Resolve, github
<1>2. PICK r \in Batches : r = IF left = {} THEN NoSubmit ELSE [submit[s] EXCEPT !.pc = "resolve", !.left = left]
  BY <1>t, <1>0, NoSubmitIsABatch DEF Batches
<1>3. Moves(s, r) BY <1>1, <1>2 DEF ToResolve
<1>4. (left = {} /\ r.pc = "idle") \/ (r.pc = "resolve" /\ r.left = left)
  BY <1>t, <1>2, NoSubmitIsABatch DEF Batches
\* The thread is resolved if it is there; nothing else changes.
<1>5. /\ thread' \in [Threads -> States] /\ closer' \in [Threads -> {"hand", "review"}]
      /\ \A u \in Threads \ {t} : thread'[u] = thread[u] /\ closer'[u] = closer[u]
      /\ thread'[t] # "open" /\ (thread'[t] = "none" <=> thread[t] = "none")
      /\ \A u \in Threads : Present(u)' <=> Present(u)
  <2>1. CASE Present(t)
    <3>1. thread' = [thread EXCEPT ![t] = "resolved"] /\ closer' = [closer EXCEPT ![t] = "review"]
      BY <1>1, <2>1 DEF SetResolved
    <3> QED BY <1>t, <2>1, <3>1 DEF Present, States
  <2>2. CASE ~Present(t) BY <1>t, <1>1, <2>2 DEF SetResolved, Present
  <2> QED BY <2>1, <2>2
<1>6. Tables' BY <1>t, <1>1, <1>5, ThreadsKeep
<1>7. \A u \in Threads : thread[u] # "none" => thread'[u] # "none" BY <1>5
<1>8. Writing' BY <1>t, <1>1, <1>7 DEF Writing
<1>9. \A u : Of(u)' = Of(u) BY <1>1 DEF Of
<1>10. sent' \in [Threads -> Nat] /\ slips' \in Nat /\ overlapped' \in BOOLEAN BY <1>1 DEF Reviewed, SubmitTypes
<1>11. ASSUME ~overlapped'
       PROVE  /\ \A u \in Submits \ {s} : submit[u].pc = "idle"
              /\ Carrying(r)' /\ \A u \in Threads : ByReview(u)' => Covers(u, posted)'
  <2>1. /\ \A u \in Submits \ {s} : submit[u].pc = "idle"
        /\ Carrying(submit[s]) /\ \A u \in Threads : ByReview(u) => Covers(u, posted)
    BY <1>1, <1>11, AloneAtWork
  <2>2. \A u \in submit[s].left : thread[u] # "none" /\ Covers(u, posted) BY <1>1, <2>1 DEF Carrying
  <2>3. ASSUME NEW u \in Threads, Covers(u, posted) PROVE Covers(u, posted)' BY <1>1, <1>9, <2>3 DEF Covers
  <2>4. ASSUME NEW u \in Threads, ByReview(u)' PROVE Covers(u, posted)'
    <3>1. CASE u = t BY <1>1, <2>2, <2>3, <3>1
    <3>2. CASE u # t
      <4>1. ByReview(u) BY <1>5, <2>4, <3>2 DEF ByReview
      <4> QED BY <2>1, <2>3, <4>1
    <3> QED BY <3>1, <3>2
  <2>5. \A u \in left : thread'[u] # "none" /\ Covers(u, posted)'
    <3> SUFFICES ASSUME NEW u \in left PROVE thread'[u] # "none" /\ Covers(u, posted)' OBVIOUS
    <3>1. u \in submit[s].left /\ u \in Threads BY <1>0
    <3> QED BY <1>7, <2>2, <2>3, <3>1
  <2>6. Carrying(r)' BY <1>4, <2>5 DEF Carrying
  <2> QED BY <2>1, <2>4, <2>6
<1>12. ASSUME ~overlapped', slips' = 0, NEW u \in Threads
       PROVE  /\ sent'[u] <= 1 /\ (thread'[u] = "none" => sent'[u] = 0)
              /\ thread'[u] = "open" /\ sent'[u] = 1 => r.pc = "resolve" /\ u \in r.left
              /\ r.pc \in {"load", "post"} /\ u \in r.open => sent'[u] = 0
  <2>1. /\ sent[u] <= 1 /\ (thread[u] = "none" => sent[u] = 0)
        /\ thread[u] = "open" /\ sent[u] = 1 => u \in submit[s].left
    BY <1>1, <1>12, AloneAtWork
  <2>2. sent'[u] = sent[u] /\ (thread'[u] = "none" <=> thread[u] = "none") BY <1>1, <1>5
  <2>3. thread'[u] = "open" => u # t /\ thread[u] = "open" BY <1>5
  <2>4. r.pc \notin {"load", "post"} /\ (u \in left => r.pc = "resolve" /\ u \in r.left) BY <1>4
  <2> QED BY <2>1, <2>2, <2>3, <2>4
<1> HIDE DEF left
<1> QED BY <1>3, <1>5, <1>6, <1>8, <1>10, <1>11, <1>12, BatchMoves

LEMMA NoWriteIsAWriting == NoWrite \in Writings /\ NoWrite.op = "idle"
BY DEF NoWrite, Writings, None

LEMMA ReviewStep ==
    ASSUME Reviewed, ReviewNext \/ UNCHANGED reviewVars
    PROVE  Reviewed'
<1>t. /\ Tables /\ Writing /\ SubmitTypes /\ thread \in [Threads -> States] /\ writer \in [Writers -> Writings]
      /\ sent \in [Threads -> Nat] /\ closer \in [Threads -> {"hand", "review"}]
  BY DEF Reviewed, Writing, Tables, SubmitTypes
<1>1. CASE UNCHANGED reviewVars
  <2>1. UNCHANGED <<thread, comment, writer, submit, posted, sent, closer, unread, overlapped, slips>>
    BY <1>1 DEF reviewVars
  <2>2. Tables' /\ Writing' /\ Untouched /\ Quiet BY <1>t, <2>1, TablesStay DEF Untouched, Quiet, Of
  <2> QED BY <1>t, <2>1, <2>2, HandlersKeep
<1>2. ASSUME NEW t \in Threads, NEW c \in Comments, CreateThread(t, c) PROVE Reviewed'
  <2>1. /\ thread[t] = "none" /\ Say(c, t) /\ thread' = [thread EXCEPT ![t] = "open"]
        /\ UNCHANGED <<writer, submit, posted, sent, closer, overlapped, slips>>
    BY <1>2 DEF CreateThread, NextThread, Note
  <2>2. thread' \in [Threads -> States] /\ thread'[t] = "open" /\ \A u \in Threads \ {t} : thread'[u] = thread[u]
    BY <1>t, <2>1 DEF States
  <2>3. Tables' /\ Untouched BY <1>t, <2>1, <2>2, SayKeeps DEF Present
  <2>4. Writing' BY <1>t, <2>1, <2>2 DEF Writing
  <2>5. Quiet BY <2>1, <2>2 DEF Quiet
  <2> QED BY <1>t, <2>1, <2>3, <2>4, <2>5, HandlersKeep
<1>3. ASSUME NEW w \in Writers, NEW op \in {"add", "edit", "drop", "delete", "resolve", "reopen"},
             NEW t \in Threads, NEW c \in Comments \cup {None}, Check(w, op, t, c)
      PROVE  Reviewed'
  <2>1. Cardinality(Of(t)) \in Nat BY <1>t, OfIsFinite
  <2>2. PICK k \in Writings : k = [op |-> op, of |-> t, on |-> c, count |-> Cardinality(Of(t))]
    BY <2>1 DEF Writings
  <2>3. k.op = op /\ k.of = t /\ k.on = c BY <2>2
  <2>4. /\ Present(t) /\ writer' = [writer EXCEPT ![w] = k]
        /\ (op \in {"edit", "drop"} => c \in Of(t))
        /\ UNCHANGED <<thread, comment, closer, unread, submit, posted, sent, overlapped, slips>>
    BY <1>3, <2>2 DEF Check, tables, github, Note
  <2>5. thread[t] # "none" /\ (op \in {"edit", "drop"} => c \in Comments) BY <2>4 DEF Present, Of
  <2>6. writer' \in [Writers -> Writings] /\ writer'[w] = k /\ \A v \in Writers \ {w} : writer'[v] = writer[v]
    BY <1>t, <2>4
  <2>7. Writing'
    <3>1. ASSUME NEW v \in Writers
          PROVE  /\ writer'[v].op # "idle" => writer'[v].of \in Threads /\ thread[writer'[v].of] # "none"
                 /\ writer'[v].op \in {"edit", "drop"} => writer'[v].on \in Comments
      <4>1. CASE v = w BY <2>3, <2>5, <2>6, <4>1
      <4>2. CASE v # w BY <1>t, <2>6, <4>2 DEF Writing
      <4> QED BY <4>1, <4>2
    <3> QED BY <2>4, <2>6, <3>1 DEF Writing
  <2>8. \A u \in Threads : Present(u)' <=> Present(u) BY <2>4 DEF Present
  <2>9. Tables' /\ Untouched BY <1>t, <2>4, <2>8, ThreadsKeep
  <2>10. Quiet BY <2>4 DEF Quiet
  <2> QED BY <1>t, <2>4, <2>7, <2>9, <2>10, HandlersKeep
<1>4. ASSUME NEW w \in Writers, Write(w) PROVE Reviewed'
  <2>1. /\ writer' = [writer EXCEPT ![w] = NoWrite]
        /\ UNCHANGED <<submit, posted, overlapped, slips>>
    BY <1>4 DEF Write, AddComment, EditComment, DropComment, DropThread, ResolveByHand, Reopen, Does, Rest
  <2>2. Tables' /\ Untouched /\ Quiet BY <1>t, <1>4, CommentStep, ThreadStep DEF Write
  <2>3. /\ writer' \in [Writers -> Writings] /\ writer'[w].op = "idle"
        /\ \A v \in Writers \ {w} : writer'[v] = writer[v]
    BY <1>t, <2>1, NoWriteIsAWriting
  <2>4. Writing'
    <3>1. ASSUME NEW v \in Writers
          PROVE  /\ writer'[v].op # "idle" => writer'[v].of \in Threads /\ thread'[writer'[v].of] # "none"
                 /\ writer'[v].op \in {"edit", "drop"} => writer'[v].on \in Comments
      <4>1. CASE v = w BY <2>3, <4>1
      <4>2. CASE v # w BY <1>t, <2>2, <2>3, <4>2 DEF Writing, Quiet
      <4> QED BY <4>1, <4>2
    <3> QED BY <2>3, <3>1 DEF Writing
  <2>5. sent' \in [Threads -> Nat]
    <3>1. UNCHANGED sent \/ \E t \in Threads : sent' = [sent EXCEPT ![t] = 0]
      <4>1. CASE Reopen(w)
        <5>1. writer[w].of \in Threads BY <1>t, <4>1 DEF Reopen, Does, Writing
        <5> QED BY <4>1, <5>1 DEF Reopen
      <4>2. CASE ~Reopen(w)
        BY <1>4, <4>2 DEF Write, AddComment, EditComment, DropComment, DropThread, ResolveByHand
      <4> QED BY <4>1, <4>2
    <3> QED BY <1>t, <3>1
  <2>6. closer' \in [Threads -> {"hand", "review"}]
    <3>1. closer' = closer \/ closer' = [closer EXCEPT ![writer[w].of] = "hand"]
      BY <1>4 DEF Write, AddComment, EditComment, DropComment, DropThread, ResolveByHand, Reopen, SetResolved
    <3> QED BY <1>t, <3>1
  <2> QED BY <2>1, <2>2, <2>4, <2>5, <2>6, HandlersKeep
<1>5. ASSUME NEW s \in Submits, SubmitStep(s) PROVE Reviewed'
  BY <1>5, ListKeeps, PostKeeps, SubmitFailsKeeps, ResolveFailsKeeps, LoadKeeps, ResolveKeeps DEF SubmitStep
<1> QED BY <1>1, <1>2, <1>3, <1>4, <1>5 DEF ReviewNext

\* ReviewKept: a thread on record has a comment and a comment its thread; with
\* no two submissions at work at once a thread is posted once for each time it
\* was opened, and what a submission resolved has been posted as it was read.
THEOREM ReviewKeptHolds == Spec => []ReviewKept
<1>1. Reviewed /\ [Next]_vars => Reviewed' BY ReviewStep, Parts
<1>2. Init => Reviewed
  <2> SUFFICES ASSUME ReviewInit PROVE Reviewed BY DEF Init
  <2>0. NoComment \in Notations /\ ~NoComment.live /\ NoComment.text = 0 BY DEF NoComment, Notations, None
  <2>1. Said = {} /\ \A t : Of(t) = {} BY <2>0 DEF ReviewInit, Said, Of
  <2>2. Tables BY <2>0, <2>1, FS_EmptySet DEF ReviewInit, Tables, Grounded, NoEmptyThread, Present, States
  <2>3. Writing BY NoWriteIsAWriting DEF ReviewInit, Writing
  <2>4. SubmitTypes BY NoSubmitIsABatch DEF ReviewInit, SubmitTypes
  <2>5. InTurn BY NoSubmitIsABatch DEF ReviewInit, InTurn, OneAtWork, Carrying, ByReview
  <2>6. Once BY NoSubmitIsABatch DEF ReviewInit, Once
  <2> QED BY <2>2, <2>3, <2>4, <2>5, <2>6 DEF Reviewed, ReviewInit
<1>3. Reviewed => ReviewKept
  BY DEF Reviewed, Tables, InTurn, Once, ReviewKept, PostedOnce, NothingDropped, Covers, ByReview
<1> QED BY <1>1, <1>2, <1>3, PTL DEF Spec

-----------------------------------------------------------------------------
(* The branch: what a ship and a view hold, whoever else is at work.       *)

Names     == Branches \cup {NoName}
Pulls     == [head : Branches, state : {"open", "merged", "closed"}]
Rows      == [number : Nat, state : {NoName, "open", "merged", "closed"}, head : Names]
Points    == {"idle", "plan", "rename", "persist", "rollback", "push", "recheck", "create", "keep"}
Shippings == [pc : Points, from : Names, to : Names, opens : BOOLEAN, number : Nat]
Viewings  == [pc : {"idle", "insert", "fetch", "write"}, pr : Rows, mine : BOOLEAN]

ShipTypes ==
    /\ branch \in Branches /\ local \in Branches /\ prs \in Seq(Pulls) /\ artifact \in Nat /\ row \in Rows
    /\ ship \in [Ships -> Shippings] /\ view \in [Views -> Viewings]
    /\ clashed \in BOOLEAN /\ asks \in Nat /\ lapses \in Nat
    /\ \A s \in Ships : ~At(s, "idle") => ship[s].from \in Branches /\ ship[s].to \in Branches

\* What the row, a view and a ship name is a pull request on GitHub.
OnGitHub ==
    /\ row = NoPr \/ row.number \in DOMAIN prs
    /\ artifact = 0 \/ artifact \in DOMAIN prs
    /\ \A s \in Ships : At(s, "keep") => ship[s].number \in DOMAIN prs
    /\ \A v \in Views : /\ view[v].pc # "idle" => view[v].pr.number \in DOMAIN prs
                        /\ view[v].pc \in {"fetch", "write"} => row # NoPr

\* No more ships are at work than were asked for.
Shipping    == {s \in Ships : ~At(s, "idle")}
Counted == IsFiniteSet(Shipping) /\ Cardinality(Shipping) <= asks

Between(s) == ship[s].pc \in {"persist", "rollback"}
Before(s)  == ship[s].pc \in {"plan", "rename"}

\* Of two ships at once one renames, and the other then finds another name.
OneRenames ==
    /\ \A s \in Ships : Between(s) => /\ local = ship[s].to /\ branch = ship[s].from /\ ship[s].from # ship[s].to
                                      /\ \A u \in Ships : Between(u) => u = s
    /\ (\A s \in Ships : ~Between(s)) => local = branch
    /\ \A s \in Ships : Before(s) =>
          /\ ship[s].from # ship[s].to
          /\ \/ ship[s].from = branch
             \/ /\ local # ship[s].from /\ asks >= 2
                /\ \A u \in Ships : Before(u) \/ Between(u) => u = s

\* One ship after another: every head is the branch, and a name that changes
\* has no pull request.
OneByOne ==
    /\ \A s, u \in Ships : ~At(s, "idle") /\ ~At(u, "idle") => s = u
    /\ \A s \in Ships : /\ Before(s) \/ Between(s) => ship[s].from = branch
                        /\ ship[s].pc \in {"push", "recheck", "create", "keep"} => ship[s].to = branch
                        /\ At(s, "rename") \/ Between(s) => ~pr_exists /\ prs = <<>>
    /\ \A n \in DOMAIN prs : prs[n].head = branch
    /\ prs # <<>> => pr_exists \/ \E s \in Ships : At(s, "keep")
    /\ row.head \in {NoName, branch}
    /\ \A v \in Views : view[v].pc # "idle" => pr_exists /\ view[v].pr.head \in {NoName, branch}

\* And the worktree follows, but while the name is on its way to the row.
LocalFollows ==
    /\ (\A s \in Ships : ~Between(s)) => local = branch
    /\ \A s \in Ships : Between(s) => local = ship[s].to

Delivered ==
    /\ ShipTypes /\ OnGitHub /\ Counted
    /\ lapses = 0 => (asks <= 2 => OneRenames) /\ (~clashed => OneByOne /\ LocalFollows)

LEMMA ShipMoves ==
    ASSUME ShipTypes, NEW s \in Ships, NEW k \in Shippings, ship' = [ship EXCEPT ![s] = k]
    PROVE  ship' \in [Ships -> Shippings] /\ ship'[s] = k /\ \A u \in Ships \ {s} : ship'[u] = ship[u]
BY DEF ShipTypes

LEMMA GotoIs ==
    ASSUME ShipTypes, NEW s \in Ships, NEW pc \in Points, Goto(s, pc)
    PROVE  /\ ship' \in [Ships -> Shippings] /\ \A u \in Ships \ {s} : ship'[u] = ship[u]
           /\ ship'[s].pc = pc /\ ship'[s].from = ship[s].from /\ ship'[s].to = ship[s].to
           /\ ship'[s].number = ship[s].number
<1>1. ship[s] \in Shippings BY DEF ShipTypes
<1>2. PICK k \in Shippings : k = [ship[s] EXCEPT !.pc = pc] BY <1>1 DEF Shippings
<1>3. k.pc = pc /\ k.from = ship[s].from /\ k.to = ship[s].to /\ k.number = ship[s].number
  BY <1>1, <1>2 DEF Shippings
<1>4. ship' = [ship EXCEPT ![s] = k] BY <1>2 DEF Goto
<1> QED BY <1>3, <1>4, ShipMoves

LEMMA NoShipIsAShipping == NoShip \in Shippings /\ NoShip.pc = "idle"
BY DEF NoShip, Shippings, Points, Names

LEMMA EndsIs ==
    ASSUME ShipTypes, NEW s \in Ships, Ends(s)
    PROVE  /\ ship' \in [Ships -> Shippings] /\ \A u \in Ships \ {s} : ship'[u] = ship[u]
           /\ ship'[s].pc = "idle"
BY NoShipIsAShipping, ShipMoves DEF Ends

LEMMA AskIs ==
    ASSUME ShipTypes, NEW s \in Ships, NEW to \in Branches, NEW opens \in BOOLEAN, Ask(s, to, opens)
    PROVE  /\ ship' \in [Ships -> Shippings] /\ \A u \in Ships \ {s} : ship'[u] = ship[u]
           /\ ship'[s].pc = (IF to = branch THEN "push" ELSE "plan") /\ ship'[s].from = branch /\ ship'[s].to = to
<1>1. PICK p \in {"push", "plan"} : p = IF to = branch THEN "push" ELSE "plan" OBVIOUS
<1>2. branch \in Names /\ to \in Names BY DEF ShipTypes, Names
<1>3. PICK k \in Shippings : k = [pc |-> p, from |-> branch, to |-> to, opens |-> opens, number |-> 0]
  BY <1>2 DEF Shippings, Points
<1>4. k.pc = p /\ k.from = branch /\ k.to = to BY <1>3
<1>5. ship' = [ship EXCEPT ![s] = k] BY <1>1, <1>3 DEF Ask
<1> QED BY <1>1, <1>4, <1>5, ShipMoves

LEMMA CountKeeps ==
    ASSUME ShipTypes, Counted,
           \/ Shipping' \subseteq Shipping /\ asks' = asks
           \/ \E s \in Ships : s \notin Shipping /\ Shipping' = Shipping \cup {s} /\ asks' = asks + 1
    PROVE  Counted'
<1>t. IsFiniteSet(Shipping) /\ Cardinality(Shipping) <= asks /\ asks \in Nat /\ Cardinality(Shipping) \in Nat
  BY FS_CardinalityType DEF Counted, ShipTypes
<1>1. CASE Shipping' \subseteq Shipping /\ asks' = asks
  <2>1. IsFiniteSet(Shipping') /\ Cardinality(Shipping') <= Cardinality(Shipping) BY <1>t, <1>1, FS_Subset
  <2>2. Cardinality(Shipping') \in Nat BY <2>1, FS_CardinalityType
  <2> QED BY <1>t, <1>1, <2>1, <2>2 DEF Counted
<1>2. ASSUME NEW s \in Ships, s \notin Shipping, Shipping' = Shipping \cup {s}, asks' = asks + 1 PROVE Counted'
  <2>1. IsFiniteSet(Shipping') /\ Cardinality(Shipping') = Cardinality(Shipping) + 1
    BY <1>t, <1>2, FS_AddElement
  <2> QED BY <1>t, <1>2, <2>1 DEF Counted
<1> QED BY <1>1, <1>2

LEMMA OneMoreElement ==
    ASSUME NEW S, IsFiniteSet(S), NEW x, x \notin S
    PROVE  IsFiniteSet(S \cup {x}) /\ Cardinality(S \cup {x}) = Cardinality(S) + 1
BY FS_AddElement

LEMMA AskedFor ==
    ASSUME ShipTypes, Counted, NEW s \in Shipping, NEW u \in Shipping, s # u
    PROVE  asks >= 2 /\ \A x \in Shipping : x # s /\ x # u => asks >= 3
<1> DEFINE two == {s} \cup {u}
<1>t. IsFiniteSet(Shipping) /\ Cardinality(Shipping) <= asks /\ asks \in Nat /\ Cardinality(Shipping) \in Nat
  BY FS_CardinalityType DEF Counted, ShipTypes
<1>1. Cardinality({s}) = 1 /\ IsFiniteSet({s}) BY FS_Singleton
<1>2. Cardinality(two) = 2 /\ IsFiniteSet(two)
  <2>1. u \notin {s} OBVIOUS
  <2> QED BY <1>1, <2>1, OneMoreElement
<1>3. two \in SUBSET Shipping /\ \A x : x # s /\ x # u => x \notin two OBVIOUS
<1> HIDE DEF two
<1>4. Cardinality(two) <= Cardinality(Shipping) BY <1>t, <1>3, FS_Subset
<1>5. asks >= 2 BY <1>t, <1>2, <1>4
<1>6. ASSUME NEW x \in Shipping, x # s, x # u PROVE asks >= 3
  <2> DEFINE three == two \cup {x}
  <2>1. x \notin two BY <1>3, <1>6
  <2>2. IsFiniteSet(three) /\ Cardinality(three) = Cardinality(two) + 1 BY <1>2, <2>1, OneMoreElement
  <2>3. three \in SUBSET Shipping BY <1>3
  <2> HIDE DEF three
  <2>4. Cardinality(three) <= Cardinality(Shipping) BY <1>t, <2>3, FS_Subset
  <2> QED BY <1>t, <1>2, <2>2, <2>4
<1> QED BY <1>5, <1>6

LEMMA OneMorePull ==
    ASSUME NEW q \in Seq(Pulls), NEW p \in Pulls, NEW r, r = Append(q, p)
    PROVE  /\ r \in Seq(Pulls) /\ Len(r) = Len(q) + 1 /\ DOMAIN r = DOMAIN q \cup {Len(r)} /\ Len(r) \in Nat
           /\ r[Len(r)] = p /\ \A n \in DOMAIN q : r[n] = q[n]
OBVIOUS

LEMMA ShipAside ==
    ASSUME ShipTypes, OnGitHub, NEW s \in Ships,
           ship' \in [Ships -> Shippings], \A u \in Ships \ {s} : ship'[u] = ship[u],
           ship'[s].pc # "idle" => ship'[s].from \in Branches /\ ship'[s].to \in Branches,
           ship'[s].pc = "keep" => ship'[s].number \in DOMAIN prs',
           local' \in Branches, branch' \in Branches, prs' \in Seq(Pulls), DOMAIN prs \subseteq DOMAIN prs',
           row' = row \/ (row' \in Rows /\ row' # NoPr /\ row'.number \in DOMAIN prs'), UNCHANGED <<view, artifact>>,
           clashed' \in BOOLEAN, asks' \in Nat, lapses' \in Nat
    PROVE  ShipTypes' /\ OnGitHub'
<1>1. \A u \in Ships : ship'[u].pc # "idle" => ship'[u].from \in Branches /\ ship'[u].to \in Branches
  BY DEF ShipTypes, At
<1>2. \A u \in Ships : ship'[u].pc = "keep" => ship'[u].number \in DOMAIN prs' BY DEF OnGitHub, At
<1>3. row' \in Rows /\ (row' = NoPr => row = NoPr) BY DEF ShipTypes
<1>4. ShipTypes' BY <1>1, <1>3 DEF ShipTypes, At
<1>5. row' = NoPr \/ row'.number \in DOMAIN prs' BY DEF OnGitHub
<1>6. artifact' = 0 \/ artifact' \in DOMAIN prs' BY DEF OnGitHub
<1>7. ASSUME NEW v \in Views
      PROVE  /\ view'[v].pc # "idle" => view'[v].pr.number \in DOMAIN prs'
             /\ view'[v].pc \in {"fetch", "write"} => row' # NoPr
  BY <1>3 DEF OnGitHub
<1> QED BY <1>2, <1>4, <1>5, <1>6, <1>7 DEF OnGitHub, At

LEMMA ShipIsTyped ==
    ASSUME ShipTypes, OnGitHub, NEW s \in Ships, ShipStep(s)
    PROVE  ShipTypes' /\ OnGitHub'
<1>t. /\ branch \in Branches /\ local \in Branches /\ prs \in Seq(Pulls) /\ row \in Rows
      /\ ship \in [Ships -> Shippings] /\ clashed \in BOOLEAN /\ asks \in Nat /\ lapses \in Nat
      /\ ship[s] \in Shippings
      /\ ship[s].pc # "idle" => ship[s].from \in Branches /\ ship[s].to \in Branches
  BY DEF ShipTypes, At
\* What most steps leave alone.
<1>b. ASSUME UNCHANGED <<clashed, asks>>, lapses' \in Nat, UNCHANGED <<local, branch, prs, row, artifact, view>>,
             ship' \in [Ships -> Shippings], \A u \in Ships \ {s} : ship'[u] = ship[u],
             ship'[s].pc = "idle" \/ /\ ship'[s].pc # "keep" /\ ship[s].pc # "idle"
                                     /\ ship'[s].from = ship[s].from /\ ship'[s].to = ship[s].to
      PROVE  ShipTypes' /\ OnGitHub'
  BY <1>b, <1>t, ShipAside
<1>g. ASSUME NEW pc \in Points, pc # "keep", Goto(s, pc), ship[s].pc # "idle"
      PROVE  /\ ship' \in [Ships -> Shippings] /\ \A u \in Ships \ {s} : ship'[u] = ship[u]
             /\ ship'[s].pc = pc /\ ship'[s].from = ship[s].from /\ ship'[s].to = ship[s].to
             /\ ship'[s].pc = "idle" \/ /\ ship'[s].pc # "keep" /\ ship[s].pc # "idle"
                                        /\ ship'[s].from = ship[s].from /\ ship'[s].to = ship[s].to
  BY <1>g, GotoIs
<1>p. {"idle", "plan", "rename", "persist", "rollback", "push", "recheck", "create", "keep"} \subseteq Points BY DEF Points
<1>1. ASSUME NEW to \in Branches, NEW opens \in BOOLEAN, Ask(s, to, opens) PROVE ShipTypes' /\ OnGitHub'
  <2>1. /\ asks' = asks + 1 /\ clashed' = (clashed \/ \E u \in Ships : ~At(u, "idle"))
        /\ UNCHANGED <<local, branch, prs, row, artifact, view, lapses>>
    BY <1>1 DEF Ask
  <2>2. asks' \in Nat /\ clashed' \in BOOLEAN BY <1>t, <2>1
  <2> QED BY <1>t, <1>1, <2>1, <2>2, AskIs, ShipAside
<1>2. CASE Plan(s)
  <2>1. UNCHANGED <<local, branch, prs, row, artifact, view, clashed, asks, lapses>> /\ ship[s].pc # "idle"
    BY <1>2 DEF Plan, bounds, At
  <2>2. Ends(s) \/ Goto(s, "rename") BY <1>2 DEF Plan
  <2> QED BY <1>b, <1>g, <1>p, <1>t, <2>1, <2>2, EndsIs
<1>3. CASE PlanBlind(s)
  <2>1. UNCHANGED <<local, branch, prs, row, artifact, view, clashed, asks>> /\ ship[s].pc # "idle"
        /\ lapses' = lapses + 1 /\ Goto(s, "rename")
    BY <1>3 DEF PlanBlind, At, Lapse
  <2>2. lapses' \in Nat BY <1>t, <2>1
  <2> QED BY <1>b, <1>g, <1>p, <2>1, <2>2
<1>4. CASE Rename(s)
  <2>1. UNCHANGED <<branch, prs, row, artifact, view, clashed, asks, lapses>> /\ ship[s].pc # "idle"
    BY <1>4 DEF Rename, bounds, At
  <2>2. CASE local = ship[s].from
    <3>1. local' = ship[s].to /\ Goto(s, "persist") BY <1>4, <2>2 DEF Rename
    <3>2. local' \in Branches BY <1>t, <2>1, <3>1
    <3> QED BY <1>g, <1>p, <1>t, <2>1, <3>1, <3>2, ShipAside
  <2>3. CASE local # ship[s].from BY <1>4, <1>b, <1>t, <2>1, <2>3, EndsIs DEF Rename
  <2> QED BY <2>2, <2>3
<1>5. CASE Persist(s)
  <2>1. UNCHANGED <<local, prs, row, artifact, view, clashed, asks, lapses>> /\ ship[s].pc # "idle"
        /\ branch' = ship[s].to /\ Goto(s, "push")
    BY <1>5 DEF Persist, bounds, At
  <2>2. branch' \in Branches BY <1>t, <2>1
  <2> QED BY <1>g, <1>p, <1>t, <2>1, <2>2, ShipAside
<1>6. CASE PersistFails(s)
  <2>1. UNCHANGED <<local, branch, prs, row, artifact, view, clashed, asks, lapses>> /\ ship[s].pc # "idle"
        /\ Goto(s, "rollback")
    BY <1>6 DEF PersistFails, bounds, At
  <2> QED BY <1>b, <1>g, <1>p, <1>t, <2>1
<1>7. CASE Rollback(s)
  <2>1. UNCHANGED <<branch, prs, row, artifact, view, clashed, asks, lapses>> /\ ship[s].pc # "idle" /\ Ends(s)
        /\ local' = IF local = ship[s].to THEN ship[s].from ELSE local
    BY <1>7 DEF Rollback, bounds, At
  <2>2. local' \in Branches BY <1>t, <2>1
  <2> QED BY <1>t, <2>1, <2>2, EndsIs, ShipAside
<1>8. CASE Push(s)
  <2>1. UNCHANGED <<local, branch, prs, row, artifact, view, clashed, asks, lapses>> /\ ship[s].pc # "idle"
    BY <1>8 DEF Push, bounds, At
  <2>2. PICK pc \in {"recheck", "create"} : Ends(s) \/ Goto(s, pc) BY <1>8 DEF Push
  <2>3. pc \in Points /\ pc # "keep" BY <1>p
  <2> QED BY <1>b, <1>g, <1>t, <2>1, <2>2, <2>3, EndsIs
<1>9. CASE Recheck(s)
  <2>1. UNCHANGED <<local, branch, prs, row, artifact, view, clashed, asks, lapses>> /\ ship[s].pc # "idle"
    BY <1>9 DEF Recheck, bounds, At
  <2>2. Ends(s) \/ Goto(s, "create") BY <1>9 DEF Recheck
  <2> QED BY <1>b, <1>g, <1>p, <1>t, <2>1, <2>2, EndsIs
<1>o. ASSUME Opens(s)
      PROVE  /\ prs' \in Seq(Pulls) /\ Len(prs') \in Nat /\ DOMAIN prs' = DOMAIN prs \cup {Len(prs')}
             /\ ship[s].pc = "create"
  <2>1. prs' = Append(prs, [head |-> ship[s].to, state |-> "open"]) /\ ship[s].pc = "create" BY <1>o DEF Opens, At
  <2>2. [head |-> ship[s].to, state |-> "open"] \in Pulls BY <1>t, <2>1 DEF Pulls
  <2> QED BY <1>t, <2>1, <2>2, OneMorePull
<1>10. CASE Create(s)
  <2>1. /\ ship' = [ship EXCEPT ![s].pc = "keep", ![s].number = Len(prs')]
        /\ UNCHANGED <<local, branch, row, artifact, view, clashed, asks, lapses>> /\ Opens(s)
    BY <1>10 DEF Create, bounds
  <2>2. PICK k \in Shippings : k = [ship[s] EXCEPT !.pc = "keep", !.number = Len(prs')]
    BY <1>t, <1>p, <1>o, <2>1 DEF Shippings
  <2>3. k.pc = "keep" /\ k.number = Len(prs') /\ k.from = ship[s].from /\ k.to = ship[s].to
    BY <1>t, <2>2 DEF Shippings
  <2>4. ship' = [ship EXCEPT ![s] = k] BY <2>1, <2>2
  <2>5. ship' \in [Ships -> Shippings] /\ ship'[s] = k /\ \A u \in Ships \ {s} : ship'[u] = ship[u]
    BY <2>4, ShipMoves
  <2> QED BY <1>t, <1>o, <2>1, <2>3, <2>5, ShipAside
<1>11. CASE Upsert(s)
  <2>1. /\ At(s, "keep") /\ ship[s].pc = "keep" /\ Ends(s)
        /\ row' = [number |-> ship[s].number, state |-> "open", head |-> ship[s].to]
        /\ UNCHANGED <<local, branch, prs, artifact, view, clashed, asks, lapses>>
    BY <1>11 DEF Upsert, bounds, At
  <2>2. ship[s].number \in DOMAIN prs /\ ship[s].number \in Nat /\ ship[s].number # 0 /\ ship[s].to \in Names
    BY <1>t, <2>1 DEF OnGitHub, Shippings
  <2>3. row' \in Rows /\ row'.number = ship[s].number BY <2>1, <2>2 DEF Rows
  <2>4. row' # NoPr BY <2>2, <2>3 DEF NoPr
  <2> QED BY <1>t, <2>1, <2>2, <2>3, <2>4, EndsIs, ShipAside
<1>12. CASE ShipFails(s)
  <2>1. UNCHANGED <<local, branch, prs, row, artifact, view, clashed, asks, lapses>> /\ Ends(s)
    BY <1>12 DEF ShipFails, bounds
  <2> QED BY <1>b, <1>t, <2>1, EndsIs
<1>13. CASE ShipLapses(s)
  <2>1. /\ UNCHANGED <<local, branch, row, artifact, view, clashed, asks>> /\ Ends(s) /\ lapses' = lapses + 1
        /\ UNCHANGED prs \/ Opens(s)
    BY <1>13 DEF ShipLapses, Lapse
  <2>2. lapses' \in Nat /\ prs' \in Seq(Pulls) /\ DOMAIN prs \subseteq DOMAIN prs' BY <1>t, <1>o, <2>1
  <2> QED BY <1>t, <2>1, <2>2, EndsIs, ShipAside
<1> QED BY <1>1, <1>2, <1>3, <1>4, <1>5, <1>6, <1>7, <1>8, <1>9, <1>10, <1>11, <1>12, <1>13 DEF ShipStep

LEMMA ShipIsCounted ==
    ASSUME ShipTypes, Counted, NEW s \in Ships, ShipStep(s)
    PROVE  Counted'
<1>1. ASSUME NEW to \in Branches, NEW opens \in BOOLEAN, Ask(s, to, opens) PROVE Counted'
  <2>1. /\ \A u \in Ships \ {s} : ship'[u] = ship[u]
        /\ ship'[s].pc # "idle" /\ ship[s].pc = "idle" /\ asks' = asks + 1
    BY <1>1, AskIs DEF Ask, At
  <2>2. s \notin Shipping /\ Shipping' = Shipping \cup {s} BY <2>1 DEF Shipping, At
  <2> QED BY <2>1, <2>2, CountKeeps
<1>2. ASSUME ~At(s, "idle"), asks' = asks,
             Ends(s) \/ (\E pc : Goto(s, pc)) \/ \E n : ship' = [ship EXCEPT ![s].pc = "keep", ![s].number = n]
      PROVE  Counted'
  <2>1. \A u \in Ships \ {s} : ship'[u] = ship[u] BY <1>2 DEF Ends, Goto, ShipTypes
  <2>2. Shipping' \subseteq Shipping BY <1>2, <2>1 DEF Shipping, At
  <2> QED BY <1>2, <2>2, CountKeeps
<1>3. ASSUME \/ Plan(s) \/ PlanBlind(s) \/ Rename(s) \/ Persist(s) \/ PersistFails(s) \/ Rollback(s)
             \/ Push(s) \/ Recheck(s) \/ Create(s) \/ Upsert(s) \/ ShipFails(s) \/ ShipLapses(s)
      PROVE  Counted'
  <2>1. ~At(s, "idle") /\ asks' = asks
    BY <1>3 DEF Plan, PlanBlind, Rename, Persist, PersistFails, Rollback, Push, Recheck, Create, Upsert,
                ShipFails, ShipLapses, At, Opens, bounds, Lapse
  <2>2. Ends(s) \/ (\E pc : Goto(s, pc)) \/ \E n : ship' = [ship EXCEPT ![s].pc = "keep", ![s].number = n]
    BY <1>3 DEF Plan, PlanBlind, Rename, Persist, PersistFails, Rollback, Push, Recheck, Create, Upsert,
                ShipFails, ShipLapses
  <2> QED BY <1>2, <2>1, <2>2
<1> QED BY <1>1, <1>3 DEF ShipStep

LEMMA NamesAside ==
    ASSUME OneRenames, NEW s \in Ships, \A u \in Ships \ {s} : ship'[u] = ship[u],
           UNCHANGED <<local, branch, asks>>, ~Between(s), ship'[s].pc \notin {"persist", "rollback"},
           ship'[s].pc \in {"plan", "rename"} =>
              Before(s) /\ ship'[s].from = ship[s].from /\ ship'[s].to = ship[s].to
    PROVE  OneRenames'
<1>1. \A u \in Ships : Between(u)' => Between(u) /\ u # s /\ ship'[u] = ship[u] BY DEF Between
<1>2. \A u \in Ships : Between(u) => Between(u)' BY DEF Between
<1>3. \A u \in Ships : Before(u)' => Before(u) /\ ship'[u].from = ship[u].from /\ ship'[u].to = ship[u].to
  BY DEF Before
<1>4. ASSUME NEW u \in Ships, Between(u)'
      PROVE  /\ local' = ship'[u].to /\ branch' = ship'[u].from /\ ship'[u].from # ship'[u].to
             /\ \A x \in Ships : Between(x)' => x = u
  BY <1>1, <1>4 DEF OneRenames
<1>5. (\A u \in Ships : ~Between(u)') => local' = branch' BY <1>2 DEF OneRenames
<1>6. ASSUME NEW u \in Ships, Before(u)'
      PROVE  /\ ship'[u].from # ship'[u].to
             /\ \/ ship'[u].from = branch'
                \/ /\ local' # ship'[u].from /\ asks' >= 2
                   /\ \A x \in Ships : Before(x)' \/ Between(x)' => x = u
  BY <1>1, <1>3, <1>6 DEF OneRenames
<1> QED BY <1>4, <1>5, <1>6 DEF OneRenames

LEMMA ShipKeepsNames ==
    ASSUME ShipTypes, Counted, OneRenames, NEW s \in Ships, ShipStep(s), lapses = 0, lapses' = 0, asks <= 2, asks' <= 2
    PROVE  OneRenames'
<1>t. asks \in Nat /\ ship[s] \in Shippings /\ ship \in [Ships -> Shippings] BY DEF ShipTypes
<1>p. {"idle", "plan", "rename", "persist", "rollback", "push", "recheck", "create", "keep"} \subseteq Points BY DEF Points
\* Where nothing is renamed.
<1>a. ASSUME UNCHANGED <<local, branch, asks>>, ~Between(s),
             Ends(s) \/ (\E pc \in {"push", "recheck", "create", "keep"} : Goto(s, pc)) \/ (Before(s) /\ Goto(s, "rename"))
      PROVE  OneRenames'
  <2>1. CASE Ends(s) BY <1>a, <2>1, EndsIs, NamesAside
  <2>2. ASSUME NEW pc \in {"push", "recheck", "create", "keep"}, Goto(s, pc) PROVE OneRenames'
    <3>1. pc \in Points BY <1>p
    <3> QED BY <1>a, <2>2, <3>1, GotoIs, NamesAside
  <2>3. CASE Before(s) /\ Goto(s, "rename") BY <1>a, <1>p, <2>3, GotoIs, NamesAside
  <2> QED BY <1>a, <2>1, <2>2, <2>3
<1>1. ASSUME NEW to \in Branches, NEW opens \in BOOLEAN, Ask(s, to, opens) PROVE OneRenames'
  <2>1. /\ \A u \in Ships \ {s} : ship'[u] = ship[u] /\ ship[s].pc = "idle"
        /\ ship'[s].pc = (IF to = branch THEN "push" ELSE "plan") /\ ship'[s].from = branch /\ ship'[s].to = to
        /\ asks' = asks + 1 /\ UNCHANGED <<local, branch>>
    BY <1>1, AskIs DEF Ask, At
  <2>2. ~(asks >= 2) BY <1>t, <2>1
  <2>3. ship[s].pc = "idle" BY <1>1 DEF Ask, At
  <2>4. \A u \in Ships : Between(u)' <=> Between(u) /\ u # s BY <2>1, <2>3 DEF Between
  <2>5. ~Between(s) BY <2>3 DEF Between
  <2>6. ASSUME NEW u \in Ships, Before(u)'
        PROVE  ship'[u].from # ship'[u].to /\ ship'[u].from = branch'
    <3>1. CASE u = s BY <2>1, <2>6, <3>1 DEF Before
    <3>2. CASE u # s
      <4>1. Before(u) /\ ship'[u] = ship[u] BY <2>1, <2>6, <3>2 DEF Before
      <4> QED BY <2>1, <2>2, <4>1 DEF OneRenames
    <3> QED BY <3>1, <3>2
  <2>7. ASSUME NEW u \in Ships, Between(u)'
        PROVE  /\ local' = ship'[u].to /\ branch' = ship'[u].from /\ ship'[u].from # ship'[u].to
               /\ \A x \in Ships : Between(x)' => x = u
    BY <2>1, <2>4, <2>7 DEF OneRenames
  <2>8. (\A u \in Ships : ~Between(u)') => local' = branch' BY <2>1, <2>4, <2>5 DEF OneRenames
  <2> QED BY <2>6, <2>7, <2>8 DEF OneRenames
<1>2. CASE Plan(s)
  <2>1. UNCHANGED <<local, branch, asks>> /\ ship[s].pc = "plan" /\ (Ends(s) \/ Goto(s, "rename"))
    BY <1>2 DEF Plan, bounds, At
  <2> QED BY <1>a, <2>1 DEF Before, Between
<1>3. CASE PlanBlind(s)
  <2>1. lapses' = lapses + 1 BY <1>3 DEF PlanBlind, Lapse
  <2> QED BY <2>1
<1>4. CASE Rename(s)
  <2>1. UNCHANGED <<branch, asks>> /\ ship[s].pc = "rename" BY <1>4 DEF Rename, bounds, At
  <2>2. CASE local = ship[s].from
    <3>1. local' = ship[s].to /\ Goto(s, "persist") BY <1>4, <2>2 DEF Rename
    <3>2. /\ \A u \in Ships \ {s} : ship'[u] = ship[u]
          /\ ship'[s].pc = "persist" /\ ship'[s].from = ship[s].from /\ ship'[s].to = ship[s].to
      BY <1>p, <3>1, GotoIs
    <3>3. Before(s) /\ ~Between(s) BY <2>1 DEF Before, Between
    <3>4. ship[s].from # ship[s].to /\ ship[s].from = branch BY <2>2, <3>3 DEF OneRenames
    <3>5. \A u \in Ships : ~Between(u) BY <2>2, <3>4 DEF OneRenames
    <3>6. \A u \in Ships : Between(u)' <=> u = s BY <3>2, <3>5 DEF Between
    <3>7. ASSUME NEW u \in Ships, Before(u)' PROVE ship'[u].from # ship'[u].to /\ ship'[u].from = branch'
      <4>1. u # s /\ ship'[u] = ship[u] /\ Before(u) BY <3>2, <3>7 DEF Before
      <4> QED BY <2>1, <3>3, <4>1 DEF OneRenames
    <3> QED BY <2>1, <3>1, <3>2, <3>4, <3>6, <3>7 DEF OneRenames
  <2>3. CASE local # ship[s].from
    <3>1. Ends(s) /\ UNCHANGED local BY <1>4, <2>3 DEF Rename
    <3> QED BY <1>a, <2>1, <3>1 DEF Between
  <2> QED BY <2>2, <2>3
<1>5. CASE Persist(s)
  <2>1. UNCHANGED <<local, asks>> /\ ship[s].pc = "persist" /\ branch' = ship[s].to /\ Goto(s, "push")
    BY <1>5 DEF Persist, bounds, At
  <2>2. (\A u \in Ships \ {s} : ship'[u] = ship[u]) /\ ship'[s].pc = "push" BY <1>p, <2>1, GotoIs
  <2>3. Between(s) BY <2>1 DEF Between
  <2>4. /\ local = ship[s].to /\ branch = ship[s].from /\ ship[s].from # ship[s].to
        /\ \A u \in Ships : Between(u) => u = s
    BY <2>3 DEF OneRenames
  <2>5. \A u \in Ships : ~Between(u)' BY <2>2, <2>4 DEF Between
  <2>6. ASSUME NEW u \in Ships, Before(u)'
        PROVE  /\ ship'[u].from # ship'[u].to /\ local' # ship'[u].from /\ asks' >= 2
               /\ \A x \in Ships : Before(x)' \/ Between(x)' => x = u
    <3>1. u # s /\ ship'[u] = ship[u] /\ Before(u) BY <2>2, <2>6 DEF Before
    <3>2. ship[u].from # ship[u].to /\ ship[u].from = branch BY <2>3, <3>1 DEF OneRenames
    <3>3. s \in Shipping /\ u \in Shipping BY <2>1, <3>1 DEF Shipping, At, Before
    <3>4. asks >= 2 /\ \A x \in Shipping : x # s /\ x # u => asks >= 3 BY <3>1, <3>3, AskedFor
    <3>5. ~(asks >= 3) BY <1>t
    <3>6. ASSUME NEW x \in Ships, Before(x)' PROVE x = u
      <4>1. x # s /\ ship'[x] = ship[x] BY <2>2, <3>6 DEF Before
      <4>2. x \in Shipping BY <3>6, <4>1 DEF Shipping, At, Before
      <4> QED BY <3>4, <3>5, <4>1, <4>2
    <3> QED BY <2>1, <2>4, <2>5, <3>1, <3>2, <3>4, <3>6
  <2> QED BY <2>1, <2>4, <2>5, <2>6 DEF OneRenames
<1>6. CASE PersistFails(s)
  <2>1. UNCHANGED <<local, branch, asks>> /\ ship[s].pc = "persist" /\ Goto(s, "rollback")
    BY <1>6 DEF PersistFails, bounds, At
  <2>2. /\ \A u \in Ships \ {s} : ship'[u] = ship[u]
        /\ ship'[s].pc = "rollback" /\ ship'[s].from = ship[s].from /\ ship'[s].to = ship[s].to
    BY <1>p, <2>1, GotoIs
  <2>3. \A u \in Ships : Between(u)' <=> Between(u) BY <2>1, <2>2 DEF Between
  <2>4. \A u \in Ships : Before(u)' <=> Before(u) BY <2>1, <2>2 DEF Before
  <2>5. \A u \in Ships : ship'[u].from = ship[u].from /\ ship'[u].to = ship[u].to BY <2>2
  <2> QED BY <2>1, <2>3, <2>4, <2>5 DEF OneRenames
<1>7. CASE Rollback(s)
  <2>1. /\ UNCHANGED <<branch, asks>> /\ ship[s].pc = "rollback" /\ Ends(s)
        /\ local' = IF local = ship[s].to THEN ship[s].from ELSE local
    BY <1>7 DEF Rollback, bounds, At
  <2>2. (\A u \in Ships \ {s} : ship'[u] = ship[u]) /\ ship'[s].pc = "idle" BY <2>1, EndsIs
  <2>3. Between(s) BY <2>1 DEF Between
  <2>4. /\ local = ship[s].to /\ branch = ship[s].from
        /\ \A u \in Ships : Between(u) => u = s
    BY <2>3 DEF OneRenames
  <2>5. local' = branch' BY <2>1, <2>4
  <2>6. \A u \in Ships : ~Between(u)' BY <2>2, <2>4 DEF Between
  <2>7. ASSUME NEW u \in Ships, Before(u)' PROVE ship'[u].from # ship'[u].to /\ ship'[u].from = branch'
    <3>1. u # s /\ ship'[u] = ship[u] /\ Before(u) BY <2>2, <2>7 DEF Before
    <3> QED BY <2>1, <2>3, <3>1 DEF OneRenames
  <2> QED BY <2>5, <2>6, <2>7 DEF OneRenames
<1>8. CASE Push(s)
  <2>1. UNCHANGED <<local, branch, asks>> /\ ship[s].pc = "push"
        /\ (Ends(s) \/ Goto(s, "recheck") \/ Goto(s, "create"))
    BY <1>8 DEF Push, bounds, At
  <2> QED BY <1>a, <2>1 DEF Between
<1>9. CASE Recheck(s)
  <2>1. UNCHANGED <<local, branch, asks>> /\ ship[s].pc = "recheck" /\ (Ends(s) \/ Goto(s, "create"))
    BY <1>9 DEF Recheck, bounds, At
  <2> QED BY <1>a, <2>1 DEF Between
<1>10. CASE Create(s)
  <2>1. /\ UNCHANGED <<local, branch, asks>> /\ ship[s].pc = "create"
        /\ ship' = [ship EXCEPT ![s].pc = "keep", ![s].number = Len(prs')]
    BY <1>10 DEF Create, Opens, bounds, At
  <2>2. ship'[s].pc = "keep" /\ \A u \in Ships \ {s} : ship'[u] = ship[u] BY <1>t, <2>1 DEF Shippings
  <2> QED BY <2>1, <2>2, NamesAside DEF Between
<1>11. CASE Upsert(s)
  <2>1. UNCHANGED <<local, branch, asks>> /\ ship[s].pc = "keep" /\ Ends(s) BY <1>11 DEF Upsert, bounds, At
  <2> QED BY <1>a, <2>1 DEF Between
<1>12. CASE ShipFails(s)
  <2>1. UNCHANGED <<local, branch, asks>> /\ Ends(s) /\ ~Between(s) BY <1>12 DEF ShipFails, bounds, Between
  <2> QED BY <1>a, <2>1
<1>13. CASE ShipLapses(s)
  <2>1. lapses' = lapses + 1 BY <1>13 DEF ShipLapses, Lapse
  <2> QED BY <2>1
<1> QED BY <1>1, <1>2, <1>3, <1>4, <1>5, <1>6, <1>7, <1>8, <1>9, <1>10, <1>11, <1>12, <1>13 DEF ShipStep

LEMMA SoleMoves ==
    ASSUME NEW s \in Ships, \A u \in Ships \ {s} : ship'[u].pc = "idle",
           ship'[s].pc \in {"plan", "rename", "persist", "rollback"} => ship'[s].from = branch',
           ship'[s].pc \in {"push", "recheck", "create", "keep"} => ship'[s].to = branch',
           ship'[s].pc \in {"rename", "persist", "rollback"} => ~pr_exists' /\ prs' = <<>>,
           \A n \in DOMAIN prs' : prs'[n].head = branch',
           prs' # <<>> => pr_exists' \/ ship'[s].pc = "keep",
           row'.head \in {NoName, branch'},
           \A v \in Views : view'[v].pc # "idle" => pr_exists' /\ view'[v].pr.head \in {NoName, branch'}
    PROVE  OneByOne'
BY DEF OneByOne, At, Before, Between

LEMMA ShipKeepsHeads ==
    ASSUME ShipTypes, OnGitHub, OneByOne, NEW s \in Ships, ShipStep(s), ~clashed', lapses = 0, lapses' = 0
    PROVE  OneByOne'
<1>t. /\ ship[s] \in Shippings /\ ship \in [Ships -> Shippings] /\ prs \in Seq(Pulls)
      /\ ship[s].pc # "idle" => ship[s].to \in Branches
  BY DEF ShipTypes, At
<1>p. {"idle", "plan", "rename", "persist", "rollback", "push", "recheck", "create", "keep"} \subseteq Points BY DEF Points
<1>i. /\ ship[s].pc \in {"plan", "rename", "persist", "rollback"} => ship[s].from = branch
      /\ ship[s].pc \in {"push", "recheck", "create", "keep"} => ship[s].to = branch
      /\ ship[s].pc \in {"rename", "persist", "rollback"} => ~pr_exists /\ prs = <<>>
      /\ \A n \in DOMAIN prs : prs[n].head = branch
      /\ row.head \in {NoName, branch}
      /\ \A v \in Views : view[v].pc # "idle" => pr_exists /\ view[v].pr.head \in {NoName, branch}
  BY DEF OneByOne, At, Before, Between
<1>o. ASSUME ~At(s, "idle")
      PROVE  /\ \A u \in Ships \ {s} : ship[u].pc = "idle"
             /\ prs # <<>> => pr_exists \/ ship[s].pc = "keep"
  BY <1>o DEF OneByOne, At
\* Where no name and no pull request changes.
<1>a. ASSUME UNCHANGED <<branch, prs, row, artifact, view>>, ~At(s, "idle"),
             \/ Ends(s) /\ ship[s].pc # "keep"
             \/ \E pc \in {"recheck", "create"} : Goto(s, pc) /\ ship[s].pc \in {"push", "recheck"}
             \/ Goto(s, "rename") /\ ship[s].pc = "plan" /\ ~pr_exists
             \/ \E pc \in {"persist", "rollback"} : Goto(s, pc) /\ ship[s].pc \in {"rename", "persist"}
      PROVE  OneByOne'
  <2>0. pr_exists' = pr_exists BY <1>a DEF pr_exists
  <2>1. /\ \A u \in Ships \ {s} : ship'[u] = ship[u]
        /\ \/ ship'[s].pc = "idle" /\ ship[s].pc # "keep"
           \/ /\ ship'[s].from = ship[s].from /\ ship'[s].to = ship[s].to
              /\ \/ ship'[s].pc \in {"recheck", "create"} /\ ship[s].pc \in {"push", "recheck"}
                 \/ ship'[s].pc = "rename" /\ ship[s].pc = "plan" /\ ~pr_exists
                 \/ ship'[s].pc \in {"persist", "rollback"} /\ ship[s].pc \in {"rename", "persist"}
    BY <1>a, <1>p, GotoIs, EndsIs
  <2>2. \A u \in Ships \ {s} : ship'[u].pc = "idle" BY <1>a, <1>o, <2>1
  <2>3. prs # <<>> => pr_exists \/ ship[s].pc = "keep" BY <1>a, <1>o
  <2> QED BY <1>a, <1>i, <2>0, <2>1, <2>2, <2>3, SoleMoves
<1>1. ASSUME NEW to \in Branches, NEW opens \in BOOLEAN, Ask(s, to, opens) PROVE OneByOne'
  <2>1. /\ \A u \in Ships \ {s} : ship'[u] = ship[u] /\ ship[s].pc = "idle"
        /\ ship'[s].pc = (IF to = branch THEN "push" ELSE "plan") /\ ship'[s].from = branch /\ ship'[s].to = to
        /\ clashed' = (clashed \/ \E u \in Ships : ~At(u, "idle"))
        /\ UNCHANGED <<branch, prs, row, artifact, view>>
    BY <1>1, AskIs DEF Ask, At
  <2>2. \A u \in Ships : ship[u].pc = "idle" BY <2>1 DEF At
  <2>3. prs # <<>> => pr_exists BY <2>2 DEF OneByOne, At
  <2>4. pr_exists' = pr_exists BY <2>1 DEF pr_exists
  <2>5. \A u \in Ships \ {s} : ship'[u].pc = "idle" BY <2>1, <2>2
  <2> QED BY <1>i, <2>1, <2>3, <2>4, <2>5, SoleMoves
<1>2. CASE Plan(s)
  <2>1. /\ UNCHANGED <<branch, prs, row, artifact, view>> /\ ship[s].pc = "plan"
        /\ Ends(s) \/ (Goto(s, "rename") /\ ~pr_exists)
    BY <1>2 DEF Plan, At
  <2> QED BY <1>a, <2>1 DEF At
<1>4. CASE Rename(s)
  <2>1. /\ UNCHANGED <<branch, prs, row, artifact, view>> /\ ship[s].pc = "rename"
        /\ Ends(s) \/ Goto(s, "persist")
    BY <1>4 DEF Rename, At
  <2> QED BY <1>a, <2>1 DEF At
<1>5. CASE Persist(s)
  <2>1. /\ UNCHANGED <<prs, row, artifact, view>> /\ ship[s].pc = "persist" /\ branch' = ship[s].to /\ Goto(s, "push")
    BY <1>5 DEF Persist, At
  <2>2. /\ \A u \in Ships \ {s} : ship'[u] = ship[u]
        /\ ship'[s].pc = "push" /\ ship'[s].to = ship[s].to
    BY <1>p, <2>1, GotoIs
  <2>3. \A u \in Ships \ {s} : ship'[u].pc = "idle" BY <1>o, <2>1, <2>2 DEF At
  <2>4. ~pr_exists /\ prs = <<>> BY <1>i, <2>1
  <2>5. pr_exists' = pr_exists /\ row.head = NoName BY <2>1, <2>4 DEF pr_exists, NoPr
  <2>6. \A v \in Views : view'[v].pc = "idle" BY <1>i, <2>1, <2>4
  <2>7. \A n \in DOMAIN prs' : FALSE BY <2>1, <2>4
  <2> QED BY <2>1, <2>2, <2>3, <2>4, <2>5, <2>6, <2>7, SoleMoves
<1>6. CASE PersistFails(s)
  <2>1. UNCHANGED <<branch, prs, row, artifact, view>> /\ ship[s].pc = "persist" /\ Goto(s, "rollback")
    BY <1>6 DEF PersistFails, At
  <2> QED BY <1>a, <2>1 DEF At
<1>7. CASE Rollback(s)
  <2>1. UNCHANGED <<branch, prs, row, artifact, view>> /\ ship[s].pc = "rollback" /\ Ends(s)
    BY <1>7 DEF Rollback, bounds, At
  <2> QED BY <1>a, <2>1 DEF At
<1>8. CASE Push(s)
  <2>1. /\ UNCHANGED <<branch, prs, row, artifact, view>> /\ ship[s].pc = "push"
        /\ (Ends(s) \/ Goto(s, "recheck") \/ Goto(s, "create"))
    BY <1>8 DEF Push, At
  <2> QED BY <1>a, <2>1 DEF At
<1>9. CASE Recheck(s)
  <2>1. UNCHANGED <<branch, prs, row, artifact, view>> /\ ship[s].pc = "recheck" /\ (Ends(s) \/ Goto(s, "create"))
    BY <1>9 DEF Recheck, At
  <2> QED BY <1>a, <2>1 DEF At
<1>10. CASE Create(s)
  <2>1. /\ UNCHANGED <<branch, row, artifact, view>> /\ ship[s].pc = "create"
        /\ ship' = [ship EXCEPT ![s].pc = "keep", ![s].number = Len(prs')]
        /\ prs' = Append(prs, [head |-> ship[s].to, state |-> "open"])
    BY <1>10 DEF Create, Opens, At
  <2>2. ship'[s].pc = "keep" /\ ship'[s].to = ship[s].to /\ \A u \in Ships \ {s} : ship'[u] = ship[u]
    BY <1>t, <2>1 DEF Shippings
  <2>3. \A u \in Ships \ {s} : ship'[u].pc = "idle" BY <1>o, <2>1, <2>2 DEF At
  <2>4. PICK p \in Pulls : p = [head |-> ship[s].to, state |-> "open"] BY <1>t, <2>1 DEF Pulls
  <2>5. /\ DOMAIN prs' = DOMAIN prs \cup {Len(prs')} /\ prs'[Len(prs')] = p
        /\ \A n \in DOMAIN prs : prs'[n] = prs[n]
    BY <1>t, <2>1, <2>4, OneMorePull
  <2>6. p.head = branch BY <1>i, <2>1, <2>4
  <2>7. \A n \in DOMAIN prs' : prs'[n].head = branch BY <1>i, <2>5, <2>6
  <2>8. pr_exists' = pr_exists BY <2>1 DEF pr_exists
  <2> QED BY <1>i, <2>1, <2>2, <2>3, <2>7, <2>8, SoleMoves
<1>11. CASE Upsert(s)
  <2>1. /\ UNCHANGED <<branch, prs, artifact, view>> /\ ship[s].pc = "keep" /\ Ends(s)
        /\ row' = [number |-> ship[s].number, state |-> "open", head |-> ship[s].to]
    BY <1>11 DEF Upsert, At
  <2>2. ship[s].number \in DOMAIN prs BY <2>1 DEF OnGitHub, At
  <2>3. ship[s].number # 0 /\ row'.number = ship[s].number /\ row'.head = branch BY <1>i, <1>t, <2>1, <2>2
  <2>4. row' # NoPr BY <2>3 DEF NoPr
  <2>5. pr_exists' BY <2>4 DEF pr_exists
  <2>6. (\A u \in Ships \ {s} : ship'[u] = ship[u]) /\ ship'[s].pc = "idle" BY <2>1, EndsIs
  <2>7. \A u \in Ships \ {s} : ship'[u].pc = "idle" BY <1>o, <2>1, <2>6 DEF At
  <2> QED BY <1>i, <2>1, <2>3, <2>5, <2>6, <2>7, SoleMoves
<1>12. CASE ShipFails(s)
  <2>1. /\ UNCHANGED <<branch, prs, row, artifact, view>> /\ Ends(s)
        /\ ship[s].pc \in {"plan", "rename", "push", "recheck", "create"}
    BY <1>12 DEF ShipFails
  <2> QED BY <1>a, <2>1 DEF At
<1>13. CASE PlanBlind(s) \/ ShipLapses(s)
  <2>1. lapses' = lapses + 1 BY <1>13 DEF PlanBlind, ShipLapses, Lapse
  <2> QED BY <2>1
<1> QED BY <1>1, <1>2, <1>4, <1>5, <1>6, <1>7, <1>8, <1>9, <1>10, <1>11, <1>12, <1>13 DEF ShipStep

LEMMA ShipKeepsLocal ==
    ASSUME ShipTypes, OneByOne, LocalFollows, NEW s \in Ships, ShipStep(s), ~clashed', lapses = 0, lapses' = 0
    PROVE  LocalFollows'
<1>p. {"idle", "plan", "rename", "persist", "rollback", "push", "recheck", "create", "keep"} \subseteq Points BY DEF Points
\* The ship that moves is the only one at work.
<1>s. ASSUME \A u \in Ships \ {s} : ship'[u].pc = "idle",
             ship'[s].pc \in {"persist", "rollback"} => local' = ship'[s].to,
             ship'[s].pc \notin {"persist", "rollback"} => local' = branch'
      PROVE  LocalFollows'
  BY <1>s DEF LocalFollows, Between
<1>o. ASSUME ~At(s, "idle") PROVE \A u \in Ships \ {s} : ship[u].pc = "idle"
  BY <1>o DEF OneByOne, At
<1>i. ASSUME \A u \in Ships \ {s} : ship[u].pc = "idle"
      PROVE  /\ Between(s) => local = ship[s].to /\ ship[s].from = branch
             /\ ~Between(s) => local = branch
  BY <1>i DEF LocalFollows, OneByOne, Between
<1>a. ASSUME UNCHANGED <<local, branch>>, ~At(s, "idle"), ~Between(s),
             \/ Ends(s)
             \/ \E pc \in {"rename", "push", "recheck", "create", "keep"} : Goto(s, pc)
      PROVE  LocalFollows'
  <2>1. /\ \A u \in Ships \ {s} : ship'[u] = ship[u]
        /\ ship'[s].pc \notin {"persist", "rollback"}
    BY <1>a, <1>p, GotoIs, EndsIs
  <2> QED BY <1>a, <1>i, <1>o, <1>s, <2>1
<1>1. ASSUME NEW to \in Branches, NEW opens \in BOOLEAN, Ask(s, to, opens) PROVE LocalFollows'
  <2>1. /\ \A u \in Ships \ {s} : ship'[u] = ship[u] /\ ship[s].pc = "idle"
        /\ ship'[s].pc = (IF to = branch THEN "push" ELSE "plan")
        /\ clashed' = (clashed \/ \E u \in Ships : ~At(u, "idle")) /\ UNCHANGED <<local, branch>>
    BY <1>1, AskIs DEF Ask, At
  <2>2. ship[s].pc = "idle" BY <1>1 DEF Ask, At
  <2>3. \A u \in Ships : ship[u].pc = "idle" BY <2>1 DEF At
  <2> QED BY <1>i, <1>s, <2>1, <2>2, <2>3 DEF Between
<1>2. CASE Plan(s) \/ Recheck(s) \/ Upsert(s) \/ ShipFails(s) \/ Push(s)
  <2>1. UNCHANGED <<local, branch>> /\ ~At(s, "idle") /\ ~Between(s)
    BY <1>2 DEF Plan, Recheck, Upsert, ShipFails, Push, At, Between
  <2>2. Ends(s) \/ \E pc \in {"rename", "recheck", "create"} : Goto(s, pc)
    BY <1>2 DEF Plan, Recheck, Upsert, ShipFails, Push
  <2> QED BY <1>a, <2>1, <2>2
<1>4. CASE Rename(s)
  <2>1. UNCHANGED branch /\ ship[s].pc = "rename" BY <1>4 DEF Rename, At
  <2>2. CASE local = ship[s].from
    <3>1. local' = ship[s].to /\ Goto(s, "persist") BY <1>4, <2>2 DEF Rename
    <3>2. /\ \A u \in Ships \ {s} : ship'[u] = ship[u]
          /\ ship'[s].pc = "persist" /\ ship'[s].to = ship[s].to
      BY <1>p, <3>1, GotoIs
    <3> QED BY <1>o, <1>s, <2>1, <3>1, <3>2 DEF At
  <2>3. CASE local # ship[s].from
    <3>1. Ends(s) /\ UNCHANGED local BY <1>4, <2>3 DEF Rename
    <3> QED BY <1>a, <2>1, <3>1 DEF At, Between
  <2> QED BY <2>2, <2>3
<1>5. CASE Persist(s) \/ PersistFails(s)
  <2>1. ship[s].pc = "persist" /\ UNCHANGED local BY <1>5 DEF Persist, PersistFails, At
  <2>2. \/ branch' = ship[s].to /\ Goto(s, "push")
        \/ Goto(s, "rollback")
    BY <1>5 DEF Persist, PersistFails
  <2>3. /\ \A u \in Ships \ {s} : ship'[u] = ship[u] /\ ship'[s].to = ship[s].to
        /\ ship'[s].pc = "rollback" \/ (ship'[s].pc = "push" /\ branch' = ship[s].to)
    BY <1>p, <2>2, GotoIs
  <2>4. ship'[s].to = ship[s].to BY <1>p, <2>2, GotoIs
  <2>5. local = ship[s].to BY <1>i, <1>o, <2>1 DEF At, Between
  <2> QED BY <1>o, <1>s, <2>1, <2>3, <2>4, <2>5 DEF At
<1>7. CASE Rollback(s)
  <2>1. /\ ship[s].pc = "rollback" /\ UNCHANGED branch /\ Ends(s)
        /\ local' = IF local = ship[s].to THEN ship[s].from ELSE local
    BY <1>7 DEF Rollback, At
  <2>2. local' = branch' BY <1>i, <1>o, <2>1 DEF At, Between
  <2> QED BY <1>o, <1>s, <2>1, <2>2, EndsIs DEF At
<1>10. CASE Create(s)
  <2>1. /\ UNCHANGED <<local, branch>> /\ ship[s].pc = "create"
        /\ ship' = [ship EXCEPT ![s].pc = "keep", ![s].number = Len(prs')]
    BY <1>10 DEF Create, Opens, At
  <2>2. ship'[s].pc = "keep" /\ \A u \in Ships \ {s} : ship'[u] = ship[u]
    BY <2>1 DEF ShipTypes, Shippings
  <2> QED BY <1>i, <1>o, <1>s, <2>1, <2>2 DEF At, Between
<1>13. CASE PlanBlind(s) \/ ShipLapses(s)
  <2>1. lapses' = lapses + 1 BY <1>13 DEF PlanBlind, ShipLapses, Lapse
  <2> QED BY <2>1
<1> QED BY <1>1, <1>2, <1>4, <1>5, <1>7, <1>10, <1>13 DEF ShipStep

LEMMA ShipKeeps ==
    ASSUME Delivered, NEW s \in Ships, ShipStep(s)
    PROVE  Delivered'
<1>1. ShipTypes' /\ OnGitHub' /\ Counted' BY ShipIsTyped, ShipIsCounted DEF Delivered
<1>t. clashed \in BOOLEAN /\ asks \in Nat /\ lapses \in Nat BY DEF Delivered, ShipTypes
<1>2. /\ lapses' = lapses \/ lapses' = lapses + 1
      /\ asks' = asks \/ asks' = asks + 1
      /\ clashed' = clashed \/ clashed' = (clashed \/ \E u \in Ships : ~At(u, "idle"))
  BY DEF ShipStep, Ask, Plan, PlanBlind, Rename, Persist, PersistFails, Rollback, Push, Recheck, Create, Upsert,
         ShipFails, ShipLapses, bounds, Lapse
<1>3. ASSUME lapses' = 0, asks' <= 2 PROVE OneRenames'
  <2>1. lapses = 0 /\ asks <= 2 BY <1>t, <1>2, <1>3
  <2> QED BY <1>3, <2>1, ShipKeepsNames DEF Delivered
<1>4. ASSUME lapses' = 0, ~clashed' PROVE OneByOne' /\ LocalFollows'
  <2>1. lapses = 0 /\ ~clashed BY <1>t, <1>2, <1>4
  <2> QED BY <1>4, <2>1, ShipKeepsHeads, ShipKeepsLocal DEF Delivered
<1> QED BY <1>1, <1>3, <1>4 DEF Delivered

\* One view moves, and may write the row.
LEMMA ViewMoves ==
    ASSUME Delivered, NEW v \in Views, NEW k \in Viewings, view' = [view EXCEPT ![v] = k], Rests,
           row' \in Rows, row' = NoPr \/ row'.number \in DOMAIN prs, row # NoPr => row' # NoPr,
           k.pc # "idle" => k.pr.number \in DOMAIN prs,
           k.pc \in {"fetch", "write"} => row' # NoPr,
           OneByOne => /\ row'.head \in {NoName, branch}
                       /\ row' # NoPr => pr_exists
                       /\ k.pc # "idle" => pr_exists /\ k.pr.head \in {NoName, branch}
    PROVE  Delivered'
<1>1. UNCHANGED <<local, branch, prs, artifact, ship, clashed, asks, lapses>> BY DEF Rests, bounds
<1>2. view' \in [Views -> Viewings] /\ view'[v] = k /\ \A x \in Views \ {v} : view'[x] = view[x]
  BY DEF Delivered, ShipTypes
<1>3. ShipTypes' BY <1>1, <1>2 DEF Delivered, ShipTypes, At
<1>4. OnGitHub'
  <2>1. /\ artifact = 0 \/ artifact \in DOMAIN prs
        /\ \A s \in Ships : ship[s].pc = "keep" => ship[s].number \in DOMAIN prs
    BY DEF Delivered, OnGitHub, At
  <2>2. ASSUME NEW x \in Views
        PROVE  /\ view'[x].pc # "idle" => view'[x].pr.number \in DOMAIN prs
               /\ view'[x].pc \in {"fetch", "write"} => row' # NoPr
    <3>1. CASE x = v BY <1>2, <3>1
    <3>2. CASE x # v BY <1>2, <3>2 DEF Delivered, OnGitHub
    <3> QED BY <3>1, <3>2
  <2> QED BY <1>1, <2>1, <2>2 DEF OnGitHub, At
<1>5. Counted' BY <1>1 DEF Delivered, Counted, Shipping, At
<1>6. OneRenames => OneRenames' BY <1>1 DEF OneRenames, Between, Before
<1>7. ASSUME OneByOne PROVE OneByOne'
  <2>1. pr_exists => pr_exists' BY <1>1 DEF pr_exists
  <2>2. ASSUME NEW x \in Views, view'[x].pc # "idle"
        PROVE  pr_exists' /\ view'[x].pr.head \in {NoName, branch'}
    <3>1. CASE x = v BY <1>1, <1>2, <1>7, <2>1, <2>2, <3>1
    <3>2. CASE x # v
      <4>1. view'[x] = view[x] /\ view[x].pc # "idle" BY <1>2, <2>2, <3>2
      <4> QED BY <1>1, <1>7, <2>1, <4>1 DEF OneByOne
    <3> QED BY <3>1, <3>2
  <2>3. \A s \in Ships : At(s, "rename") \/ Between(s) => ~pr_exists' /\ prs = <<>>
    BY <1>1, <1>7 DEF OneByOne, pr_exists
  <2>4. row'.head \in {NoName, branch} BY <1>7
  <2>5. /\ \A s, u \in Ships : ~At(s, "idle")' /\ ~At(u, "idle")' => s = u
        /\ \A s \in Ships : /\ Before(s)' \/ Between(s)' => ship'[s].from = branch'
                            /\ ship'[s].pc \in {"push", "recheck", "create", "keep"} => ship'[s].to = branch'
                            /\ At(s, "rename")' \/ Between(s)' => ~pr_exists' /\ prs' = <<>>
        /\ \A n \in DOMAIN prs' : prs'[n].head = branch'
        /\ prs' # <<>> => pr_exists' \/ \E s \in Ships : At(s, "keep")'
    BY <1>1, <1>7, <2>1, <2>3 DEF OneByOne, At, Before, Between
  <2> QED BY <1>1, <2>2, <2>4, <2>5 DEF OneByOne, At, Before, Between
<1>8. LocalFollows => LocalFollows' BY <1>1 DEF LocalFollows, Between
<1> QED BY <1>1, <1>3, <1>4, <1>5, <1>6, <1>7, <1>8 DEF Delivered

LEMMA ViewKeeps ==
    ASSUME Delivered, NEW v \in Views, ViewStep(v)
    PROVE  Delivered'
<1>t. /\ row \in Rows /\ view \in [Views -> Viewings] /\ view[v] \in Viewings /\ artifact \in Nat /\ prs \in Seq(Pulls)
      /\ row = NoPr \/ row.number \in DOMAIN prs
      /\ artifact = 0 \/ artifact \in DOMAIN prs
      /\ view[v].pc # "idle" => view[v].pr.number \in DOMAIN prs
      /\ view[v].pc \in {"fetch", "write"} => row # NoPr
  BY DEF Delivered, ShipTypes, OnGitHub
<1>o. ASSUME OneByOne
      PROVE  /\ row.head \in {NoName, branch} /\ (row # NoPr => pr_exists)
             /\ view[v].pc # "idle" => pr_exists /\ view[v].pr.head \in {NoName, branch}
  BY <1>o DEF OneByOne, pr_exists
<1>n. NoView \in Viewings /\ NoView.pc = "idle" BY DEF NoView, Viewings, NoPr, Rows, Names
<1>1. CASE Look(v)
  <2>1. UNCHANGED row /\ Rests BY <1>1 DEF Look
  <2>2. CASE row # NoPr /\ view' = [view EXCEPT ![v] = [pc |-> "fetch", pr |-> row, mine |-> TRUE]]
    <3>1. PICK k \in Viewings : k = [pc |-> "fetch", pr |-> row, mine |-> TRUE] BY <1>t DEF Viewings
    <3>2. k.pc = "fetch" /\ k.pr = row BY <3>1
    <3> QED BY <1>t, <1>o, <2>1, <2>2, <3>1, <3>2, ViewMoves
  <2>3. CASE /\ row = NoPr /\ artifact # 0
             /\ view' = [view EXCEPT ![v] = [pc |-> "insert", mine |-> FALSE,
                                             pr |-> [number |-> artifact, state |-> "open", head |-> NoName]]]
    <3>1. PICK pr \in Rows : pr = [number |-> artifact, state |-> "open", head |-> NoName] BY <1>t DEF Rows, Names
    <3>2. PICK k \in Viewings : k = [pc |-> "insert", mine |-> FALSE, pr |-> pr] BY <3>1 DEF Viewings
    <3>3. k.pc = "insert" /\ k.pr = pr /\ pr.number = artifact /\ pr.head = NoName BY <3>1, <3>2
    <3>4. pr_exists BY <2>3 DEF pr_exists
    <3>5. view' = [view EXCEPT ![v] = k] BY <2>3, <3>1, <3>2
    <3>6. row' \in Rows /\ row' = NoPr /\ row = NoPr BY <1>t, <2>1, <2>3
    <3>7. k.pr.number \in DOMAIN prs /\ k.pr.head = NoName BY <1>t, <2>3, <3>3
    <3>8. OneByOne => row'.head \in {NoName, branch} BY <1>o, <2>1
    <3> QED BY <2>1, <3>3, <3>4, <3>5, <3>6, <3>7, <3>8, ViewMoves
  <2> QED BY <1>1, <2>2, <2>3 DEF Look
<1>2. CASE InsertRow(v)
  <2>1. /\ view[v].pc = "insert" /\ row' = view[v].pr /\ Rests
        /\ view' = [view EXCEPT ![v].pc = "fetch", ![v].mine = (row = NoPr)]
    BY <1>2 DEF InsertRow
  <2>2. PICK b \in BOOLEAN : b = (row = NoPr) OBVIOUS
  <2>3. PICK k \in Viewings : k = [view[v] EXCEPT !.pc = "fetch", !.mine = b] BY <1>t DEF Viewings
  <2>4. k.pc = "fetch" /\ k.pr = view[v].pr BY <1>t, <2>3 DEF Viewings
  <2>5. view' = [view EXCEPT ![v] = k] BY <2>1, <2>2, <2>3
  <2>6. row' \in Rows /\ row'.number \in DOMAIN prs /\ row'.number # 0 BY <1>t, <2>1 DEF Viewings
  <2>7. row' # NoPr BY <2>6 DEF NoPr
  <2> QED BY <1>t, <1>o, <2>1, <2>4, <2>5, <2>6, <2>7, ViewMoves
<1>3. CASE Fetch(v)
  <2>1. /\ view[v].pc = "fetch" /\ UNCHANGED row /\ Rests
        /\ view' = [view EXCEPT ![v].pc = "write", ![v].pr.state = prs[view[v].pr.number].state]
    BY <1>3 DEF Fetch
  <2>2. PICK pull \in Pulls : pull = prs[view[v].pr.number] BY <1>t, <2>1
  <2>3. PICK pr \in Rows : pr = [view[v].pr EXCEPT !.state = pull.state] BY <1>t, <2>2 DEF Viewings, Rows, Pulls
  <2>4. pr.number = view[v].pr.number /\ pr.head = view[v].pr.head BY <1>t, <2>3 DEF Viewings, Rows
  <2>5. PICK k \in Viewings : k = [view[v] EXCEPT !.pc = "write", !.pr = pr] BY <1>t DEF Viewings
  <2>6. k.pc = "write" /\ k.pr = pr BY <1>t, <2>5 DEF Viewings
  <2>7. view' = [view EXCEPT ![v] = k]
    <3>1. k = [view[v] EXCEPT !.pc = "write", !.pr.state = pull.state] BY <1>t, <2>3, <2>5 DEF Viewings, Rows
    <3> QED BY <2>1, <2>2, <3>1
  <2> QED BY <1>t, <1>o, <2>1, <2>4, <2>6, <2>7, ViewMoves
<1>4. CASE WriteRow(v)
  <2>1. /\ view[v].pc = "write" /\ view' = [view EXCEPT ![v] = NoView] /\ Rests
        /\ row' = IF view[v].mine THEN [row EXCEPT !.state = view[v].pr.state, !.head = view[v].pr.head] ELSE row
    BY <1>4 DEF WriteRow
  <2>2. view[v].pr \in Rows BY <1>t DEF Viewings
  <2>3. row' \in Rows /\ row'.number = row.number /\ (row'.head = row.head \/ row'.head = view[v].pr.head)
    BY <1>t, <2>1, <2>2 DEF Rows
  <2>4. row.number \in DOMAIN prs /\ row.number # 0 BY <1>t, <2>1
  <2>5. row' # NoPr BY <2>3, <2>4 DEF NoPr
  <2> QED BY <1>t, <1>n, <1>o, <2>1, <2>3, <2>4, <2>5, ViewMoves
<1>5. CASE ViewFails(v)
  <2>1. view' = [view EXCEPT ![v] = NoView] /\ UNCHANGED row /\ Rests BY <1>5 DEF ViewFails
  <2> QED BY <1>t, <1>n, <1>o, <2>1, ViewMoves
<1> QED BY <1>1, <1>2, <1>3, <1>4, <1>5 DEF ViewStep

LEMMA SettleKeeps ==
    ASSUME Delivered, NEW n \in DOMAIN prs, NEW state \in {"open", "merged", "closed"}, Settle(n, state)
    PROVE  Delivered'
<1>t. prs \in Seq(Pulls) BY DEF Delivered, ShipTypes
<1>1. /\ prs' = [prs EXCEPT ![n].state = state]
      /\ UNCHANGED <<local, branch, row, artifact, ship, view, clashed, asks, lapses>>
  BY DEF Settle, bounds
<1>2. prs[n] \in Pulls BY <1>t
<1>3. PICK p \in Pulls : p = [prs[n] EXCEPT !.state = state] BY <1>2 DEF Pulls
<1>4. p.head = prs[n].head BY <1>2, <1>3 DEF Pulls
<1>5. prs' = [prs EXCEPT ![n] = p] BY <1>1, <1>3
<1>6. prs' \in Seq(Pulls) /\ DOMAIN prs' = DOMAIN prs BY <1>t, <1>5
<1>7. \A m \in DOMAIN prs : prs'[m].head = prs[m].head BY <1>t, <1>4, <1>5
<1>8. prs # <<>> /\ prs' # <<>> BY <1>t, <1>6
<1>9. ShipTypes' BY <1>1, <1>6 DEF Delivered, ShipTypes, At
<1>10. OnGitHub' BY <1>1, <1>6 DEF Delivered, OnGitHub, At
<1>11. Counted' BY <1>1 DEF Delivered, Counted, Shipping, At
<1>12. OneRenames => OneRenames' BY <1>1 DEF OneRenames, Between, Before
<1>13. ASSUME OneByOne PROVE OneByOne'
  <2>1. pr_exists' = pr_exists BY <1>1 DEF pr_exists
  <2>2. \A s \in Ships : ~(At(s, "rename") \/ Between(s)) BY <1>8, <1>13 DEF OneByOne
  <2>3. \A m \in DOMAIN prs' : prs'[m].head = branch BY <1>6, <1>7, <1>13 DEF OneByOne
  <2>4. pr_exists \/ \E s \in Ships : At(s, "keep") BY <1>8, <1>13 DEF OneByOne
  <2> QED BY <1>1, <1>13, <2>1, <2>2, <2>3, <2>4 DEF OneByOne, At, Before, Between
<1>14. LocalFollows => LocalFollows' BY <1>1 DEF LocalFollows, Between
<1> QED BY <1>1, <1>9, <1>10, <1>11, <1>12, <1>13, <1>14 DEF Delivered

LEMMA DeliveredStep ==
    ASSUME Delivered, PrNext \/ UNCHANGED prVars
    PROVE  Delivered'
<1>1. CASE UNCHANGED prVars
  <2>1. UNCHANGED <<local, branch, prs, row, artifact, ship, view, clashed, asks, lapses>>
    BY <1>1 DEF prVars
  <2>2. ShipTypes' BY <2>1 DEF Delivered, ShipTypes, At
  <2>3. OnGitHub' BY <2>1 DEF Delivered, OnGitHub, At
  <2>4. Counted' BY <2>1 DEF Delivered, Counted, Shipping, At
  <2>5. OneRenames => OneRenames' BY <2>1 DEF OneRenames, Between, Before
  <2>6. OneByOne => OneByOne' BY <2>1 DEF OneByOne, At, Before, Between, pr_exists
  <2>7. LocalFollows => LocalFollows' BY <2>1 DEF LocalFollows, Between
  <2> QED BY <2>1, <2>2, <2>3, <2>4, <2>5, <2>6, <2>7 DEF Delivered
<1>2. CASE PrNext BY <1>2, ShipKeeps, ViewKeeps, SettleKeeps DEF PrNext
<1> QED BY <1>1, <1>2

\* BranchAgrees: wherever a ship fails or is dropped short of a lapse the
\* worktree and the run's row name one branch, for any number of ships that
\* come one after another and for two at once; and as long as ships come one
\* after another every open pull request and the row that follows it name it
\* too.
THEOREM BranchAgreesHolds == Spec => []BranchAgrees
<1>1. Delivered /\ [Next]_vars => Delivered' BY DeliveredStep, Parts
<1>2. Init => Delivered
  <2> SUFFICES ASSUME PrInit PROVE Delivered BY DEF Init
  <2>0. NoView \in Viewings /\ NoView.pc = "idle" /\ NoPr \in Rows /\ NoPr.head = NoName
    BY NoShipIsAShipping DEF NoView, Viewings, NoPr, Rows, Names
  <2>1. prs \in Seq(Pulls) /\ (artifact = 0 => prs = <<>>) /\ (artifact # 0 => artifact = 1 /\ DOMAIN prs = {1})
        /\ \A n \in DOMAIN prs : prs[n].head = branch
    <3>1. [head |-> branch, state |-> "open"] \in Pulls BY DEF PrInit, Pulls
    <3> QED BY <3>1 DEF PrInit
  <2>2. \A s \in Ships : ship[s] = NoShip /\ ship[s].pc = "idle" BY NoShipIsAShipping DEF PrInit
  <2>3. \A v \in Views : view[v] = NoView /\ view[v].pc = "idle" BY <2>0 DEF PrInit
  <2>9. ship \in [Ships -> Shippings] /\ view \in [Views -> Viewings] BY <2>0, NoShipIsAShipping DEF PrInit
  <2>10. /\ branch \in Branches /\ local \in Branches /\ artifact \in Nat /\ row \in Rows
         /\ asks \in Nat /\ lapses \in Nat
    BY <2>0 DEF PrInit
  <2>11. clashed \in BOOLEAN BY DEF PrInit
  <2>4. ShipTypes BY <2>1, <2>2, <2>9, <2>10, <2>11 DEF ShipTypes, At
  <2>5. OnGitHub BY <2>1, <2>2, <2>3 DEF PrInit, OnGitHub, At
  <2>6. Counted
    <3>1. Shipping = {} BY <2>2 DEF Shipping, At
    <3> QED BY <3>1, FS_EmptySet DEF PrInit, Counted
  <2>7. OneRenames BY <2>2 DEF PrInit, OneRenames, Between, Before
  <2>8. OneByOne BY <2>0, <2>1, <2>2, <2>3 DEF PrInit, OneByOne, Between, Before, At, pr_exists
  <2>12. LocalFollows BY <2>2 DEF PrInit, LocalFollows, Between
  <2> QED BY <2>4, <2>5, <2>6, <2>7, <2>8, <2>12 DEF Delivered
<1>3. Delivered => BranchAgrees
  BY DEF Delivered, OneRenames, OneByOne, LocalFollows, BranchAgrees, Renaming, Between
<1> QED BY <1>1, <1>2, <1>3, PTL DEF Spec

-----------------------------------------------------------------------------
(* The definitions launches are made of: a row that is gone is absent and, *)
(* shipped, has a tombstone; one request at a table has it for itself; and *)
(* somebody is about to bring the catalog after the agents where it is not.*)

DefPCs == {"idle", "look", "put", "drop", "bury", "unbury", "list", "swap", "scan", "store"}
DefRows == [origin : {"none", "builtin", "custom", "imported"},
            text : {"none", "shipped", "yaml", "null"} \cup Edits]
DefRequests == [pc : DefPCs, op : {"none", "create", "patch", "delete", "import", "restore"}, of : {"none"} \cup Kinds,
                todo : SUBSET DefNames, seen : SUBSET DefNames, row : DefRows,
                list : [DefNames -> DefRows], alone : BOOLEAN]

\* What a request carries suits where it is.
Fits(e) ==
    /\ e.pc # "idle" \/ e.alone => e.of \in Kinds
    /\ e.pc \in {"scan", "store"} => e.of = "skill"
    /\ e.seen # {} => e.pc \in {"scan", "store"}
    /\ e.pc \in {"list", "swap"} => e.of = "agent"
    /\ e.pc = "unbury" => e.op = "restore"
    /\ e.op = "create" => e.row.origin = "none"
    /\ e.op = "restore" => e.of = "agent" /\ e.todo \subseteq Shipped
    /\ e.pc \in {"look", "put", "drop", "bury", "unbury"} => \A m, n \in e.todo : m = n
    /\ e.row.origin = "builtin" /\ e.of # "profile" => e.todo \subseteq Shipped
    /\ e.row.origin = "imported" => e.of = "skill"

Shelved ==
    /\ shelf \in [Kinds -> [DefNames -> DefRows]] /\ catalog \in [DefNames -> DefRows]
    /\ graves \in [Kinds -> SUBSET DefNames] /\ gone \in [Kinds -> SUBSET DefNames]
    /\ back \in [Kinds -> SUBSET DefNames] /\ cut \subseteq DefNames /\ late \subseteq Edits
    /\ up \in BOOLEAN /\ astray \in BOOLEAN

\* A stopped server has no request, and one that is alone has its table.
Orderly ==
    /\ edit \in [Edits -> DefRequests]
    /\ \A r \in Edits : Fits(edit[r]) /\ (~up => edit[r] = NoEdit)
    /\ \A r, o \in Edits : r # o /\ edit[r].alone => edit[o].of # edit[r].of

\* Skills that have a tombstone, will have one, or were to have one.
Tombed == graves["skill"] \cup cut \cup Burying(Edits)

\* DeletedStaysGone, with what keeps a shipped skill away: once the server ran,
\* one whose row is not the shipped one is Tombed, and so is one that a request
\* found so; and no row is back while its tombstone is on its way.
Buried ==
    /\ DeletedStaysGone
    /\ \A n \in Shipped : shelf["skill"][n].origin # "builtin"
                             /\ (up \/ n \in gone["skill"] \/ shelf["skill"][n] # Blank)
                                 => n \in Tombed
    /\ \A r \in Edits : edit[r].of = "skill" =>
          /\ edit[r].pc \in {"put", "drop"} /\ edit[r].row.origin # "builtin" => edit[r].todo \cap Shipped \subseteq Tombed
          /\ edit[r].seen \cap Shipped \subseteq Tombed
    /\ Burying(Edits) \cap back["skill"] = {}

\* CatalogFollows, with who is about to bring the catalog after the table.
Rebuilt ==
    /\ \A r \in Edits \ late : edit[r].pc = "swap" => edit[r].list = shelf["agent"]
    /\ up /\ ~astray => \/ catalog = shelf["agent"]
                        \/ \E r \in Edits : edit[r].of = "agent" /\ edit[r].pc \in {"bury", "list", "swap"}

\* What an import has looked up on its own may still be written.
Unharmed ==
    /\ ~clobbered
    /\ \A r \in Edits : edit[r].alone => \A n \in edit[r].seen : shelf["skill"][n].origin \in Spared

Defined == Shelved /\ Orderly /\ Buried /\ NoForgery /\ Rebuilt /\ Unharmed

LEMMA RowFacts ==
    /\ Blank \in DefRows /\ Shipment \in DefRows /\ Entry \in DefRows
    /\ Blank.origin = "none" /\ Shipment.origin = "builtin" /\ Entry.origin = "custom"
    /\ NoneOf \in [DefNames -> DefRows] /\ Kinds = {"skill", "agent", "profile"}
    /\ PutBack["skill"] = cut /\ PutBack["agent"] = Shipped \cup Configured /\ PutBack["profile"] = Shipped
    /\ NoEdit \in DefRequests /\ Fits(NoEdit) /\ NoEdit.pc = "idle" /\ NoEdit.of = "none"
    /\ ~NoEdit.alone /\ NoEdit.seen = {} /\ Spared = {"none", "imported"}
<1>1. Blank \in DefRows /\ Shipment \in DefRows /\ Entry \in DefRows BY DEF Blank, Shipment, Entry, DefRows
<1>2. Blank.origin = "none" /\ Shipment.origin = "builtin" /\ Entry.origin = "custom" BY DEF Blank, Shipment, Entry
<1>3. NoneOf \in [DefNames -> DefRows] BY <1>1 DEF NoneOf
<1>4. /\ NoEdit.pc = "idle" /\ NoEdit.of = "none" /\ NoEdit.op = "none" /\ NoEdit.todo = {}
      /\ ~NoEdit.alone /\ NoEdit.seen = {} /\ NoEdit.row = Blank
  BY DEF NoEdit
<1>5. NoEdit \in DefRequests BY <1>1, <1>3 DEF NoEdit, DefRequests, DefPCs
<1>6. Fits(NoEdit) BY <1>2, <1>4 DEF Fits
<1>7. /\ PutBack["skill"] = cut /\ PutBack["agent"] = Shipped \cup Configured /\ PutBack["profile"] = Shipped
  BY DEF PutBack
<1> QED BY <1>1, <1>2, <1>3, <1>4, <1>5, <1>6, <1>7 DEF Kinds, Spared

LEMMA DefinedInit == DefInit => Defined
<1> SUFFICES ASSUME DefInit PROVE Defined OBVIOUS
<1>1. /\ shelf = [t \in Kinds |-> NoneOf] /\ graves = [t \in Kinds |-> {}] /\ gone = [t \in Kinds |-> {}]
      /\ back = [t \in Kinds |-> {}] /\ cut = {} /\ late = {}
      /\ catalog = NoneOf /\ edit = [r \in Edits |-> NoEdit] /\ up = FALSE /\ astray = FALSE /\ clobbered = FALSE
  BY DEF DefInit
<1>2. Shelved BY <1>1, RowFacts DEF Shelved
<1>3. Orderly BY <1>1, RowFacts DEF Orderly
<1>4. Buried
  <2>1. DeletedStaysGone BY <1>1 DEF DeletedStaysGone
  <2>2. \A n \in Shipped : shelf["skill"][n] = Blank /\ n \notin gone["skill"]
    BY <1>1, DefinitionAssumption DEF NoneOf, Kinds
  <2>3. Burying(Edits) \cap back["skill"] = {} BY <1>1 DEF Kinds
  <2> QED BY <1>1, <2>1, <2>2, <2>3, RowFacts DEF Buried
<1>5. NoForgery BY <1>1, RowFacts DEF NoForgery, NoneOf
<1>6. Rebuilt BY <1>1, RowFacts DEF Rebuilt
<1>7. Unharmed BY <1>1, RowFacts DEF Unharmed
<1> QED BY <1>2, <1>3, <1>4, <1>5, <1>6, <1>7 DEF Defined

\* A request at work has its server.
LEMMA AtWork ==
    ASSUME Defined, NEW r \in Edits, edit[r].pc # "idle"
    PROVE  up /\ edit[r] \in DefRequests /\ Fits(edit[r]) /\ edit[r].of \in Kinds
BY RowFacts DEF Defined, Orderly, Fits

\* One request goes on to k, at its table or at none.
LEMMA GoesOnOrderly ==
    ASSUME Orderly, NEW r \in Edits, NEW k \in DefRequests, GoesOn(r, k), Fits(k), up, UNCHANGED up,
           k.alone => edit[r].alone /\ k.of = edit[r].of, k.of \in {edit[r].of, "none"}
    PROVE  /\ Orderly'
           /\ edit' \in [Edits -> DefRequests] /\ edit'[r] = k
           /\ \A o \in Edits \ {r} : edit'[o] = edit[o]
<1>1. edit' \in [Edits -> DefRequests] /\ edit'[r] = k /\ \A o \in Edits \ {r} : edit'[o] = edit[o]
  BY DEF Orderly, GoesOn
<1>2. \A o \in Edits : Fits(edit'[o]) BY <1>1 DEF Orderly
<1>3. ASSUME NEW a \in Edits, NEW o \in Edits, a # o, edit'[a].alone PROVE edit'[o].of # edit'[a].of
  <2>1. edit[a].alone /\ edit'[a].of = edit[a].of BY <1>1, <1>3
  <2>2. edit[o].of # edit[a].of BY <2>1, <1>3 DEF Orderly
  <2>3. edit[a].of \in Kinds BY <2>1 DEF Orderly, Fits
  <2> QED BY <1>1, <2>1, <2>2, <2>3 DEF Kinds
<1> QED BY <1>1, <1>2, <1>3 DEF Orderly

\* What is about to be buried, before and after one request went on to k.
LEMMA BuryingOn ==
    ASSUME NEW r \in Edits, NEW k, edit'[r] = k, \A o \in Edits \ {r} : edit'[o] = edit[o]
    PROVE  /\ \A n : n \in Burying(Edits) <=> \E o \in Edits : edit[o].of = "skill" /\ edit[o].pc = "bury" /\ n \in edit[o].todo
           /\ \A n : n \in Burying(Edits)' <=> \E o \in Edits : edit'[o].of = "skill" /\ edit'[o].pc = "bury" /\ n \in edit'[o].todo
           /\ \A n \in Burying(Edits)' : n \in Burying(Edits) \/ (k.of = "skill" /\ k.pc = "bury" /\ n \in k.todo)
           /\ \A n \in Burying(Edits) : n \in Burying(Edits)' \/ (edit[r].of = "skill" /\ edit[r].pc = "bury" /\ n \in edit[r].todo)
           /\ \A n : n \in Burying({r}) <=> edit[r].of = "skill" /\ edit[r].pc = "bury" /\ n \in edit[r].todo
           /\ edit[r].pc # "bury" /\ k.pc # "bury" => Burying(Edits)' = Burying(Edits)
<1>1. \A n : n \in Burying(Edits) <=> \E o \in Edits : edit[o].of = "skill" /\ edit[o].pc = "bury" /\ n \in edit[o].todo
  BY DEF Burying
<1>2. \A n : n \in Burying(Edits)' <=> \E o \in Edits : edit'[o].of = "skill" /\ edit'[o].pc = "bury" /\ n \in edit'[o].todo
  BY DEF Burying
<1>3. \A n : n \in Burying({r}) <=> edit[r].of = "skill" /\ edit[r].pc = "bury" /\ n \in edit[r].todo
  BY DEF Burying
<1>4. ASSUME NEW n, n \in Burying(Edits)'
      PROVE  n \in Burying(Edits) \/ (k.of = "skill" /\ k.pc = "bury" /\ n \in k.todo)
  <2>1. PICK o \in Edits : edit'[o].of = "skill" /\ edit'[o].pc = "bury" /\ n \in edit'[o].todo BY <1>2, <1>4
  <2>2. CASE o = r BY <2>1, <2>2
  <2>3. CASE o # r BY <1>1, <2>1, <2>3
  <2> QED BY <2>2, <2>3
<1>5. ASSUME NEW n, n \in Burying(Edits)
      PROVE  n \in Burying(Edits)' \/ (edit[r].of = "skill" /\ edit[r].pc = "bury" /\ n \in edit[r].todo)
  <2>1. PICK o \in Edits : edit[o].of = "skill" /\ edit[o].pc = "bury" /\ n \in edit[o].todo BY <1>1, <1>5
  <2>2. CASE o = r BY <2>1, <2>2
  <2>3. CASE o # r BY <1>2, <2>1, <2>3
  <2> QED BY <2>2, <2>3
<1>6. ASSUME edit[r].pc # "bury", k.pc # "bury" PROVE Burying(Edits)' = Burying(Edits)
  <2>1. \A n : n \in Burying(Edits)' <=> n \in Burying(Edits) BY <1>4, <1>5, <1>6
  <2> QED BY <2>1
<1> QED BY <1>1, <1>2, <1>3, <1>4, <1>5, <1>6

\* What a request that goes on to k has found keeps its tombstone.
LEMMA FoundOn ==
    ASSUME Buried, NEW r \in Edits, NEW k, edit'[r] = k, \A o \in Edits \ {r} : edit'[o] = edit[o],
           Tombed \subseteq Tombed',
           k.of = "skill" =>
              /\ k.pc \in {"put", "drop"} /\ k.row.origin # "builtin" => k.todo \cap Shipped \subseteq Tombed
              /\ k.seen \cap Shipped \subseteq Tombed
    PROVE  \A o \in Edits : edit'[o].of = "skill" =>
              /\ edit'[o].pc \in {"put", "drop"} /\ edit'[o].row.origin # "builtin"
                     => edit'[o].todo \cap Shipped \subseteq Tombed'
              /\ edit'[o].seen \cap Shipped \subseteq Tombed'
<1>1. ASSUME NEW o \in Edits, o # r, edit'[o].of = "skill"
      PROVE  /\ edit'[o].pc \in {"put", "drop"} /\ edit'[o].row.origin # "builtin"
                    => edit'[o].todo \cap Shipped \subseteq Tombed'
             /\ edit'[o].seen \cap Shipped \subseteq Tombed'
  <2>1. edit'[o] = edit[o] BY <1>1
  <2> QED BY <1>1, <2>1 DEF Buried
<1> QED BY <1>1

\* A request that reads goes on to k: nothing it leaves behind is disturbed.
LEMMA ReadsOn ==
    ASSUME Defined, NEW r \in Edits, edit[r].pc \notin {"idle", "bury"}, NEW k \in DefRequests, GoesOn(r, k), Fits(k),
           k.alone => edit[r].alone /\ k.of = edit[r].of, k.of \in {edit[r].of, "none"},
           UNCHANGED <<shelf, catalog, up, deletes, rebuilds, clobbered>>,
           graves' \in [Kinds -> SUBSET DefNames], graves'["skill"] = graves["skill"],
           k.alone => k.seen \subseteq edit[r].seen \/ \A n \in k.seen : shelf["skill"][n].origin \in Spared,
           k.pc = "swap" => k.list = shelf["agent"], k.pc # "bury",
           k.of = "skill" =>
              /\ k.pc \in {"put", "drop"} /\ k.row.origin # "builtin" => k.todo \cap Shipped \subseteq Tombed
              /\ k.seen \cap Shipped \subseteq Tombed,
           edit[r].of = "agent" /\ edit[r].pc \in {"list", "swap"} => k.of = "agent" /\ k.pc \in {"list", "swap"}
    PROVE  Defined'
<1>0. UNCHANGED <<shelf, catalog, up, gone, back, cut, late, astray, clobbered>> BY DEF deletes, rebuilds
<1>1. up BY AtWork
<1>2. /\ Orderly' /\ edit' \in [Edits -> DefRequests] /\ edit'[r] = k
      /\ \A o \in Edits \ {r} : edit'[o] = edit[o]
  BY <1>0, <1>1, GoesOnOrderly DEF Defined
<1>3. Shelved' BY <1>0 DEF Defined, Shelved
<1>4. Buried'
  <2>1. Burying(Edits)' = Burying(Edits) BY <1>2, BuryingOn
  <2>2. Tombed' = Tombed BY <1>0, <2>1 DEF Tombed
  <2>3. Buried BY DEF Defined
  <2>4. \A o \in Edits : edit'[o].of = "skill" =>
           /\ edit'[o].pc \in {"put", "drop"} /\ edit'[o].row.origin # "builtin"
                  => edit'[o].todo \cap Shipped \subseteq Tombed'
           /\ edit'[o].seen \cap Shipped \subseteq Tombed'
    BY <1>2, <2>2, <2>3, FoundOn
  <2>5. DeletedStaysGone' BY <1>0, <2>3 DEF Buried, DeletedStaysGone, PutBack
  <2> QED BY <1>0, <2>1, <2>2, <2>3, <2>4, <2>5 DEF Buried
<1>5. NoForgery' BY <1>0 DEF Defined, NoForgery
<1>6. Rebuilt'
  <2>1. \A o \in Edits \ late' : edit'[o].pc = "swap" => edit'[o].list = shelf'["agent"]
    BY <1>0, <1>2 DEF Defined, Rebuilt
  <2>2. ASSUME NEW o \in Edits, edit[o].of = "agent", edit[o].pc \in {"bury", "list", "swap"}
        PROVE  edit'[o].of = "agent" /\ edit'[o].pc \in {"bury", "list", "swap"}
    BY <1>2, <2>2
  <2>3. up' /\ ~astray' => \/ catalog' = shelf'["agent"]
                           \/ \E o \in Edits : edit'[o].of = "agent" /\ edit'[o].pc \in {"bury", "list", "swap"}
    BY <1>0, <2>2 DEF Defined, Rebuilt
  <2> QED BY <2>1, <2>3 DEF Rebuilt
<1>7. Unharmed'
  <2>1. ASSUME NEW o \in Edits, edit'[o].alone, NEW n \in edit'[o].seen PROVE shelf["skill"][n].origin \in Spared
    <3>1. CASE o = r BY <1>2, <2>1, <3>1 DEF Defined, Unharmed
    <3>2. CASE o # r BY <1>2, <2>1, <3>2 DEF Defined, Unharmed
    <3> QED BY <3>1, <3>2
  <2> QED BY <1>0, <2>1 DEF Defined, Unharmed
<1> QED BY <1>2, <1>3, <1>4, <1>5, <1>6, <1>7 DEF Defined

\* A request writes row n of its table and goes on to k.
LEMMA WritesRow ==
    ASSUME Defined, NEW r \in Edits, edit[r].pc \notin {"idle", "bury"}, NEW n \in DefNames, NEW written \in DefRows,
           NEW k \in DefRequests, GoesOn(r, k), Fits(k),
           k.alone => edit[r].alone /\ k.of = edit[r].of, k.of \in {edit[r].of, "none"},
           Shelve(edit[r].of, n, written), UNCHANGED <<catalog, up, graves>>, ~clobbered',
           edit[r].of # "profile" /\ written.origin = "builtin" => n \in Shipped,
           written.origin = "imported" => edit[r].of = "skill",
           edit[r].of = "agent" => k.of = "agent" /\ k.pc \in {"bury", "list"},
           k.pc # "swap",
           k.alone => k.seen \subseteq edit[r].seen,
           k.alone /\ k.seen # {} => written.origin \in Spared,
           edit[r].of = "skill" /\ n \in Shipped /\ written.origin # "builtin"
               => n \in Tombed \/ (k.of = "skill" /\ k.pc = "bury" /\ n \in k.todo),
           k.of = "skill" => k.pc \notin {"put", "drop"} /\ k.seen \cap Shipped \subseteq Tombed,
           k.of = "skill" /\ k.pc = "bury" => k.todo \subseteq {n}
    PROVE  Defined'
<1> DEFINE t0 == edit[r].of
<1>0. /\ shelf' = [shelf EXCEPT ![t0] = [@ EXCEPT ![n] = written]]
      /\ gone' = [gone EXCEPT ![t0] = IF written = Blank THEN @ \cup {n} ELSE @ \ {n}]
      /\ back' = [back EXCEPT ![t0] = @ \ {n}]
      /\ late' = IF t0 = "agent" THEN late \cup {o \in Edits : edit[o].pc = "swap"} ELSE late
      /\ UNCHANGED <<catalog, up, graves, cut, astray>>
  BY DEF Shelve
<1>1. up /\ t0 \in Kinds BY AtWork
<1>2. /\ Orderly' /\ edit' \in [Edits -> DefRequests] /\ edit'[r] = k
      /\ \A o \in Edits \ {r} : edit'[o] = edit[o]
  BY <1>0, <1>1, GoesOnOrderly DEF Defined
<1>3. /\ shelf' \in [Kinds -> [DefNames -> DefRows]] /\ shelf'[t0][n] = written
      /\ \A t \in Kinds : \A m \in DefNames : t # t0 \/ m # n => shelf'[t][m] = shelf[t][m]
      /\ \A t \in Kinds \ {t0} : shelf'[t] = shelf[t]
  <2> DEFINE line == [shelf[t0] EXCEPT ![n] = written]
  <2>1. shelf \in [Kinds -> [DefNames -> DefRows]] BY DEF Defined, Shelved
  <2>2. /\ line \in [DefNames -> DefRows] /\ line[n] = written
        /\ \A m \in DefNames \ {n} : line[m] = shelf[t0][m]
    BY <1>1, <2>1
  <2>3. shelf' = [shelf EXCEPT ![t0] = line] BY <1>0
  <2> HIDE DEF line, t0
  <2>4. shelf' \in [Kinds -> [DefNames -> DefRows]] /\ shelf'[t0] = line
    BY <1>1, <2>1, <2>2, <2>3
  <2>5. \A t \in Kinds \ {t0} : shelf'[t] = shelf[t] BY <1>1, <2>1, <2>3
  <2> QED BY <2>2, <2>4, <2>5
<1>31. /\ gone' \in [Kinds -> SUBSET DefNames] /\ back' \in [Kinds -> SUBSET DefNames] /\ late' \subseteq Edits
       /\ \A t \in Kinds : \A m \in gone'[t] : m \in gone[t] \/ (t = t0 /\ m = n)
       /\ n \in gone'[t0] => written = Blank
       /\ \A t \in Kinds : back'[t] \subseteq back[t]
       /\ n \notin back'[t0]
  <2>1. /\ gone \in [Kinds -> SUBSET DefNames] /\ back \in [Kinds -> SUBSET DefNames] /\ late \subseteq Edits
    BY DEF Defined, Shelved
  <2> HIDE DEF t0
  <2>2. /\ back' \in [Kinds -> SUBSET DefNames] /\ n \notin back'[t0] /\ \A t \in Kinds : back'[t] \subseteq back[t]
    BY <1>0, <1>1, <2>1
  <2>3. CASE written = Blank
    <3>1. gone' = [gone EXCEPT ![t0] = @ \cup {n}] BY <1>0, <2>3
    <3> QED BY <1>0, <1>1, <2>1, <2>2, <2>3, <3>1
  <2>4. CASE written # Blank
    <3>1. gone' = [gone EXCEPT ![t0] = @ \ {n}] BY <1>0, <2>4
    <3> QED BY <1>0, <1>1, <2>1, <2>2, <2>4, <3>1
  <2> QED BY <2>3, <2>4
<1>4. Shelved' BY <1>0, <1>3, <1>31 DEF Defined, Shelved
<1> HIDE DEF t0
<1>5. Buried'
  <2>0. "skill" \in Kinds /\ Buried BY DEF Kinds, Defined
  <2>1. /\ \A m \in Burying(Edits)' : m \in Burying(Edits) \/ (k.of = "skill" /\ k.pc = "bury" /\ m \in k.todo)
        /\ \A m \in Burying(Edits) : m \in Burying(Edits)'
        /\ k.of = "skill" /\ k.pc = "bury" => k.todo \subseteq Burying(Edits)'
    BY <1>2, BuryingOn
  <2>2. Tombed \subseteq Tombed' /\ (k.of = "skill" /\ k.pc = "bury" => k.todo \subseteq Tombed')
    BY <1>0, <2>1 DEF Tombed
  <2>3. \A o \in Edits : edit'[o].of = "skill" =>
           /\ edit'[o].pc \in {"put", "drop"} /\ edit'[o].row.origin # "builtin"
                  => edit'[o].todo \cap Shipped \subseteq Tombed'
           /\ edit'[o].seen \cap Shipped \subseteq Tombed'
    BY <1>2, <2>0, <2>2, FoundOn
  <2>4. ASSUME NEW t \in Kinds, NEW m \in gone'[t] PROVE shelf'[t][m] = Blank
    <3>1. m \in DefNames BY <1>31, <2>4
    <3>2. CASE t = t0 /\ m = n BY <1>3, <1>31, <2>4, <3>2
    <3>3. CASE t # t0 \/ m # n
      <4>1. m \in gone[t] BY <1>31, <2>4, <3>3
      <4>2. shelf[t][m] = Blank BY <2>0, <4>1 DEF Buried, DeletedStaysGone
      <4> QED BY <1>3, <3>1, <3>3, <4>2
    <3> QED BY <3>2, <3>3
  <2>5. \A t \in Kinds : back'[t] \subseteq PutBack'[t]
    <3>1. PutBack' = PutBack BY <1>0 DEF PutBack
    <3>2. \A t \in Kinds : back[t] \subseteq PutBack[t] BY <2>0 DEF Buried, DeletedStaysGone
    <3> QED BY <1>31, <3>1, <3>2
  <2>6. DeletedStaysGone' BY <2>4, <2>5 DEF DeletedStaysGone
  <2>7. ASSUME NEW m \in Shipped, shelf'["skill"][m].origin # "builtin" PROVE m \in Tombed'
    <3>1. m \in DefNames BY DefinitionAssumption
    <3>2. CASE t0 = "skill" /\ m = n BY <1>3, <2>2, <2>7, <3>2 DEF t0
    <3>3. CASE t0 # "skill" \/ m # n
      <4>1. shelf'["skill"][m] = shelf["skill"][m] BY <1>3, <2>0, <3>1, <3>3
      <4>2. m \in Tombed BY <1>1, <2>0, <2>7, <4>1 DEF Buried
      <4> QED BY <2>2, <4>2
    <3> QED BY <3>2, <3>3
  <2>8. Burying(Edits)' \cap back'["skill"] = {}
    <3>1. ASSUME NEW m \in Burying(Edits)', m \in back'["skill"] PROVE FALSE
      <4>1. m \in back["skill"] BY <1>31, <2>0, <3>1
      <4>2. m \notin Burying(Edits) BY <2>0, <4>1 DEF Buried
      <4>3. m = n /\ k.of = "skill" BY <2>1, <3>1, <4>2
      <4>4. t0 = "skill" BY <1>1, <4>3 DEF t0
      <4> QED BY <1>31, <3>1, <4>3, <4>4
    <3> QED BY <3>1
  <2> QED BY <2>3, <2>6, <2>7, <2>8 DEF Buried
<1>6. NoForgery'
  <2>1. ASSUME NEW m \in DefNames, NEW t \in {"skill", "agent"}, shelf'[t][m].origin = "builtin"
        PROVE  m \in Shipped
    <3>1. t \in Kinds /\ t # "profile" BY DEF Kinds
    <3>2. CASE t = t0 /\ m = n BY <1>3, <2>1, <3>1, <3>2 DEF t0
    <3>3. CASE t # t0 \/ m # n
      <4>1. shelf[t][m].origin = "builtin" BY <1>3, <2>1, <3>1, <3>3
      <4> QED BY <4>1, <2>1 DEF Defined, NoForgery
    <3> QED BY <3>2, <3>3
  <2>2. ASSUME NEW m \in DefNames, NEW t \in {"agent", "profile"} PROVE shelf'[t][m].origin # "imported"
    <3>1. t \in Kinds /\ t # "skill" BY DEF Kinds
    <3>2. CASE t = t0 /\ m = n BY <1>3, <2>2, <3>1, <3>2 DEF t0
    <3>3. CASE t # t0 \/ m # n
      <4>1. shelf'[t][m] = shelf[t][m] BY <1>3, <2>2, <3>1, <3>3
      <4> QED BY <4>1, <2>2 DEF Defined, NoForgery
    <3> QED BY <3>2, <3>3
  <2> QED BY <2>1, <2>2 DEF NoForgery
<1>7. Rebuilt'
  <2>1. ASSUME NEW o \in Edits \ late', edit'[o].pc = "swap" PROVE edit'[o].list = shelf'["agent"]
    <3>1. o # r /\ edit'[o] = edit[o] BY <1>2, <2>1
    <3>2. t0 # "agent" /\ o \notin late BY <1>0, <2>1, <3>1 DEF t0
    <3>3. shelf'["agent"] = shelf["agent"] BY <1>3, <3>2 DEF Kinds
    <3> QED BY <2>1, <3>1, <3>2, <3>3 DEF Defined, Rebuilt
  <2>2. up' /\ ~astray' => \/ catalog' = shelf'["agent"]
                           \/ \E o \in Edits : edit'[o].of = "agent" /\ edit'[o].pc \in {"bury", "list", "swap"}
    <3>1. CASE t0 = "agent" BY <1>2, <3>1 DEF t0
    <3>2. CASE t0 # "agent"
      <4>1. shelf'["agent"] = shelf["agent"] BY <1>3, <3>2 DEF Kinds
      <4>2. \A o \in Edits : edit[o].of = "agent" => edit'[o] = edit[o] BY <1>2, <3>2 DEF t0
      <4> QED BY <1>0, <4>1, <4>2 DEF Defined, Rebuilt
    <3> QED BY <3>1, <3>2
  <2> QED BY <2>1, <2>2 DEF Rebuilt
<1>8. Unharmed'
  <2>1. ASSUME NEW o \in Edits, edit'[o].alone, NEW m \in edit'[o].seen
        PROVE  shelf'["skill"][m].origin \in Spared
    <3>0. m \in DefNames /\ "skill" \in Kinds BY <1>2, <2>1 DEF DefRequests, Kinds
    <3>1. CASE o = r
      <4>1. m \in edit[r].seen /\ edit[r].alone /\ written.origin \in Spared BY <1>2, <2>1, <3>1
      <4>2. shelf["skill"][m].origin \in Spared BY <4>1 DEF Defined, Unharmed
      <4> QED BY <1>3, <3>0, <4>1, <4>2
    <3>2. CASE o # r
      <4>1. edit'[o] = edit[o] BY <1>2, <3>2
      <4>2. edit[o].of = "skill" BY <2>1, <4>1 DEF Defined, Orderly, Fits
      <4>3. t0 # "skill" BY <2>1, <3>2, <4>1, <4>2 DEF Defined, Orderly, t0
      <4>4. shelf'["skill"] = shelf["skill"] BY <1>3, <3>0, <4>3
      <4> QED BY <2>1, <4>1, <4>4 DEF Defined, Unharmed
    <3> QED BY <3>1, <3>2
  <2> QED BY <2>1 DEF Unharmed
<1> QED BY <1>2, <1>4, <1>5, <1>6, <1>7, <1>8 DEF Defined

LEMMA LookUpKeeps == ASSUME Defined, NEW r \in Edits, NEW n \in DefNames, LookUp(r, n) PROVE Defined'
<1> DEFINE e == edit[r]
           found == shelf[e.of][n]
           k == IF Proceeds(e.op, e.of, found)
                THEN [e EXCEPT !.pc = IF e.op = "delete" THEN "drop" ELSE "put", !.row = found] ELSE NoEdit
<1>1. /\ e.pc = "look" /\ n \in e.todo /\ GoesOn(r, k)
      /\ UNCHANGED <<shelf, graves, catalog, up, deletes, rebuilds, clobbered>>
  BY DEF LookUp, Done, defCounts
<1>2. up /\ e \in DefRequests /\ Fits(e) /\ e.of \in Kinds BY <1>1, AtWork
<1>3. found \in DefRows BY <1>2 DEF Defined, Shelved
<1>4. /\ found.origin = "builtin" /\ e.of # "profile" => n \in Shipped
      /\ found.origin = "imported" => e.of = "skill"
  BY <1>2 DEF Defined, NoForgery, Kinds
<1>5. k \in DefRequests /\ Fits(k) /\ (k = NoEdit \/ (k.of = e.of /\ k.alone = e.alone /\ k.seen = e.seen))
      /\ k.pc # "swap"
  <2>1. CASE k = NoEdit BY <2>1, RowFacts
  <2>2. CASE /\ k = [e EXCEPT !.pc = IF e.op = "delete" THEN "drop" ELSE "put", !.row = found]
             /\ Proceeds(e.op, e.of, found)
    <3>0. e.op = "create" => found.origin = "none" BY <2>2, RowFacts DEF Proceeds
    <3>1. k \in DefRequests BY <1>2, <1>3, <2>2 DEF DefRequests, DefPCs
    <3>2. /\ k.of = e.of /\ k.alone = e.alone /\ k.seen = e.seen /\ k.op = e.op /\ k.todo = e.todo
          /\ k.row = found /\ k.pc \in {"drop", "put"}
      BY <1>2, <2>2 DEF DefRequests
    <3>3. e.todo = {n} /\ e.seen = {} BY <1>1, <1>2 DEF Fits
    <3> HIDE DEF k, e, found
    <3>4. Fits(k) BY <1>2, <1>4, <3>0, <3>2, <3>3 DEF Fits
    <3> QED BY <3>1, <3>2, <3>4
  <2> QED BY <2>1, <2>2
<1>6. graves \in [Kinds -> SUBSET DefNames] BY DEF Defined, Shelved
<1>7. /\ e.seen = {} /\ e.todo = {n} /\ k.seen = {} /\ k.pc # "bury"
      /\ k.of = "skill" => e.of = "skill" /\ k.todo = {n} /\ k.row = found
  <2>1. CASE k = NoEdit BY <1>1, <1>2, <2>1, RowFacts DEF Fits
  <2>2. CASE k = [e EXCEPT !.pc = IF e.op = "delete" THEN "drop" ELSE "put", !.row = found]
    <3>1. /\ k.of = e.of /\ k.seen = e.seen /\ k.todo = e.todo /\ k.row = found /\ k.pc \in {"drop", "put"}
      BY <1>2, <2>2 DEF DefRequests
    <3>2. e.todo = {n} /\ e.seen = {} BY <1>1, <1>2 DEF Fits
    <3> HIDE DEF k, e, found
    <3> QED BY <3>1, <3>2
  <2> QED BY <2>1, <2>2
<1>20. k.of = "skill" =>
          /\ k.pc \in {"put", "drop"} /\ k.row.origin # "builtin" => k.todo \cap Shipped \subseteq Tombed
          /\ k.seen \cap Shipped \subseteq Tombed
  <2>1. ASSUME e.of = "skill", n \in Shipped, found.origin # "builtin" PROVE n \in Tombed
    BY <1>2, <2>1 DEF Defined, Buried
  <2> HIDE DEF k, found
  <2> QED BY <1>7, <2>1
<1>8. (k.alone => e.alone /\ k.of = e.of /\ k.seen \subseteq e.seen) /\ k.of \in {e.of, "none"} BY <1>5, RowFacts
<1>9. e.pc \notin {"idle", "bury", "list", "swap"} BY <1>1
<1> HIDE DEF k
<1> QED BY <1>1, <1>2, <1>5, <1>6, <1>7, <1>8, <1>9, <1>20, ReadsOn

LEMMA ScanKeeps == ASSUME Defined, NEW r \in Edits, NEW n \in DefNames, Scan(r, n) PROVE Defined'
<1> DEFINE e == edit[r]
           k == IF shelf["skill"][n].origin \in Spared
                THEN [e EXCEPT !.todo = @ \ {n}, !.seen = @ \cup {n}, !.pc = IF e.todo = {n} THEN "store" ELSE "scan"]
                ELSE NoEdit
<1>1. /\ e.pc = "scan" /\ n \in e.todo /\ GoesOn(r, k)
      /\ UNCHANGED <<shelf, graves, catalog, up, deletes, rebuilds, clobbered>>
  BY DEF Scan, Done, defCounts
<1>2. up /\ e \in DefRequests /\ Fits(e) /\ e.of = "skill"
  <2>1. up /\ e \in DefRequests /\ Fits(e) BY <1>1, AtWork
  <2> QED BY <1>1, <2>1 DEF Fits
<1>3. k \in DefRequests /\ Fits(k)
      /\ (k = NoEdit \/ /\ k.of = e.of /\ k.alone = e.alone /\ k.seen = e.seen \cup {n}
                        /\ shelf["skill"][n].origin \in Spared)
      /\ k.pc # "swap"
  <2>1. CASE k = NoEdit BY <2>1, RowFacts
  <2>2. CASE /\ k = [e EXCEPT !.todo = @ \ {n}, !.seen = @ \cup {n}, !.pc = IF e.todo = {n} THEN "store" ELSE "scan"]
             /\ shelf["skill"][n].origin \in Spared
    <3>1. k \in DefRequests BY <1>2, <2>2 DEF DefRequests, DefPCs
    <3>2. /\ k.of = e.of /\ k.alone = e.alone /\ k.seen = e.seen \cup {n} /\ k.op = e.op /\ k.todo \subseteq e.todo
          /\ k.row = e.row /\ k.pc \in {"scan", "store"}
      BY <1>2, <2>2 DEF DefRequests
    <3>4. Fits(k) BY <1>2, <3>2 DEF Fits, Kinds
    <3> QED BY <3>1, <3>2, <3>4, <2>2
  <2> QED BY <2>1, <2>2
<1>4. graves \in [Kinds -> SUBSET DefNames] BY DEF Defined, Shelved
<1>5. k.alone => \A m \in k.seen : shelf["skill"][m].origin \in Spared
  BY <1>3, RowFacts DEF Defined, Unharmed
<1>6. (k.alone => e.alone /\ k.of = e.of) /\ k.of \in {e.of, "none"} /\ k.pc \notin {"put", "drop", "bury"}
  <2>1. CASE k = NoEdit BY <2>1, RowFacts
  <2>2. CASE k = [e EXCEPT !.todo = @ \ {n}, !.seen = @ \cup {n}, !.pc = IF e.todo = {n} THEN "store" ELSE "scan"]
    <3>1. k.pc \in {"scan", "store"} /\ k.of = e.of /\ k.alone = e.alone BY <1>2, <2>2 DEF DefRequests
    <3> QED BY <3>1
  <2> QED BY <2>1, <2>2
<1>20. k.of = "skill" =>
          /\ k.pc \in {"put", "drop"} /\ k.row.origin # "builtin" => k.todo \cap Shipped \subseteq Tombed
          /\ k.seen \cap Shipped \subseteq Tombed
  <2>1. CASE k = NoEdit BY <2>1, RowFacts
  <2>2. CASE k.seen = e.seen \cup {n} /\ shelf["skill"][n].origin \in Spared
    <3>1. n \in Shipped => n \in Tombed BY <1>2, <2>2 DEF Defined, Buried, Spared
    <3>2. e.seen \cap Shipped \subseteq Tombed BY <1>2 DEF Defined, Buried
    <3> HIDE DEF k
    <3> QED BY <1>6, <2>2, <3>1, <3>2
  <2> QED BY <1>3, <2>1, <2>2
<1>7. e.pc \notin {"bury", "list", "swap"} /\ e.pc # "idle" BY <1>1
<1> HIDE DEF k
<1> QED BY <1>1, <1>2, <1>3, <1>4, <1>5, <1>6, <1>7, <1>20, ReadsOn

LEMMA UnburyKeeps == ASSUME Defined, NEW r \in Edits, Unbury(r) PROVE Defined'
<1> DEFINE e == edit[r]
           k == [e EXCEPT !.pc = "put"]
<1>1. /\ e.pc = "unbury" /\ GoesOn(r, k) /\ graves' = [graves EXCEPT !["agent"] = @ \ e.todo]
      /\ UNCHANGED <<shelf, catalog, up, deletes, rebuilds, clobbered>>
  BY DEF Unbury, Step, defCounts
<1>2. up /\ e \in DefRequests /\ Fits(e) BY <1>1, AtWork
<1>3. k \in DefRequests /\ k.of = e.of /\ k.alone = e.alone /\ k.seen = e.seen /\ k.op = e.op /\ k.todo = e.todo
      /\ k.row = e.row /\ k.pc = "put"
  BY <1>2 DEF DefRequests, DefPCs
<1>4. Fits(k) BY <1>1, <1>2, <1>3 DEF Fits
<1>5. graves' \in [Kinds -> SUBSET DefNames] /\ graves'["skill"] = graves["skill"]
  BY <1>1 DEF Defined, Shelved, Kinds
<1>6. k.of = "agent"
  <2>1. edit[r].pc = "unbury" => edit[r].op = "restore" BY DEF Defined, Orderly, Fits
  <2> QED BY <1>1, <1>2, <1>3, <2>1 DEF Fits
<1> HIDE DEF k
<1> QED BY <1>1, <1>2, <1>3, <1>4, <1>5, <1>6, ReadsOn

LEMMA ListAgentsKeeps == ASSUME Defined, NEW r \in Edits, ListAgents(r) PROVE Defined'
<1> DEFINE e == edit[r]
           k == [e EXCEPT !.pc = "swap", !.list = shelf["agent"]]
<1>1. /\ e.pc = "list" /\ GoesOn(r, k) /\ UNCHANGED <<shelf, graves, catalog, up, deletes, rebuilds, clobbered>>
  BY DEF ListAgents, defCounts
<1>2. up /\ e \in DefRequests /\ Fits(e) /\ e.of = "agent"
  <2>1. up /\ e \in DefRequests /\ Fits(e) BY <1>1, AtWork
  <2> QED BY <1>1, <2>1 DEF Fits
<1>3. shelf["agent"] \in [DefNames -> DefRows] /\ graves \in [Kinds -> SUBSET DefNames]
  BY DEF Defined, Shelved, Kinds
<1>4. k \in DefRequests /\ k.of = e.of /\ k.alone = e.alone /\ k.seen = e.seen /\ k.op = e.op /\ k.todo = e.todo
      /\ k.row = e.row /\ k.pc = "swap" /\ k.list = shelf["agent"]
  BY <1>2, <1>3 DEF DefRequests, DefPCs
<1>5. Fits(k) BY <1>1, <1>2, <1>4 DEF Fits
<1> HIDE DEF k
<1> QED BY <1>1, <1>2, <1>3, <1>4, <1>5, ReadsOn

\* After a change an agent's request brings the catalog after it; others end.
LEMMA ChangedGoesOn ==
    ASSUME NEW r \in Edits, edit[r] \in DefRequests, Fits(edit[r]), edit[r].of \in Kinds, Changed(r)
    PROVE  \E k \in DefRequests :
              /\ GoesOn(r, k) /\ Fits(k)
              /\ k.alone => edit[r].alone /\ k.of = edit[r].of /\ k.seen = edit[r].seen
              /\ k.of \in {edit[r].of, "none"} /\ k.of # "skill" /\ k.pc \in {"idle", "list"}
              /\ edit[r].of = "agent" => k.of = "agent" /\ k.pc = "list"
<1> DEFINE e == edit[r]
           k == [e EXCEPT !.pc = "list"]
<1>1. CASE e.of = "agent"
  <2>1. GoesOn(r, k) BY <1>1 DEF Changed, Step
  <2>2. k \in DefRequests /\ k.of = e.of /\ k.alone = e.alone /\ k.seen = e.seen /\ k.op = e.op /\ k.todo = e.todo
        /\ k.row = e.row /\ k.pc = "list"
    BY DEF DefRequests, DefPCs
  <2>3. Fits(k) BY <1>1, <2>2 DEF Fits
  <2> HIDE DEF k
  <2> QED BY <1>1, <2>1, <2>2, <2>3
<1>2. CASE e.of # "agent"
  <2>1. GoesOn(r, NoEdit) BY <1>2 DEF Changed, Done
  <2> QED BY <1>2, <2>1, RowFacts
<1> QED BY <1>1, <1>2

LEMMA PutKeeps == ASSUME Defined, NEW r \in Edits, NEW n \in DefNames, Put(r, n) PROVE Defined'
<1> DEFINE e == edit[r]
<1>1. /\ e.pc = "put" /\ n \in e.todo /\ Changed(r)
      /\ UNCHANGED <<graves, catalog, up, clobbered>>
  BY DEF Put, defCounts
<1>2. up /\ e \in DefRequests /\ Fits(e) /\ e.of \in Kinds BY <1>1, AtWork
<1>3. PICK o \in Origins(e), x \in TextsOf(r, e) : Shelve(e.of, n, [origin |-> o, text |-> x])
  BY DEF Put
<1> DEFINE written == [origin |-> o, text |-> x]
<1>4. e.row \in DefRows BY <1>2 DEF DefRequests
<1>5. o \in {"none", "builtin", "custom", "imported"}
  BY <1>4 DEF Origins, DefRows
<1>6. x \in {"none", "shipped", "yaml", "null"} \cup Edits BY DEF TextsOf
<1>7. written \in DefRows /\ written.origin = o BY <1>5, <1>6 DEF DefRows
<1>8. e.of # "profile" /\ o = "builtin" => n \in Shipped
  <2>1. ASSUME e.of # "profile", o = "builtin" PROVE n \in Shipped
    <3>1. CASE e.op = "restore" BY <1>1, <1>2, <3>1 DEF Fits
    <3>2. CASE e.op # "restore"
      <4>1. e.row.origin = "builtin" BY <2>1, <3>2 DEF Origins
      <4> QED BY <1>1, <1>2, <2>1, <4>1 DEF Fits
    <3> QED BY <3>1, <3>2
  <2> QED BY <2>1
<1>9. o = "imported" => e.of = "skill" BY <1>2 DEF Origins, Fits
<1>10. e.of = "skill" /\ n \in Shipped /\ o # "builtin" => n \in Tombed
  <2>1. ASSUME e.of = "skill", n \in Shipped, o # "builtin" PROVE n \in Tombed
    <3>1. e.op # "restore" BY <1>2, <2>1 DEF Fits
    <3>2. e.row.origin # "builtin" BY <1>2, <2>1, <3>1 DEF Origins, Fits
    <3>3. Buried BY DEF Defined
    <3> QED BY <1>1, <2>1, <3>2, <3>3 DEF Buried
  <2> QED BY <2>1
<1>11. PICK k \in DefRequests :
              /\ GoesOn(r, k) /\ Fits(k)
              /\ k.alone => e.alone /\ k.of = e.of /\ k.seen = e.seen
              /\ k.of \in {e.of, "none"} /\ k.of # "skill" /\ k.pc \in {"idle", "list"}
              /\ e.of = "agent" => k.of = "agent" /\ k.pc = "list"
  BY <1>1, <1>2, ChangedGoesOn
<1>13. e.seen = {} BY <1>1, <1>2 DEF Fits
<1>14. ~clobbered' BY <1>1 DEF Defined, Unharmed
<1>12. Shelve(e.of, n, written) BY <1>3
<1> HIDE DEF written
<1> QED BY <1>1, <1>7, <1>8, <1>9, <1>10, <1>11, <1>12, <1>13, <1>14, WritesRow

LEMMA StoreKeeps == ASSUME Defined, NEW r \in Edits, NEW n \in DefNames, Store(r, n) PROVE Defined'
<1> DEFINE e == edit[r]
           written == [origin |-> "imported", text |-> r]
           k == IF e.seen = {n} THEN NoEdit ELSE [e EXCEPT !.seen = @ \ {n}]
<1>1. /\ e.pc = "store" /\ n \in e.seen /\ GoesOn(r, k)
      /\ Shelve("skill", n, written)
      /\ clobbered' = (clobbered \/ (e.alone /\ shelf["skill"][n].origin \notin Spared))
      /\ UNCHANGED <<graves, catalog, up>>
  BY DEF Store, Done, defCounts
<1>2. up /\ e \in DefRequests /\ Fits(e) /\ e.of = "skill"
  <2>1. up /\ e \in DefRequests /\ Fits(e) BY <1>1, AtWork
  <2> QED BY <1>1, <2>1 DEF Fits
<1>3. written \in DefRows /\ written.origin = "imported" BY DEF DefRows
<1>4. ~clobbered' BY <1>1 DEF Defined, Unharmed
<1>5. /\ k \in DefRequests /\ Fits(k) /\ (k.alone => e.alone /\ k.of = e.of /\ k.seen \subseteq e.seen)
      /\ k.of \in {e.of, "none"} /\ k.pc \notin {"swap", "put", "drop", "bury"}
      /\ k.of = "skill" => k.seen \subseteq e.seen
  <2>1. CASE k = NoEdit BY <2>1, RowFacts
  <2>2. CASE k = [e EXCEPT !.seen = @ \ {n}]
    <3>1. k \in DefRequests BY <1>2, <2>2 DEF DefRequests, DefPCs
    <3>2. /\ k.of = e.of /\ k.alone = e.alone /\ k.seen = e.seen \ {n} /\ k.op = e.op /\ k.todo = e.todo
          /\ k.row = e.row /\ k.pc = "store"
      BY <1>1, <1>2, <2>2 DEF DefRequests
    <3>3. Fits(k) BY <1>2, <3>2 DEF Fits, Kinds
    <3> QED BY <3>1, <3>2, <3>3
  <2> QED BY <2>1, <2>2
<1>6. e.seen \cap Shipped \subseteq Tombed BY <1>2 DEF Defined, Buried
<1>7. "imported" \in Spared BY DEF Spared
<1>8. Shelve(e.of, n, written) BY <1>1, <1>2
<1>9. UNCHANGED <<catalog, up, graves>> BY <1>1
<1>10. /\ e.of # "profile" /\ written.origin = "builtin" => n \in Shipped
       /\ written.origin = "imported" => e.of = "skill"
       /\ e.of = "agent" => k.of = "agent" /\ k.pc \in {"bury", "list"}
       /\ e.pc \notin {"idle", "bury"} /\ (n \in Shipped => n \in Tombed)
       /\ k.of = "skill" => k.seen \cap Shipped \subseteq Tombed
  BY <1>1, <1>2, <1>3, <1>5, <1>6
<1> HIDE DEF k, written
<1>11. GoesOn(r, k) BY <1>1
<1> QED BY ONLY Defined, r \in Edits, n \in DefNames, <1>3, <1>4, <1>5, <1>6, <1>7, <1>8, <1>9, <1>10, <1>11, WritesRow

LEMMA DropKeeps == ASSUME Defined, NEW r \in Edits, NEW n \in DefNames, Drop(r, n) PROVE Defined'
<1> DEFINE e == edit[r]
<1>1. /\ e.pc = "drop" /\ n \in e.todo /\ UNCHANGED <<graves, catalog, up, clobbered>>
  BY DEF Drop, defCounts
<1>2. up /\ e \in DefRequests /\ Fits(e) /\ e.of \in Kinds BY <1>1, AtWork
<1>3. e.seen = {} BY <1>1, <1>2 DEF Fits
<1>4. CASE shelf[e.of][n] = Blank
  <2>1. GoesOn(r, NoEdit) /\ UNCHANGED <<shelf, deletes, rebuilds>> BY <1>4 DEF Drop, Done
  <2>2. graves \in [Kinds -> SUBSET DefNames] BY DEF Defined, Shelved
  <2>3. /\ NoEdit \in DefRequests /\ Fits(NoEdit) /\ ~NoEdit.alone /\ NoEdit.of = "none" /\ NoEdit.pc = "idle"
    BY RowFacts
  <2> QED BY <1>1, <1>2, <2>1, <2>2, <2>3, ReadsOn
<1>5. CASE shelf[e.of][n] # Blank
  <2>1. /\ Shelve(e.of, n, Blank)
        /\ IF e.row.origin = "builtin" THEN Step(r, "bury") ELSE Changed(r)
    BY <1>5 DEF Drop
  <2>2. \E k \in DefRequests :
              /\ GoesOn(r, k) /\ Fits(k)
              /\ k.alone => e.alone /\ k.of = e.of /\ k.seen = e.seen
              /\ k.of \in {e.of, "none"} /\ k.pc \in {"idle", "list", "bury"}
              /\ e.of = "agent" => k.of = "agent" /\ k.pc \in {"bury", "list"}
              /\ k.of = "skill" => k.seen = {} /\ k.todo = {n}
              /\ e.of = "skill" /\ n \in Shipped => n \in Tombed \/ (k.of = "skill" /\ k.pc = "bury")
    <3>0. e.todo = {n} BY <1>1, <1>2 DEF Fits
    <3>1. CASE e.row.origin = "builtin"
      <4> DEFINE k == [e EXCEPT !.pc = "bury"]
      <4>1. GoesOn(r, k) BY <2>1, <3>1 DEF Step
      <4>2. k \in DefRequests /\ k.of = e.of /\ k.alone = e.alone /\ k.seen = e.seen /\ k.op = e.op /\ k.todo = e.todo
            /\ k.row = e.row /\ k.pc = "bury"
        BY <1>2 DEF DefRequests, DefPCs
      <4>3. Fits(k) BY <1>1, <1>2, <1>3, <4>2 DEF Fits
      <4> HIDE DEF k
      <4> QED BY <1>3, <3>0, <4>1, <4>2, <4>3
    <3>2. CASE e.row.origin # "builtin"
      <4>1. e.of = "skill" /\ n \in Shipped => n \in Tombed
        <5>1. Buried BY DEF Defined
        <5> QED BY <1>1, <3>2, <5>1 DEF Buried
      <4>2. Changed(r) BY <2>1, <3>2
      <4> QED BY <1>2, <4>1, <4>2, ChangedGoesOn
    <3> QED BY <3>1, <3>2
  <2>3. PICK k \in DefRequests :
              /\ GoesOn(r, k) /\ Fits(k)
              /\ k.alone => e.alone /\ k.of = e.of /\ k.seen = e.seen
              /\ k.of \in {e.of, "none"} /\ k.pc \in {"idle", "list", "bury"}
              /\ e.of = "agent" => k.of = "agent" /\ k.pc \in {"bury", "list"}
              /\ k.of = "skill" => k.seen = {} /\ k.todo = {n}
              /\ e.of = "skill" /\ n \in Shipped => n \in Tombed \/ (k.of = "skill" /\ k.pc = "bury")
    BY <2>2
  <2>5. ~clobbered' BY <1>1 DEF Defined, Unharmed
  <2>7. Blank \in DefRows /\ Blank.origin = "none" /\ "none" \in Spared BY RowFacts DEF Spared
  <2>8. UNCHANGED <<catalog, up, graves>> /\ e.pc \notin {"idle", "bury"} BY <1>1
  <2>9. Shelve(e.of, n, Blank) BY <2>1
  <2> QED BY ONLY Defined, r \in Edits, n \in DefNames, <1>3, <2>3, <2>5, <2>7, <2>8, <2>9, WritesRow
<1> QED BY <1>4, <1>5

LEMMA BuryKeeps == ASSUME Defined, NEW r \in Edits, NEW n \in DefNames, Bury(r, n) PROVE Defined'
<1> DEFINE e == edit[r]
<1>1. /\ e.pc = "bury" /\ n \in e.todo /\ Changed(r) /\ UNCHANGED <<shelf, catalog, up, gone, back, late, astray, clobbered>>
      /\ graves' = [graves EXCEPT ![e.of] = @ \cup {n}]
      /\ cut' = IF e.of = "skill" THEN cut \ {n} ELSE cut
  BY DEF Bury, defCounts, rebuilds
<1>2. up /\ e \in DefRequests /\ Fits(e) /\ e.of \in Kinds BY <1>1, AtWork
<1>3. PICK k \in DefRequests :
              /\ GoesOn(r, k) /\ Fits(k)
              /\ k.alone => e.alone /\ k.of = e.of /\ k.seen = e.seen
              /\ k.of \in {e.of, "none"} /\ k.of # "skill" /\ k.pc \in {"idle", "list"}
              /\ e.of = "agent" => k.of = "agent" /\ k.pc = "list"
  BY <1>1, <1>2, ChangedGoesOn
<1>4. /\ Orderly' /\ edit' \in [Edits -> DefRequests] /\ edit'[r] = k
      /\ \A o \in Edits \ {r} : edit'[o] = edit[o]
  BY <1>1, <1>2, <1>3, GoesOnOrderly DEF Defined
<1>5. /\ graves' \in [Kinds -> SUBSET DefNames] /\ graves["skill"] \subseteq graves'["skill"]
      /\ e.of = "skill" => n \in graves'["skill"]
  BY <1>1, <1>2 DEF Defined, Shelved, Kinds
<1>6. Shelved' BY <1>1, <1>5 DEF Defined, Shelved
<1>7. Buried'
  <2>0. "skill" \in Kinds /\ Buried /\ e.todo = {n}
    <3>1. e.todo = {n} BY <1>1, <1>2 DEF Fits
    <3> QED BY <3>1 DEF Kinds, Defined
  <2>1. /\ \A m \in Burying(Edits)' : m \in Burying(Edits)
        /\ \A m \in Burying(Edits) : m \in Burying(Edits)' \/ (e.of = "skill" /\ m \in e.todo)
        /\ e.of = "skill" => n \in Burying(Edits)
    BY <1>1, <1>3, <1>4, BuryingOn
  <2>2. Tombed \subseteq Tombed'
    <3>1. ASSUME NEW m \in Tombed PROVE m \in Tombed'
      <4>1. CASE m = n /\ e.of = "skill" BY <1>5, <4>1 DEF Tombed
      <4>2. CASE m # n \/ e.of # "skill"
        <5>1. m \in cut => m \in cut' BY <1>1, <4>2
        <5>2. m \in Burying(Edits) => m \in Burying(Edits)' BY <2>0, <2>1, <4>2
        <5> QED BY <1>5, <3>1, <5>1, <5>2 DEF Tombed
      <4> QED BY <4>1, <4>2
    <3> QED BY <3>1
  <2>3. \A o \in Edits : edit'[o].of = "skill" =>
           /\ edit'[o].pc \in {"put", "drop"} /\ edit'[o].row.origin # "builtin"
                  => edit'[o].todo \cap Shipped \subseteq Tombed'
           /\ edit'[o].seen \cap Shipped \subseteq Tombed'
    BY <1>3, <1>4, <2>0, <2>2, FoundOn
  <2>4. back["skill"] \subseteq cut'
    <3>1. back["skill"] \subseteq cut BY <2>0, RowFacts DEF Buried, DeletedStaysGone
    <3>2. e.of = "skill" => n \notin back["skill"] BY <2>0, <2>1 DEF Buried
    <3> QED BY <1>1, <3>1, <3>2
  <2>5. PutBack'["skill"] = cut' /\ \A t \in Kinds \ {"skill"} : PutBack'[t] = PutBack[t]
    BY DEF PutBack, Kinds
  <2>6. DeletedStaysGone'
    <3>1. \A t \in Kinds : back[t] \subseteq PutBack'[t] BY <2>0, <2>4, <2>5 DEF Buried, DeletedStaysGone
    <3> QED BY <1>1, <2>0, <3>1 DEF Buried, DeletedStaysGone
  <2>7. Burying(Edits)' \cap back'["skill"] = {} BY <1>1, <2>0, <2>1 DEF Buried
  <2> QED BY <1>1, <2>0, <2>2, <2>3, <2>6, <2>7 DEF Buried
<1>8. NoForgery' BY <1>1 DEF Defined, NoForgery
<1>9. Rebuilt'
  <2>2. \A o \in Edits \ late' : edit'[o].pc = "swap" => edit'[o].list = shelf'["agent"]
    BY <1>1, <1>3, <1>4 DEF Defined, Rebuilt
  <2>3. ASSUME NEW o \in Edits, edit[o].of = "agent", edit[o].pc \in {"bury", "list", "swap"}
        PROVE  edit'[o].of = "agent" /\ edit'[o].pc \in {"bury", "list", "swap"}
    BY <1>3, <1>4, <2>3
  <2>4. up' /\ ~astray' => \/ catalog' = shelf'["agent"]
                           \/ \E o \in Edits : edit'[o].of = "agent" /\ edit'[o].pc \in {"bury", "list", "swap"}
    BY <1>1, <2>3 DEF Defined, Rebuilt
  <2> QED BY <2>2, <2>4 DEF Rebuilt
<1>10. Unharmed'
  <2>1. ASSUME NEW o \in Edits, edit'[o].alone, NEW m \in edit'[o].seen PROVE shelf["skill"][m].origin \in Spared
    <3>1. CASE o = r BY <1>3, <1>4, <2>1, <3>1 DEF Defined, Unharmed
    <3>2. CASE o # r BY <1>4, <2>1, <3>2 DEF Defined, Unharmed
    <3> QED BY <3>1, <3>2
  <2> QED BY <1>1, <2>1 DEF Defined, Unharmed
<1> QED BY <1>4, <1>6, <1>7, <1>8, <1>9, <1>10 DEF Defined

\* Swap and Abandon: request r is over, and the agents' catalog may be astray.
LEMMA EndsOrderly ==
    ASSUME Defined, NEW r \in Edits, edit[r].pc # "idle", Done(r), UNCHANGED <<shelf, graves, up, gone, back, clobbered>>,
           late' = late \ {r}, cut' = cut \cup Burying({r})
    PROVE  /\ Orderly' /\ Buried' /\ NoForgery' /\ Unharmed' /\ edit'[r] = NoEdit
           /\ \A o \in Edits \ {r} : edit'[o] = edit[o]
           /\ \A o \in Edits \ late' : edit'[o].pc = "swap" => edit'[o].list = shelf'["agent"]
           /\ cut' \subseteq DefNames /\ late' \subseteq Edits
           /\ \A o \in Edits : edit'[o].of = "agent" => o # r /\ edit'[o] = edit[o]
<1>1. up BY AtWork
<1>2. /\ NoEdit \in DefRequests /\ Fits(NoEdit) /\ ~NoEdit.alone /\ NoEdit.of = "none" /\ NoEdit.pc = "idle"
      /\ NoEdit.seen = {}
  BY RowFacts
<1>3. /\ Orderly' /\ edit'[r] = NoEdit /\ \A o \in Edits \ {r} : edit'[o] = edit[o]
  BY <1>1, <1>2, GoesOnOrderly DEF Done, Defined
<1>4. NoForgery' BY DEF Defined, NoForgery
<1>8. Buried'
  <2>0. "skill" \in Kinds /\ Buried BY DEF Kinds, Defined
  <2>1. /\ \A m \in Burying(Edits)' : m \in Burying(Edits)
        /\ \A m \in Burying(Edits) : m \in Burying(Edits)' \/ m \in Burying({r})
    BY <1>2, <1>3, BuryingOn
  <2>2. Tombed \subseteq Tombed' BY <2>1 DEF Tombed
  <2>3. \A o \in Edits : edit'[o].of = "skill" =>
           /\ edit'[o].pc \in {"put", "drop"} /\ edit'[o].row.origin # "builtin"
                  => edit'[o].todo \cap Shipped \subseteq Tombed'
           /\ edit'[o].seen \cap Shipped \subseteq Tombed'
    BY <1>2, <1>3, <2>0, <2>2, FoundOn
  <2>4. \A t \in Kinds : PutBack[t] \subseteq PutBack'[t] BY DEF PutBack, Kinds
  <2>5. DeletedStaysGone' BY <2>0, <2>4 DEF Buried, DeletedStaysGone
  <2>6. Burying(Edits)' \cap back'["skill"] = {} BY <2>0, <2>1 DEF Buried
  <2> QED BY <2>0, <2>2, <2>3, <2>5, <2>6 DEF Buried
<1>9. cut' \subseteq DefNames /\ late' \subseteq Edits
  <2>1. Burying({r}) \subseteq DefNames BY <1>3, BuryingOn DEF Defined, Orderly, DefRequests
  <2> QED BY <2>1 DEF Defined, Shelved
<1>5. Unharmed' BY <1>2, <1>3 DEF Defined, Unharmed
<1>6. \A o \in Edits \ late' : edit'[o].pc = "swap" => edit'[o].list = shelf'["agent"]
  BY <1>2, <1>3 DEF Defined, Rebuilt
<1>7. \A o \in Edits : edit'[o].of = "agent" => o # r /\ edit'[o] = edit[o] BY <1>2, <1>3
<1> QED BY <1>3, <1>4, <1>5, <1>6, <1>7, <1>8, <1>9

LEMMA SwapKeeps == ASSUME Defined, NEW r \in Edits, Swap(r) PROVE Defined'
<1> DEFINE e == edit[r]
<1>1. /\ e.pc = "swap" /\ catalog' = e.list /\ Done(r) /\ astray' = (r \in late) /\ late' = late \ {r}
      /\ UNCHANGED <<shelf, graves, up, gone, back, cut, clobbered>>
  BY DEF Swap, defCounts, deletes
<1>2. up /\ e \in DefRequests /\ Fits(e) /\ e.of = "agent"
  <2>1. up /\ e \in DefRequests /\ Fits(e) BY <1>1, AtWork
  <2> QED BY <1>1, <2>1 DEF Fits
<1>3. cut' = cut \cup Burying({r})
  <2>1. Burying({r}) = {} BY <1>1 DEF Burying
  <2> QED BY <1>1, <2>1
<1>4. /\ Orderly' /\ Buried' /\ NoForgery' /\ Unharmed' /\ cut' \subseteq DefNames /\ late' \subseteq Edits
      /\ \A o \in Edits \ late' : edit'[o].pc = "swap" => edit'[o].list = shelf'["agent"]
  BY <1>1, <1>3, EndsOrderly
<1>5. Shelved' BY <1>1, <1>2, <1>4 DEF Defined, Shelved, DefRequests
<1>6. ~astray' => catalog' = shelf'["agent"] BY <1>1 DEF Defined, Rebuilt
<1>7. Rebuilt' BY <1>4, <1>6 DEF Rebuilt
<1> QED BY <1>4, <1>5, <1>7 DEF Defined

LEMMA AbandonKeeps == ASSUME Defined, NEW r \in Edits, Abandon(r) PROVE Defined'
<1> DEFINE e == edit[r]
<1>1. /\ e.pc # "idle" /\ Done(r) /\ UNCHANGED <<shelf, graves, catalog, up, gone, back, clobbered>>
      /\ astray' = (astray \/ (e.of = "agent" /\ e.pc \in {"bury", "list", "swap"}))
      /\ late' = late \ {r} /\ cut' = cut \cup Burying({r})
  BY DEF Abandon, defCounts
<1>2. /\ Orderly' /\ Buried' /\ NoForgery' /\ Unharmed' /\ \A o \in Edits \ {r} : edit'[o] = edit[o]
      /\ cut' \subseteq DefNames /\ late' \subseteq Edits
      /\ \A o \in Edits \ late' : edit'[o].pc = "swap" => edit'[o].list = shelf'["agent"]
  BY <1>1, EndsOrderly
<1>3. Shelved' BY <1>1, <1>2 DEF Defined, Shelved
<1>5. up' /\ ~astray' => \/ catalog' = shelf'["agent"]
                         \/ \E o \in Edits : edit'[o].of = "agent" /\ edit'[o].pc \in {"bury", "list", "swap"}
  BY <1>1, <1>2 DEF Defined, Rebuilt
<1>6. Rebuilt' BY <1>2, <1>5 DEF Rebuilt
<1> QED BY <1>2, <1>3, <1>6 DEF Defined

LEMMA CallKeeps ==
    ASSUME Defined, NEW r \in Edits, NEW op \in DOMAIN FirstPc, NEW t \in Kinds, NEW names \in SUBSET DefNames,
           Call(r, op, t, names)
    PROVE  Defined'
<1> DEFINE fresh == [NoEdit EXCEPT !.pc = FirstPc[op], !.op = op, !.of = t, !.todo = names, !.alone = (AtTable(t) = {})]
<1>1. /\ up /\ edit[r].pc = "idle" /\ Asks(op, t, names)
      /\ edit' = [o \in Edits |-> IF o = r THEN fresh
                                  ELSE IF edit[o].of = t THEN [edit[o] EXCEPT !.alone = FALSE] ELSE edit[o]]
      /\ UNCHANGED <<shelf, graves, catalog, up, gone, back, cut, late, astray, clobbered>>
  BY DEF Call, deletes, rebuilds
<1>2. /\ op \in {"create", "patch", "delete", "import", "restore"}
      /\ FirstPc[op] \in {"look", "scan", "unbury"} /\ (FirstPc[op] = "scan" <=> op = "import")
      /\ (FirstPc[op] = "unbury" <=> op = "restore")
  BY DEF FirstPc
<1>3. /\ op = "import" => t = "skill"
      /\ op # "import" => \A m, n \in names : m = n
      /\ op = "restore" => t = "agent" /\ names \subseteq Shipped
  BY <1>1 DEF Asks
<1>4. /\ fresh \in DefRequests /\ fresh.pc = FirstPc[op] /\ fresh.op = op /\ fresh.of = t /\ fresh.todo = names
      /\ fresh.seen = {} /\ fresh.row = Blank /\ fresh.alone = (AtTable(t) = {})
  <2>1. NoEdit \in DefRequests BY RowFacts
  <2>2. NoEdit.seen = {} /\ NoEdit.row = Blank BY DEF NoEdit
  <2>3. (AtTable(t) = {}) \in BOOLEAN OBVIOUS
  <2>4. FirstPc[op] \in DefPCs BY <1>2 DEF DefPCs
  <2> QED BY <1>2, <2>1, <2>2, <2>3, <2>4 DEF DefRequests
<1> HIDE DEF fresh
<1>5. Fits(fresh)
  <2>1. Blank.origin = "none" BY RowFacts
  <2> QED BY <1>2, <1>3, <1>4, <2>1 DEF Fits
<1>6. \A o \in Edits : edit[o] \in DefRequests /\ Fits(edit[o]) BY DEF Defined, Orderly
<1>7. \A o \in Edits \ {r} :
         /\ edit'[o] \in DefRequests /\ Fits(edit'[o]) /\ edit'[o].pc = edit[o].pc /\ edit'[o].of = edit[o].of
         /\ edit'[o].seen = edit[o].seen /\ edit'[o].list = edit[o].list
         /\ edit'[o].todo = edit[o].todo /\ edit'[o].row = edit[o].row
         /\ edit'[o].alone = (edit[o].alone /\ edit[o].of # t)
  <2>1. ASSUME NEW o \in Edits \ {r}, edit[o].of = t PROVE
         /\ edit'[o] \in DefRequests /\ Fits(edit'[o]) /\ edit'[o].pc = edit[o].pc /\ edit'[o].of = edit[o].of
         /\ edit'[o].todo = edit[o].todo /\ edit'[o].row = edit[o].row
         /\ edit'[o].seen = edit[o].seen /\ edit'[o].list = edit[o].list
         /\ edit'[o].alone = (edit[o].alone /\ edit[o].of # t)
    <3>1. edit'[o] = [edit[o] EXCEPT !.alone = FALSE] BY <1>1, <2>1
    <3>2. /\ edit'[o] \in DefRequests /\ edit'[o].pc = edit[o].pc /\ edit'[o].of = edit[o].of
          /\ edit'[o].seen = edit[o].seen /\ edit'[o].list = edit[o].list /\ edit'[o].alone = FALSE
          /\ edit'[o].op = edit[o].op /\ edit'[o].todo = edit[o].todo /\ edit'[o].row = edit[o].row
      BY <1>6, <3>1 DEF DefRequests
    <3>3. Fits(edit'[o]) BY <1>6, <3>2 DEF Fits
    <3> QED BY <2>1, <3>2, <3>3
  <2>2. ASSUME NEW o \in Edits \ {r}, edit[o].of # t PROVE
         /\ edit'[o] \in DefRequests /\ Fits(edit'[o]) /\ edit'[o].pc = edit[o].pc /\ edit'[o].of = edit[o].of
         /\ edit'[o].todo = edit[o].todo /\ edit'[o].row = edit[o].row
         /\ edit'[o].seen = edit[o].seen /\ edit'[o].list = edit[o].list
         /\ edit'[o].alone = (edit[o].alone /\ edit[o].of # t)
    <3>1. edit'[o] = edit[o] BY <1>1, <2>2
    <3> QED BY <1>6, <2>2, <3>1 DEF DefRequests
  <2> QED BY <2>1, <2>2
<1>8. edit'[r] = fresh /\ edit' \in [Edits -> DefRequests] BY <1>1, <1>4, <1>7
<1>9. AtTable(t) = {} => \A o \in Edits : edit[o].of # t BY DEF AtTable
<1>10. Orderly'
  <2>1. \A o \in Edits : Fits(edit'[o]) BY <1>5, <1>7, <1>8
  <2>2. ASSUME NEW a \in Edits, NEW o \in Edits, a # o, edit'[a].alone PROVE edit'[o].of # edit'[a].of
    <3>1. CASE a = r BY <1>4, <1>7, <1>8, <1>9, <2>2, <3>1
    <3>2. CASE a # r /\ o = r BY <1>4, <1>7, <1>8, <2>2, <3>2
    <3>3. CASE a # r /\ o # r
      <4>1. edit[a].alone BY <1>7, <2>2, <3>3
      <4>2. edit[o].of # edit[a].of BY <2>2, <4>1 DEF Defined, Orderly
      <4> QED BY <1>7, <3>3, <4>2
    <3> QED BY <3>1, <3>2, <3>3
  <2> QED BY <1>1, <1>8, <2>1, <2>2 DEF Orderly
<1>11. Shelved' BY <1>1 DEF Defined, Shelved
<1>12. NoForgery' BY <1>1 DEF Defined, NoForgery
<1>15. Buried'
  <2>0. Buried BY DEF Defined
  <2>1. Burying(Edits)' = Burying(Edits)
    <3>1. \A n : n \in Burying(Edits) <=> \E o \in Edits : edit[o].of = "skill" /\ edit[o].pc = "bury" /\ n \in edit[o].todo
      BY DEF Burying
    <3>2. \A n : n \in Burying(Edits)' <=> \E o \in Edits : edit'[o].of = "skill" /\ edit'[o].pc = "bury" /\ n \in edit'[o].todo
      BY DEF Burying
    <3>3. edit[r].pc # "bury" /\ edit'[r].pc # "bury" BY <1>1, <1>2, <1>4, <1>8
    <3>4. \A o \in Edits : edit'[o].pc = "bury" <=> edit[o].pc = "bury" BY <1>7, <3>3
    <3>5. \A o \in Edits : edit[o].pc = "bury" => edit'[o].of = edit[o].of /\ edit'[o].todo = edit[o].todo
      BY <1>7, <3>3
    <3>6. \A n : n \in Burying(Edits)' <=> n \in Burying(Edits) BY <3>1, <3>2, <3>4, <3>5
    <3> QED BY <3>6
  <2>2. Tombed' = Tombed BY <1>1, <2>1 DEF Tombed
  <2>3. ASSUME NEW o \in Edits, edit'[o].of = "skill"
        PROVE  /\ edit'[o].pc \in {"put", "drop"} /\ edit'[o].row.origin # "builtin"
                      => edit'[o].todo \cap Shipped \subseteq Tombed
               /\ edit'[o].seen \cap Shipped \subseteq Tombed
    <3>1. CASE o = r BY <1>2, <1>4, <1>8, <3>1
    <3>2. CASE o # r BY <1>7, <2>0, <2>3, <3>2 DEF Buried
    <3> QED BY <3>1, <3>2
  <2>4. DeletedStaysGone' BY <1>1, <2>0 DEF Buried, DeletedStaysGone, PutBack
  <2> QED BY <1>1, <2>0, <2>1, <2>2, <2>3, <2>4 DEF Buried
<1>13. Rebuilt'
  <2>2. \A o \in Edits \ late' : edit'[o].pc = "swap" => edit'[o].list = shelf'["agent"]
    BY <1>1, <1>2, <1>4, <1>7, <1>8 DEF Defined, Rebuilt
  <2>3. \A o \in Edits : edit[o].pc \in {"bury", "list", "swap"} => edit'[o].pc = edit[o].pc /\ edit'[o].of = edit[o].of
    BY <1>1, <1>7
  <2>4. up' /\ ~astray' => \/ catalog' = shelf'["agent"]
                           \/ \E o \in Edits : edit'[o].of = "agent" /\ edit'[o].pc \in {"bury", "list", "swap"}
    BY <1>1, <2>3 DEF Defined, Rebuilt
  <2> QED BY <2>2, <2>4 DEF Rebuilt
<1>14. Unharmed' BY <1>1, <1>4, <1>7, <1>8 DEF Defined, Unharmed
<1> QED BY <1>10, <1>11, <1>12, <1>13, <1>14, <1>15 DEF Defined

LEMMA CrashKeeps == ASSUME Defined, Crash PROVE Defined'
<1>1. /\ up' = FALSE /\ edit' = [r \in Edits |-> NoEdit] /\ catalog' = NoneOf
      /\ cut' = cut \cup Burying(Edits) /\ late' = {}
      /\ UNCHANGED <<shelf, graves, gone, back, astray, clobbered>>
  BY DEF Crash
<1>2. Shelved'
  <2>1. Burying(Edits) \subseteq DefNames BY DEF Burying, Defined, Orderly, DefRequests
  <2> QED BY <1>1, <2>1, RowFacts DEF Defined, Shelved
<1>3. Orderly' BY <1>1, RowFacts DEF Orderly
<1>4. NoForgery' BY <1>1 DEF Defined, NoForgery
<1>7. Buried'
  <2>0. Buried BY DEF Defined
  <2>1. Burying(Edits)' = {}
    <3>1. \A n : n \in Burying(Edits)' <=> \E o \in Edits : edit'[o].of = "skill" /\ edit'[o].pc = "bury" /\ n \in edit'[o].todo
      BY DEF Burying
    <3> QED BY <1>1, <3>1, RowFacts
  <2>2. Tombed' = Tombed BY <1>1, <2>1 DEF Tombed
  <2>3. \A t \in Kinds : PutBack[t] \subseteq PutBack'[t] BY <1>1 DEF PutBack, Kinds
  <2>4. DeletedStaysGone' BY <1>1, <2>0, <2>3 DEF Buried, DeletedStaysGone
  <2>5. \A o \in Edits : edit'[o].of # "skill" BY <1>1, RowFacts
  <2>6. \A n \in Shipped : shelf'["skill"][n].origin # "builtin"
                             /\ (up' \/ n \in gone'["skill"] \/ shelf'["skill"][n] # Blank)
                                 => n \in Tombed'
    BY <1>1, <2>0, <2>2 DEF Buried
  <2> QED BY <2>1, <2>4, <2>5, <2>6 DEF Buried
<1>5. Rebuilt' BY <1>1, RowFacts DEF Rebuilt
<1>6. Unharmed' BY <1>1, RowFacts DEF Defined, Unharmed
<1> QED BY <1>2, <1>3, <1>4, <1>5, <1>6, <1>7 DEF Defined

\* What a start seeds: rows that are there stay, and what appears is shipped or
\* configured, and for a skill not buried.
LEMMA SeededRows ==
    ASSUME Shelved, NEW t \in Kinds, NEW n \in DefNames
    PROVE  /\ Seeded(t, n) \in {shelf[t][n], Shipment} /\ Seeded(t, n) \in DefRows
           /\ Seeded(t, n) # shelf[t][n] => n \in Shipped \ graves[t]
           /\ n \in Shipped \ graves[t] => Seeded(t, n) # Blank
           /\ Merged(n) \in {shelf["agent"][n], Shipment, Entry} /\ Merged(n) \in DefRows
           /\ Merged(n) = Shipment => n \in Shipped \/ shelf["agent"][n] = Shipment
           /\ n \notin Shipped \cup Configured => Merged(n) = shelf["agent"][n]
<1>1. shelf[t][n] \in DefRows /\ shelf["agent"][n] \in DefRows BY DEF Shelved, Kinds
<1>2. \A s \in Kinds : /\ Seeded(s, n) \in {shelf[s][n], Shipment}
                       /\ Seeded(s, n) # shelf[s][n] => n \in Shipped \ graves[s]
  BY DEF Seeded
<1>3. Seeded("agent", n) \in {shelf["agent"][n], Shipment}
      /\ (Seeded("agent", n) # shelf["agent"][n] => n \in Shipped)
  BY <1>2 DEF Kinds
<1>4. Merged(n) \in {shelf["agent"][n], Shipment, Entry} BY <1>3 DEF Merged
<1>5. Entry # Shipment /\ Entry # Blank /\ Shipment # Blank
  BY RowFacts
<1>6. Merged(n) = Shipment => n \in Shipped \/ shelf["agent"][n] = Shipment BY <1>3, <1>5 DEF Merged
<1>7. n \notin Shipped \cup Configured => Merged(n) = shelf["agent"][n] BY <1>3 DEF Merged
<1>8. n \in Shipped \ graves[t] => Seeded(t, n) # Blank BY <1>5 DEF Seeded
<1> QED BY <1>1, <1>2, <1>4, <1>6, <1>7, <1>8, RowFacts

LEMMA BootKeeps == ASSUME Defined, Boot PROVE Defined'
<1>1. /\ ~up /\ up' = TRUE /\ astray' = FALSE /\ UNCHANGED <<graves, edit, cut, late, clobbered>>
      /\ shelf' = [t \in Kinds |-> [n \in DefNames |-> IF t = "agent" THEN Merged(n) ELSE Seeded(t, n)]]
      /\ catalog' = [n \in DefNames |-> Merged(n)]
      /\ gone' = [t \in Kinds |-> {n \in gone[t] : OnBoot(t, n) = Blank}]
      /\ back' = [t \in Kinds |-> back[t] \cup {n \in gone[t] : OnBoot(t, n) # Blank}]
  BY DEF Boot, OnBoot
<1>2. Shelved BY DEF Defined
<1>3. \A r \in Edits : edit[r] = NoEdit BY <1>1 DEF Defined, Orderly
<1>4. \A t \in Kinds \ {"agent"} : \A n \in DefNames :
         /\ shelf'[t][n] \in {shelf[t][n], Shipment} /\ shelf'[t][n] \in DefRows
         /\ shelf'[t][n] # shelf[t][n] => n \in Shipped \ graves[t]
  BY <1>1, <1>2, SeededRows
<1>5. \A n \in DefNames :
         /\ shelf'["agent"][n] \in {shelf["agent"][n], Shipment, Entry} /\ shelf'["agent"][n] \in DefRows
         /\ shelf'["agent"][n] = Shipment => n \in Shipped \/ shelf["agent"][n] = Shipment
         /\ n \notin Shipped \cup Configured => shelf'["agent"][n] = shelf["agent"][n]
  BY <1>1, <1>2, SeededRows DEF Kinds
<1>6. catalog' = shelf'["agent"] BY <1>1 DEF Kinds
<1>7. Shelved'
  <2>1. \A t \in Kinds : \A n \in DefNames : shelf'[t][n] \in DefRows BY <1>4, <1>5 DEF Kinds
  <2>2. shelf' \in [Kinds -> [DefNames -> DefRows]] BY <1>1, <2>1
  <2>3. catalog' \in [DefNames -> DefRows] BY <1>6, <2>2 DEF Kinds
  <2>4. gone' \in [Kinds -> SUBSET DefNames] /\ back' \in [Kinds -> SUBSET DefNames] BY <1>1, <1>2 DEF Shelved
  <2> QED BY <1>1, <1>2, <2>2, <2>3, <2>4 DEF Shelved
<1>8. Orderly' BY <1>1, <1>3, RowFacts DEF Defined, Orderly
<1>9. Buried'
  <2>0. Buried BY DEF Defined
  <2>1. \A t \in Kinds : \A n \in DefNames : shelf'[t][n] = OnBoot(t, n) BY <1>1 DEF OnBoot
  <2>2. /\ \A n : n \in Burying(Edits) <=> \E o \in Edits : edit[o].of = "skill" /\ edit[o].pc = "bury" /\ n \in edit[o].todo
        /\ \A n : n \in Burying(Edits)' <=> \E o \in Edits : edit'[o].of = "skill" /\ edit'[o].pc = "bury" /\ n \in edit'[o].todo
    BY DEF Burying
  <2>3. Burying(Edits) = {} /\ Burying(Edits)' = {} BY <1>1, <1>3, <2>2, RowFacts
  <2>4. Tombed = graves["skill"] \cup cut /\ Tombed' = Tombed BY <1>1, <2>3 DEF Tombed
  <2>5. ASSUME NEW t \in Kinds, NEW n \in gone'[t] PROVE shelf'[t][n] = Blank
    <3>1. n \in DefNames BY <1>7, <2>5 DEF Shelved
    <3>2. OnBoot(t, n) = Blank BY <1>1, <2>5
    <3> QED BY <2>1, <3>1, <3>2
  <2>6. ASSUME NEW t \in Kinds, NEW n \in gone[t], OnBoot(t, n) # Blank PROVE n \in PutBack[t]
    <3>1. n \in DefNames /\ shelf[t][n] = Blank BY <1>2, <2>0, <2>6 DEF Shelved, Buried, DeletedStaysGone
    <3>2. shelf'[t][n] # shelf[t][n] BY <2>1, <2>6, <3>1
    <3>3. CASE t = "skill"
      <4>1. n \in Shipped \ graves["skill"] BY <1>4, <3>1, <3>2, <3>3
      <4>2. n \in Tombed BY <2>0, <2>6, <3>1, <3>3, <4>1, RowFacts DEF Buried
      <4> QED BY <2>4, <3>3, <4>1, <4>2, RowFacts
    <3>4. CASE t = "agent" BY <1>5, <3>1, <3>2, <3>4, RowFacts
    <3>5. CASE t = "profile" BY <1>4, <3>1, <3>2, <3>5, RowFacts
    <3> QED BY <3>3, <3>4, <3>5 DEF Kinds
  <2>7. ASSUME NEW t \in Kinds PROVE back'[t] \subseteq PutBack'[t]
    <3>1. PutBack' = PutBack BY <1>1 DEF PutBack
    <3>2. back[t] \subseteq PutBack[t] BY <2>0 DEF Buried, DeletedStaysGone
    <3>3. back'[t] = back[t] \cup {n \in gone[t] : OnBoot(t, n) # Blank} BY <1>1
    <3> QED BY <2>6, <3>1, <3>2, <3>3
  <2>8. DeletedStaysGone' BY <2>5, <2>7 DEF DeletedStaysGone
  <2>9. ASSUME NEW n \in Shipped, shelf'["skill"][n].origin # "builtin" PROVE n \in Tombed
    <3>1. n \in DefNames /\ "skill" \in Kinds BY DefinitionAssumption DEF Kinds
    <3>2. shelf'["skill"][n] = shelf["skill"][n] BY <1>4, <2>9, <3>1, RowFacts
    <3>3. CASE shelf["skill"][n] = Blank
      <4>1. Seeded("skill", n) = Blank BY <1>1, <3>1, <3>2, <3>3
      <4>2. n \in graves["skill"] BY <1>2, <3>1, <4>1, SeededRows
      <4> QED BY <2>4, <4>2
    <3>4. CASE shelf["skill"][n] # Blank BY <2>0, <2>9, <3>2, <3>4 DEF Buried
    <3> QED BY <3>3, <3>4
  <2>10. \A o \in Edits : edit'[o].of # "skill" BY <1>1, <1>3, RowFacts
  <2> QED BY <2>3, <2>4, <2>8, <2>9, <2>10 DEF Buried
<1>10. NoForgery'
  <2>1. ASSUME NEW n \in DefNames
        PROVE  /\ shelf'["skill"][n].origin = "builtin" => n \in Shipped
               /\ shelf'["agent"][n].origin = "builtin" => n \in Shipped
               /\ shelf'["agent"][n].origin # "imported" /\ shelf'["profile"][n].origin # "imported"
    <3>1. /\ shelf["skill"][n].origin = "builtin" => n \in Shipped
          /\ shelf["agent"][n].origin = "builtin" => n \in Shipped
          /\ shelf["agent"][n].origin # "imported" /\ shelf["profile"][n].origin # "imported"
      BY DEF Defined, NoForgery
    <3>2. Shipment.origin = "builtin" /\ Entry.origin = "custom" BY RowFacts
    <3>3. shelf'["skill"][n] = shelf["skill"][n] \/ n \in Shipped BY <1>4 DEF Kinds
    <3>4. shelf'["agent"][n] \in {shelf["agent"][n], Entry} \/ (shelf'["agent"][n] = Shipment /\ n \in Shipped)
      BY <1>5, <3>1, <3>2
    <3>5. shelf'["profile"][n] \in {shelf["profile"][n], Shipment} BY <1>4 DEF Kinds
    <3> QED BY <3>1, <3>2, <3>3, <3>4, <3>5
  <2> QED BY <2>1 DEF NoForgery
<1>11. Rebuilt' BY <1>1, <1>3, <1>6, RowFacts DEF Rebuilt
<1>12. Unharmed' BY <1>1, <1>3, RowFacts DEF Defined, Unharmed
<1> QED BY <1>7, <1>8, <1>9, <1>10, <1>11, <1>12 DEF Defined

LEMMA DefinedStep == ASSUME Defined, DefNext \/ UNCHANGED defVars PROVE Defined'
<1>1. CASE UNCHANGED defVars
  <2>1. UNCHANGED <<shelf, graves, catalog, edit, up, gone, back, cut, late, astray, clobbered>>
    BY <1>1 DEF defVars, deletes, rebuilds
  <2>2. Tombed' = Tombed /\ Burying(Edits)' = Burying(Edits) BY <2>1 DEF Tombed, Burying
  <2>3. DeletedStaysGone' <=> DeletedStaysGone BY <2>1 DEF DeletedStaysGone, PutBack
  <2>4. Buried' BY <2>1, <2>2, <2>3 DEF Defined, Buried
  <2> QED BY <2>1, <2>4 DEF Defined, Shelved, Orderly, NoForgery, Rebuilt, Unharmed
<1>2. CASE Boot BY <1>2, BootKeeps
<1>3. CASE Crash BY <1>3, CrashKeeps
<1>4. ASSUME NEW r \in Edits, Edit(r) PROVE Defined'
  <2>1. CASE \E op \in DOMAIN FirstPc, t \in Kinds, names \in SUBSET DefNames : Call(r, op, t, names)
    BY <2>1, CallKeeps
  <2>2. ASSUME NEW n \in DefNames,
               LookUp(r, n) \/ Put(r, n) \/ Scan(r, n) \/ Store(r, n) \/ Drop(r, n) \/ Bury(r, n)
        PROVE  Defined'
    BY <2>2, LookUpKeeps, PutKeeps, ScanKeeps, StoreKeeps, DropKeeps, BuryKeeps
  <2>3. CASE Unbury(r) \/ ListAgents(r) \/ Swap(r) \/ Abandon(r)
    BY <2>3, UnburyKeeps, ListAgentsKeeps, SwapKeeps, AbandonKeeps
  <2> QED BY <1>4, <2>1, <2>2, <2>3 DEF Edit
<1> QED BY <1>1, <1>2, <1>3, <1>4 DEF DefNext

LEMMA DefinedEnough == Defined => DefinitionsKept
<1> SUFFICES ASSUME Defined PROVE DefinitionsKept OBVIOUS
<1>1. DeletedStaysGone BY DEF Defined, Buried
<1>2. CatalogFollows BY DEF Defined, Rebuilt, CatalogFollows, AtTable
<1> QED BY <1>1, <1>2 DEF DefinitionsKept, Defined, Unharmed

\* DefinitionsKept: a row a delete took is not back before a request writes it,
\* but for what a start puts back: agents that are shipped or configured, shipped
\* profiles, and the shipped skills whose delete ended before their tombstone.
\* With no agent being written the catalog is the table, unless the last list to
\* go in was late or none did; no row is marked as shipped that is not; no import
\* on its own overwrites another's skill.
THEOREM DefinitionsKeptHolds == Spec => []DefinitionsKept
<1>1. Defined /\ [Next]_vars => Defined' BY DefinedStep, Parts
<1>2. Init => Defined BY DefinedInit DEF Init, RecordsInit
<1> QED BY <1>1, <1>2, DefinedEnough, PTL DEF Spec
=============================================================================
