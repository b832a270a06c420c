----------------------------- MODULE Definitions -----------------------------
(***************************************************************************)
(* What launches are made of: skills, agents and launch profiles, in three *)
(* tables an operator edits.  A starting server puts back what it ships    *)
(* and is not there, but for what has a tombstone; the agents are read     *)
(* from a catalog in memory, which every write of an agent rebuilds.  A    *)
(* handler is a request of its own, and every call it makes is an action.  *)
(***************************************************************************)
EXTENDS Naturals

CONSTANTS
    Edits,        \* the requests under way
    DefNames,     \* ids of skills and profiles, names of agents
    Shipped,      \* the ones that builtins() has
    Configured,   \* the agents of superkick.yaml
    MaxCalls,     \* bound: requests
    MaxBoots      \* bound: starts of the server

ASSUME DefinitionAssumption ==
    Shipped \subseteq DefNames /\ Configured \subseteq DefNames /\ MaxCalls \in Nat /\ MaxBoots \in Nat

VARIABLES
    shelf,       \* the rows: origin (a profile is_readonly: builtin) and text
    graves,      \* builtin_deletions
    catalog,     \* AgentCatalogProvider: the agents as last listed
    edit,        \* what each request is at
    up,          \* the server runs
    calls, boots,
    gone,        \* history: names whose row was deleted, and nobody wrote since
    back,        \* history: the ones of these that a start put back
    cut,         \* history: skills whose last delete ended before the tombstone
    late,        \* history: requests that listed the agents before a write
    astray,      \* history: the last list to go in was late, or none did
    clobbered    \* history: an import on its own overwrote what was not imported

deletes   == <<gone, back, cut>>
rebuilds  == <<late, astray>>
defVars   == <<shelf, graves, catalog, edit, up, calls, boots, deletes, rebuilds, clobbered>>
defCounts == <<up, calls, boots>>

Kinds   == {"skill", "agent", "profile"}
Blank    == [origin |-> "none", text |-> "none"]
Shipment == [origin |-> "builtin", text |-> "shipped"]
Entry    == [origin |-> "custom", text |-> "yaml"]
NoneOf   == [n \in DefNames |-> Blank]

\* todo: the names it is about, seen: those an import has looked up; row: the
\* row as read, list: the agents as listed; alone: no other request has been
\* at its table.
NoEdit == [pc |-> "idle", op |-> "none", of |-> "none", todo |-> {}, seen |-> {}, row |-> Blank,
           list |-> NoneOf, alone |-> FALSE]

DefInit ==
    /\ shelf = [t \in Kinds |-> NoneOf] /\ graves = [t \in Kinds |-> {}]
    /\ catalog = NoneOf /\ edit = [r \in Edits |-> NoEdit]
    /\ up = FALSE /\ calls = 0 /\ boots = 0
    /\ gone = [t \in Kinds |-> {}] /\ back = [t \in Kinds |-> {}] /\ cut = {}
    /\ late = {} /\ astray = FALSE /\ clobbered = FALSE

AtTable(t)    == {o \in Edits : edit[o].of = t}
GoesOn(r, e)  == edit' = [edit EXCEPT ![r] = e]
Done(r)       == GoesOn(r, NoEdit)
Step(r, pc)   == GoesOn(r, [edit[r] EXCEPT !.pc = pc])

\* A change of the table is over for a skill or a profile, and an agent's goes
\* on with rebuild_catalog.
Changed(r)    == IF edit[r].of = "agent" THEN Step(r, "list") ELSE Done(r)

-----------------------------------------------------------------------------
(* A server that starts                                                    *)

\* Mutant: the tombstones are not asked.
SeededBlind(t, n) ==
    IF n \in Shipped /\ shelf[t][n] = Blank THEN Shipment ELSE shelf[t][n]

\* seed_defaults: what ships and is absent, unless it has a tombstone; and the
\* body of a shipped skill whose row has none.
Seeded(t, n) ==
    LET row == shelf[t][n] IN
    IF n \notin Shipped \ graves[t] THEN row
    ELSE IF row = Blank \/ (t = "skill" /\ row = [origin |-> "builtin", text |-> "null"]) THEN Shipment
    ELSE row

\* The catalog of the configuration, with the shipped agents its entries do not
\* name, goes in where there is no row; nobody asks the tombstones again.
Merged(n) ==
    IF Seeded("agent", n) # Blank THEN Seeded("agent", n)
    ELSE IF n \in Configured THEN Entry
    ELSE IF n \in Shipped THEN Shipment
    ELSE Blank

OnBoot(t, n) == IF t = "agent" THEN Merged(n) ELSE Seeded(t, n)

\* Nobody is served before it ends, and what is left of it by a crash the next
\* start completes.
Boot ==
    /\ ~up /\ boots < MaxBoots /\ up' = TRUE /\ boots' = boots + 1
    /\ shelf' = [t \in Kinds |-> [n \in DefNames |-> OnBoot(t, n)]]
    /\ catalog' = [n \in DefNames |-> Merged(n)] /\ astray' = FALSE
    /\ gone' = [t \in Kinds |-> {n \in gone[t] : OnBoot(t, n) = Blank}]
    /\ back' = [t \in Kinds |-> back[t] \cup {n \in gone[t] : OnBoot(t, n) # Blank}]
    /\ UNCHANGED <<graves, edit, calls, cut, late, clobbered>>

\* The skills whose row is gone and whose tombstone is about to be written.
Burying(requests) ==
    UNION {edit[r].todo : r \in {o \in requests : edit[o].of = "skill" /\ edit[o].pc = "bury"}}

Crash ==
    /\ up /\ up' = FALSE /\ edit' = [r \in Edits |-> NoEdit] /\ catalog' = NoneOf
    /\ cut' = cut \cup Burying(Edits) /\ late' = {}
    /\ UNCHANGED <<shelf, graves, calls, boots, gone, back, astray, clobbered>>

-----------------------------------------------------------------------------
(* The handlers: create, patch, delete, import, restore                    *)

FirstPc == [create |-> "look", patch |-> "look", delete |-> "look", import |-> "scan", restore |-> "unbury"]

\* Only skills are imported, several at once, and only a shipped agent is restored.
Asks(op, t, names) ==
    /\ op = "import" => t = "skill" /\ names # {}
    /\ op # "import" => \E n \in DefNames : names = {n}
    /\ op = "restore" => t = "agent" /\ names \subseteq Shipped

Call(r, op, t, names) ==
    /\ up /\ edit[r].pc = "idle" /\ Asks(op, t, names) /\ calls < MaxCalls /\ calls' = calls + 1
    /\ edit' = [o \in Edits |->
           IF o = r THEN [NoEdit EXCEPT !.pc = FirstPc[op], !.op = op, !.of = t, !.todo = names,
                                        !.alone = (AtTable(t) = {})]
           ELSE IF edit[o].of = t THEN [edit[o] EXCEPT !.alone = FALSE] ELSE edit[o]]
    /\ UNCHANGED <<shelf, graves, catalog, up, boots, deletes, rebuilds, clobbered>>

\* A conflict, a missing row and a read-only profile end the request.
Proceeds(op, t, row) ==
    \/ op = "create" /\ row = Blank
    \/ op = "patch" /\ row # Blank
    \/ op = "delete" /\ row # Blank /\ ~(t = "profile" /\ row.origin = "builtin")

LookUp(r, n) ==
    LET e == edit[r]  row == shelf[e.of][n] IN
    /\ e.pc = "look" /\ n \in e.todo
    /\ IF Proceeds(e.op, e.of, row)
       THEN GoesOn(r, [e EXCEPT !.pc = IF e.op = "delete" THEN "drop" ELSE "put", !.row = row])
       ELSE Done(r)
    /\ UNCHANGED <<shelf, graves, catalog, defCounts, deletes, rebuilds, clobbered>>

\* A row is written, or deleted: the agents were listed too early by those who
\* have yet to bring their list into the catalog.
Shelve(t, n, row) ==
    /\ shelf' = [shelf EXCEPT ![t] = [@ EXCEPT ![n] = row]]
    /\ gone' = [gone EXCEPT ![t] = IF row = Blank THEN @ \cup {n} ELSE @ \ {n}]
    /\ back' = [back EXCEPT ![t] = @ \ {n}]
    /\ late' = IF t = "agent" THEN late \cup {o \in Edits : edit[o].pc = "swap"} ELSE late
    /\ UNCHANGED <<cut, astray>>

\* Mutant: a patch keeps the origin the client sent.
OriginsAsSent(e) ==
    IF e.op = "restore" THEN {"builtin"}
    ELSE IF e.of = "profile" \/ e.op = "patch" THEN {"builtin", "custom"} ELSE {"custom"}

\* The origin is forced on a create and kept by a patch; whether a profile is
\* read-only is the client's to say.
Origins(e) ==
    IF e.op = "restore" THEN {"builtin"}
    ELSE IF e.of = "profile" THEN {"builtin", "custom"}
    ELSE IF e.op = "create" THEN {"custom"} ELSE {e.row.origin}

\* A skill may be written without a body.
TextsOf(r, e) ==
    IF e.op = "restore" THEN {"shipped"} ELSE IF e.of = "skill" THEN {r, "null"} ELSE {r}

Put(r, n) ==
    LET e == edit[r] IN
    /\ e.pc = "put" /\ n \in e.todo
    /\ \E o \in Origins(e), x \in TextsOf(r, e) : Shelve(e.of, n, [origin |-> o, text |-> x])
    /\ Changed(r)
    /\ UNCHANGED <<graves, catalog, defCounts, clobbered>>

Spared == {"none", "imported"}

\* Every candidate is looked up before the first is stored.
Scan(r, n) ==
    LET e == edit[r] IN
    /\ e.pc = "scan" /\ n \in e.todo
    /\ IF shelf["skill"][n].origin \in Spared
       THEN GoesOn(r, [e EXCEPT !.todo = @ \ {n}, !.seen = @ \cup {n},
                                !.pc = IF e.todo = {n} THEN "store" ELSE "scan"])
       ELSE Done(r)
    /\ UNCHANGED <<shelf, graves, catalog, defCounts, deletes, rebuilds, clobbered>>

Store(r, n) ==
    LET e == edit[r] IN
    /\ e.pc = "store" /\ n \in e.seen
    /\ Shelve("skill", n, [origin |-> "imported", text |-> r])
    /\ clobbered' = (clobbered \/ (e.alone /\ shelf["skill"][n].origin \notin Spared))
    /\ IF e.seen = {n} THEN Done(r) ELSE GoesOn(r, [e EXCEPT !.seen = @ \ {n}])
    /\ UNCHANGED <<graves, catalog, defCounts>>

\* The row goes first, unless somebody else dropped it; the tombstone is next if
\* the row that was looked up was a shipped one.
Drop(r, n) ==
    LET e == edit[r] IN
    /\ e.pc = "drop" /\ n \in e.todo
    /\ IF shelf[e.of][n] = Blank
       THEN Done(r) /\ UNCHANGED <<shelf, deletes, rebuilds>>
       ELSE /\ Shelve(e.of, n, Blank)
            /\ IF e.row.origin = "builtin" THEN Step(r, "bury") ELSE Changed(r)
    /\ UNCHANGED <<graves, catalog, defCounts, clobbered>>

Bury(r, n) ==
    LET e == edit[r] IN
    /\ e.pc = "bury" /\ n \in e.todo
    /\ graves' = [graves EXCEPT ![e.of] = @ \cup {n}]
    /\ cut' = IF e.of = "skill" THEN cut \ {n} ELSE cut
    /\ Changed(r)
    /\ UNCHANGED <<shelf, catalog, defCounts, gone, back, rebuilds, clobbered>>

\* restore_default clears the tombstone, then writes what is shipped.
Unbury(r) ==
    /\ edit[r].pc = "unbury" /\ Step(r, "put")
    /\ graves' = [graves EXCEPT !["agent"] = @ \ edit[r].todo]
    /\ UNCHANGED <<shelf, catalog, defCounts, deletes, rebuilds, clobbered>>

\* rebuild_catalog lists the agents ...
ListAgents(r) ==
    /\ edit[r].pc = "list" /\ GoesOn(r, [edit[r] EXCEPT !.pc = "swap", !.list = shelf["agent"]])
    /\ UNCHANGED <<shelf, graves, catalog, defCounts, deletes, rebuilds, clobbered>>

\* ... and replaces the catalog with the list.
Swap(r) ==
    /\ edit[r].pc = "swap" /\ catalog' = edit[r].list /\ Done(r)
    /\ astray' = (r \in late) /\ late' = late \ {r}
    /\ UNCHANGED <<shelf, graves, defCounts, deletes, clobbered>>

\* A call that fails, or a client that goes away, ends a request where it is.
Abandon(r) ==
    /\ edit[r].pc # "idle" /\ Done(r)
    /\ astray' = (astray \/ (edit[r].of = "agent" /\ edit[r].pc \in {"bury", "list", "swap"}))
    /\ late' = late \ {r} /\ cut' = cut \cup Burying({r})
    /\ UNCHANGED <<shelf, graves, catalog, defCounts, gone, back, clobbered>>

Edit(r) ==
    \/ \E op \in DOMAIN FirstPc, t \in Kinds, names \in SUBSET DefNames : Call(r, op, t, names)
    \/ \E n \in DefNames : LookUp(r, n) \/ Put(r, n) \/ Scan(r, n) \/ Store(r, n) \/ Drop(r, n) \/ Bury(r, n)
    \/ Unbury(r) \/ ListAgents(r) \/ Swap(r) \/ Abandon(r)

DefNext == Boot \/ Crash \/ \E r \in Edits : Edit(r)

-----------------------------------------------------------------------------
\* The names a start of the server puts back although they were deleted: a
\* shipped skill whose delete ended between the row and the tombstone; agents,
\* since the merge of the configuration does not ask the tombstones; a profile
\* that a patch has made deletable, since it gets none.
PutBack == [skill |-> cut, agent |-> Shipped \cup Configured, profile |-> Shipped]

\* "A hard-deleted builtin stays gone across reboots": a row that a delete took,
\* shipped or not, is not there again before a request writes it, whatever
\* requests run, are dropped half way or are cut by a crash; and a start puts
\* back no other than the names above, so no skill whose tombstone was written.
DeletedStaysGone ==
    \A t \in Kinds : (\A n \in gone[t] : shelf[t][n] = Blank) /\ back[t] \subseteq PutBack[t]

\* "so the next launch resolves the edit without a restart": when no agent is
\* being written the catalog is the table, however requests met, unless the
\* last list to go in was read before another's write, or a request ended
\* between its write and its list and no list went in since.
CatalogFollows == up /\ ~astray /\ AtTable("agent") = {} => catalog = shelf["agent"]

\* "a client PATCH can never flip a builtin", and it cannot make one either:
\* only what is shipped is marked so, only skills are marked as imported.
NoForgery ==
    \A n \in DefNames :
        /\ \A t \in {"skill", "agent"} : shelf[t][n].origin = "builtin" => n \in Shipped
        /\ \A t \in {"agent", "profile"} : shelf[t][n].origin # "imported"

\* The definitions an operator edits are as he left them; and "import never
\* overwrites" a shipped or a custom skill, short of another request at once.
DefinitionsKept == DeletedStaysGone /\ CatalogFollows /\ NoForgery /\ ~clobbered
=============================================================================
