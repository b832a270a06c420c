-------------------------------- MODULE Notes --------------------------------
(***************************************************************************)
(* The workspace context of an issue and its append-only ledger.  A request*)
(* finds the context or attaches one after asking Linear, then adds an     *)
(* entry or lists a page; the step runner reads the ledger into its prompt *)
(* and appends what a step came to.  Between two accesses the others act.  *)
(* One issue is modelled (issues share nothing); a context or an entry is  *)
(* the time it was made at, which is what the queries order by.            *)
(***************************************************************************)
EXTENDS Integers, FiniteSets

CONSTANTS
    Callers,  \* requests and steps at work at once
    PageSize, \* limit
    MaxMints  \* bound: contexts and entries made

ASSUME NotesAssumption == PageSize \in Nat \ {0} /\ MaxMints \in Nat

NoContext == 0
Start     == 0   \* no cursor

VARIABLES
    contexts, \* issue_workspace_contexts: captured_at
    entries,  \* memory_entries: created_at, context_id
    tick,     \* the clock
    call,     \* each caller: what it wants, its control point, context, stamp
    walk,     \* the reader of the ledger: cursor, what it has been shown
    due,      \* entries on record when the walk began
    twice,    \* an entry was shown twice in one walk
    raced     \* two requests were attaching at once

noteVars == <<contexts, entries, tick, call, walk, due, twice, raced>>

NoCall  == [want |-> "none", pc |-> "idle", of |-> NoContext, at |-> 0]
NewWalk == [cursor |-> Start, shown |-> {}, over |-> FALSE]

NotesInit ==
    /\ contexts = {} /\ entries = {} /\ tick = 0 /\ call = [q \in Callers |-> NoCall]
    /\ walk = NewWalk /\ due = {} /\ twice = FALSE /\ raced = FALSE

Latest(S)  == IF S = {} THEN NoContext ELSE CHOOSE x \in S : \A y \in S : y <= x
Top(S, n)  == {x \in S : Cardinality({y \in S : y > x}) < n}
Lowest(S)  == CHOOSE x \in S : \A y \in S : x <= y

\* list_page: newest first, strictly older than the cursor.
OlderThan(c, cursor) == {e.at : e \in {d \in entries : d.of = c /\ (cursor = Start \/ d.at < cursor)}}
Window(c, cursor) == Top(OlderThan(c, cursor), PageSize + 1)
Page(c, cursor)   == Top(Window(c, cursor), PageSize)
More(c, cursor)   == Cardinality(Window(c, cursor)) > PageSize

\* Mutant: the cursor is taken before the lookahead row is cut off.
CursorPastPage(c, cursor) == IF More(c, cursor) THEN Lowest(Window(c, cursor)) ELSE Start

NextCursor(c, cursor) == IF More(c, cursor) THEN Lowest(Page(c, cursor)) ELSE Start

\* The context is at hand: the request goes on to what it wants.  The entry of
\* an append gets its time here, its row with the next access.
Has(q, c) ==
    LET append == call[q].want = "append" IN
    /\ append => tick < MaxMints
    /\ tick' = IF append THEN tick + 1 ELSE tick
    /\ call' = [call EXCEPT ![q] =
          IF call[q].want = "open" THEN NoCall
          ELSE [@ EXCEPT !.of = c, !.at = IF append THEN tick' ELSE 0,
                         !.pc = IF append THEN "insert" ELSE "page"]]

Goes(q, to) == call' = [call EXCEPT ![q].pc = to] /\ UNCHANGED tick

-----------------------------------------------------------------------------
(* ensure_context_for_issue *)

\* One page of the ledger is asked for at a time.
Request(q, want) ==
    /\ call[q].pc = "idle"
    /\ want = "page" => ~walk.over /\ \A o \in Callers : call[o].want # "page"
    /\ due' = IF want = "page" /\ walk = NewWalk THEN entries ELSE due
    /\ call' = [call EXCEPT ![q] = [NoCall EXCEPT !.want = want, !.pc = "probe"]]
    /\ UNCHANGED <<contexts, entries, tick, walk, twice, raced>>

\* Both probes: the issue's latest context, by either form of its id.
Probe(q) ==
    /\ call[q].pc = "probe"
    /\ IF contexts # {} THEN Has(q, Latest(contexts)) ELSE Goes(q, "lookup")
    /\ UNCHANGED <<contexts, entries, walk, due, twice, raced>>

ResolveIssue(q) ==
    /\ call[q].pc = "lookup" /\ Goes(q, "again")
    /\ UNCHANGED <<contexts, entries, walk, due, twice, raced>>

ProbeAgain(q) ==
    /\ call[q].pc = "again"
    /\ \/ contexts # {} /\ Has(q, Latest(contexts)) /\ UNCHANGED raced
       \/ /\ contexts = {} /\ tick < MaxMints
          /\ tick' = tick + 1
          /\ call' = [call EXCEPT ![q].pc = "attach", ![q].at = tick']
          /\ raced' = (raced \/ \E o \in Callers : call[o].pc = "attach")
    /\ UNCHANGED <<contexts, entries, walk, due, twice>>

Attach(q) ==
    /\ call[q].pc = "attach" /\ contexts' = contexts \cup {call[q].at} /\ Has(q, call[q].at)
    /\ UNCHANGED <<entries, walk, due, twice, raced>>

-----------------------------------------------------------------------------
(* append_memory, append_step_memory_entry *)
AppendEntry(q) ==
    /\ call[q].pc = "insert" /\ entries' = entries \cup {[at |-> call[q].at, of |-> call[q].of]}
    /\ call' = [call EXCEPT ![q] = NoCall]
    /\ UNCHANGED <<contexts, tick, walk, due, twice, raced>>

\* try_load_workspace_context: no context, no ledger; the one that was found is
\* the one the step's summary goes to, long after.
LoadContext(q) ==
    /\ call[q].pc = "idle" /\ contexts # {}
    /\ call' = [call EXCEPT ![q] = [NoCall EXCEPT !.want = "append", !.pc = "work", !.of = Latest(contexts)]]
    /\ UNCHANGED <<contexts, entries, tick, walk, due, twice, raced>>

StepOver(q) ==
    /\ call[q].pc = "work" /\ Has(q, call[q].of)
    /\ UNCHANGED <<contexts, entries, walk, due, twice, raced>>

(* list_memory *)
ListPage(q) ==
    /\ call[q].pc = "page"
    /\ LET page == Page(call[q].of, walk.cursor) IN
          /\ twice' = (twice \/ page \cap walk.shown # {})
          /\ walk' = [cursor |-> NextCursor(call[q].of, walk.cursor), shown |-> walk.shown \cup page,
                      over |-> ~More(call[q].of, walk.cursor)]
    /\ call' = [call EXCEPT ![q] = NoCall]
    /\ UNCHANGED <<contexts, entries, tick, due, raced>>

\* An access fails, Linear does not answer, an entry is refused, the client or
\* the step is gone.
Gives(q) ==
    /\ call[q].pc # "idle" /\ call' = [call EXCEPT ![q] = NoCall]
    /\ UNCHANGED <<contexts, entries, tick, walk, due, twice, raced>>

\* The panel is opened anew.
WalkAgain ==
    /\ \A o \in Callers : call[o].want # "page"
    /\ walk' = NewWalk /\ due' = {}
    /\ UNCHANGED <<contexts, entries, tick, call, twice, raced>>

NotesNext ==
    \/ \E q \in Callers :
          \/ \E want \in {"open", "append", "page"} : Request(q, want)
          \/ Probe(q) \/ ResolveIssue(q) \/ ProbeAgain(q) \/ Attach(q)
          \/ AppendEntry(q) \/ LoadContext(q) \/ StepOver(q) \/ ListPage(q) \/ Gives(q)
    \/ WalkAgain
=============================================================================
