------------------------------ MODULE Delivery ------------------------------
(***************************************************************************)
(* How work leaves: a run's worktree is shipped and its pull request       *)
(* followed, the diff of an issue's pull request is read, a review is      *)
(* written and posted; and what is written down: an orchestrator's session,*)
(* the ledger of an issue, what an operator leaves for a task, and the     *)
(* definitions launches are made of.  They share no state (a push is a push*)
(* to the second, whoever's it is), so all but one are at rest in every    *)
(* behaviour: their interleavings would show nothing.                      *)
(***************************************************************************)
EXTENDS PullRequests, IssueDiffs, Reviews, Orchestrators, Notes, Interventions, Definitions

\* What is written down: a session and what its requests do, a ledger, what is
\* left for a task, and the definitions launches are made of.
recordVars == <<orchVars, noteVars, wishVars, defVars>>

RecordsInit == OrchInit /\ NotesInit /\ WishInit /\ DefInit

Orchestrate == NotesInit /\ WishInit /\ DefInit /\ OrchNext /\ UNCHANGED <<noteVars, wishVars, defVars>>
TakeNote    == OrchInit /\ WishInit /\ DefInit /\ NotesNext /\ UNCHANGED <<orchVars, wishVars, defVars>>
Intervene   == OrchInit /\ NotesInit /\ DefInit /\ WishNext /\ UNCHANGED <<orchVars, noteVars, defVars>>
Define      == OrchInit /\ NotesInit /\ WishInit /\ DefNext /\ UNCHANGED <<orchVars, noteVars, wishVars>>

RecordsNext == Orchestrate \/ TakeNote \/ Intervene \/ Define

vars == <<prVars, diffVars, reviewVars, recordVars>>

Init == PrInit /\ DiffInit /\ ReviewInit /\ RecordsInit

Deliver == DiffInit /\ ReviewInit /\ RecordsInit /\ PrNext /\ UNCHANGED <<diffVars, reviewVars, recordVars>>
Diff    == PrInit /\ ReviewInit /\ RecordsInit /\ DiffNext /\ UNCHANGED <<prVars, reviewVars, recordVars>>
Review  == PrInit /\ DiffInit /\ RecordsInit /\ ReviewNext /\ UNCHANGED <<prVars, diffVars, recordVars>>
Record  == PrInit /\ DiffInit /\ ReviewInit /\ RecordsNext /\ UNCHANGED <<prVars, diffVars, reviewVars>>

Next == Deliver \/ Diff \/ Review \/ Record
Spec == Init /\ [][Next]_vars

-----------------------------------------------------------------------------
(***************************************************************************)
(* What an operator relies on who ships a run and reviews a pull request.  *)
(***************************************************************************)

Renaming == \E s \in Ships : ship[s].pc \in {"persist", "rollback"}

\* "persist run.branch_name before the push so a later push failure leaves the
\* DB consistent with the local branch", and "a rename would orphan" a pull
\* request: wherever a ship fails or is dropped short of a lapse, the worktree
\* and the run's row name one branch, for two ships at once too (with two at
\* work a third that takes an old name back can break it) and for any number
\* one after another; and these leave every open pull request and the row that
\* follows it under that name too.
BranchAgrees ==
    lapses = 0 =>
        /\ asks <= 2 \/ ~clashed => local = branch \/ Renaming
        /\ ~clashed => /\ \A n \in DOMAIN prs : IsOpen(n) => prs[n].head = branch
                       /\ row.head \in {NoName, branch}

\* The diff shown with a head is never older than that head: what is cached
\* under it was fetched when the pull request had got that far, whichever of
\* the calls to GitHub fail and whoever pushes or syncs in between.
CacheNotStale == \A h \in Heads : cache[h] # NoSha => cache[h] >= h

\* The thread that is on record has a comment and the comment on record has its
\* thread, whatever requests add, drop and delete at once.
NoEmptyThread ==
    /\ \A t \in Threads : Present(t) => Of(t) # {}
    /\ \A c \in Comments : comment[c].live => Present(comment[c].of)

\* "After a successful submit the included threads are resolved so a re-submit
\* posts nothing new": with no two submissions at work at once, a thread is
\* posted once for each time it was opened.
PostedOnce == ~overlapped /\ slips = 0 => \A t \in Threads : sent[t] <= 1

\* "so they are never silently dropped": a thread that a submission resolved
\* has been posted with every text its comments had when it was read.
NothingDropped ==
    ~overlapped =>
        \A t \in Threads : thread[t] = "resolved" /\ closer[t] = "review" =>
            \A c \in Of(t) : c \in unread \/ <<c, comment[c].text>> \in posted

\* The rows of a review agree, and a submission posts everything that is open,
\* and posts it once.
ReviewKept == NoEmptyThread /\ PostedOnce /\ NothingDropped
-----------------------------------------------------------------------------
(* What an operator relies on who comes back to a record.                  *)

\* "in the same transaction so the pointer cannot reference a missing row": the
\* latest checkpoint of a session is on record, whatever patches overwrite it.
PointerOnRecord == session.latest \in rows \cup {Unset}

\* As long as its requests come one after another, a session shows the newest
\* of its checkpoints and the cursor named last, and has moved along the edges
\* of its status machine only: a terminal one has not come back.
SessionFollows ==
    ~tangled => /\ IF rows = {} THEN session.latest = Unset ELSE session.latest \in NewestOf(rows)
                /\ session.cursor = named
                /\ ~skipped

OrchestratorKept == PointerOnRecord /\ SessionFollows

\* "guards against a concurrent attach": unless two requests get past that
\* guard together the issue has one context, and then a walk through its ledger
\* shows every entry that was on record when it began, and none twice, whoever
\* appends in between.
LedgerKept ==
    ~raced => /\ Cardinality(contexts) <= 1
              /\ ~twice
              /\ walk.over => {e.at : e \in due} \subseteq walk.shown

\* An intervention is consumed only when an agent was given it, is given again
\* only for a prompt whose delivery went unrecorded, is announced once, and
\* goes to the step it was meant for, also when the task is purged meanwhile.
WishesKept ==
    \A w \in Wishes :
        LET given == {s \in Steps : told[w][s] > 0} IN
        /\ wish[w].consumed => given # {}
        /\ \A s \in Steps : told[w][s] <= 1 + fails
        /\ Cardinality(given) <= 1 + fails
        /\ heard[w] <= 1 /\ (heard[w] = 1 => wish[w].consumed)
        /\ wish[w].target # AnyStep => given \subseteq {wish[w].target}

\* What is left for a reader or an agent reaches it.
NotesKept == LedgerKept /\ WishesKept
=============================================================================
