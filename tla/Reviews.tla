------------------------------ MODULE Reviews ------------------------------
(***************************************************************************)
(* The review an operator stages on one pull request: threads and comments *)
(* in the local tables, the requests that change them, and the submissions *)
(* that post what is open to GitHub and then resolve it.  A repository     *)
(* operation is a transaction; between a handler's check and its operation *)
(* everybody else may act.  (The threads of a run differ in the check.)    *)
(***************************************************************************)
EXTENDS Integers, FiniteSets

CONSTANTS
    Threads, Comments,   \* rows that may come to be: numbers, used in their order
    Writers, Submits,    \* requests at work at once
    MaxNotes,            \* bound: requests
    MaxSlips             \* bound: failing or dropped submissions

ASSUME NoteAssumption == /\ Threads \subseteq Nat \ {0} /\ Comments \subseteq Nat \ {0}
                         /\ MaxNotes \in Nat /\ MaxSlips \in Nat

None == 0

VARIABLES
    thread,     \* diff_review_threads: "none", "open", "resolved", "gone"
    comment,    \* diff_review_comments: thread, version of the text, on record
    writer,     \* each request: what it is about to do
    submit,     \* each submission: control point and locals
    posted,     \* texts in the reviews GitHub accepted
    sent,       \* reviews GitHub accepted with a thread since it was opened
    closer,     \* who resolved a thread: "hand" or "review"
    unread,     \* comments whose text no submission has read
    overlapped, \* two submissions were at work at once
    notes, slips

reviewVars == <<thread, comment, writer, submit, posted, sent, closer, unread, overlapped, notes, slips>>
tables     == <<thread, comment, closer, unread>>
github     == <<posted, sent>>

NoComment == [of |-> None, text |-> 0, live |-> FALSE]
NoWrite   == [op |-> "idle", of |-> None, on |-> None, count |-> 0]
NoSubmit  == [pc |-> "idle", open |-> {}, left |-> {}, got |-> {}]

ReviewInit ==
    /\ thread = [t \in Threads |-> "none"] /\ comment = [c \in Comments |-> NoComment]
    /\ writer = [w \in Writers |-> NoWrite] /\ submit = [s \in Submits |-> NoSubmit]
    /\ posted = {} /\ sent = [t \in Threads |-> 0] /\ closer = [t \in Threads |-> "hand"]
    /\ unread = {} /\ overlapped = FALSE /\ notes = 0 /\ slips = 0

Present(t)  == thread[t] \in {"open", "resolved"}
Of(t)       == {c \in Comments : comment[c].live /\ comment[c].of = t}
NextThread(t)  == thread[t] = "none" /\ \A u \in Threads : u < t => thread[u] # "none"
NextComment(c) == comment[c].text = 0 /\ \A d \in Comments : d < c => comment[d].text # 0
Note == notes < MaxNotes /\ notes' = notes + 1 /\ UNCHANGED slips
Slip == slips < MaxSlips /\ slips' = slips + 1 /\ UNCHANGED notes

-----------------------------------------------------------------------------
(* Handlers of threads and comments                                        *)

Say(c, t) == /\ NextComment(c) /\ unread' = unread \cup {c}
             /\ comment' = [comment EXCEPT ![c] = [of |-> t, text |-> 1, live |-> TRUE]]

\* create_thread, with its first comment in one transaction.
CreateThread(t, c) ==
    /\ NextThread(t) /\ Say(c, t) /\ Note
    /\ thread' = [thread EXCEPT ![t] = "open"]
    /\ UNCHANGED <<writer, submit, posted, sent, closer, overlapped>>

\* require_thread_for_pr, and whether the comment is one of the thread's.
Check(w, op, t, c) ==
    /\ writer[w].op = "idle" /\ Present(t) /\ Note
    /\ IF op \in {"edit", "drop"} THEN c \in Of(t) ELSE c = None
    /\ writer' = [writer EXCEPT ![w] = [op |-> op, of |-> t, on |-> c, count |-> Cardinality(Of(t))]]
    /\ UNCHANGED <<tables, submit, github, overlapped>>

Does(w, op) == writer[w].op = op /\ writer' = [writer EXCEPT ![w] = NoWrite]
Rest        == UNCHANGED <<submit, posted, overlapped, notes, slips>>

\* The foreign key refuses a comment on a thread that has gone.
AddComment(w, c) ==
    /\ Does(w, "add")
    /\ IF Present(writer[w].of) THEN Say(c, writer[w].of) ELSE UNCHANGED <<comment, unread>>
    /\ UNCHANGED <<thread, closer, sent>> /\ Rest

EditComment(w) ==
    LET c == writer[w].on IN
    /\ Does(w, "edit")
    /\ IF comment[c].live
       THEN comment' = [comment EXCEPT ![c].text = @ + 1] /\ unread' = unread \cup {c}
       ELSE UNCHANGED <<comment, unread>>
    /\ UNCHANGED <<thread, closer, sent>> /\ Rest

\* Deleting a thread deletes its comments.
Remove(t) ==
    /\ thread' = [thread EXCEPT ![t] = "gone"]
    /\ comment' = [c \in Comments |-> IF comment[c].of = t THEN [comment[c] EXCEPT !.live = FALSE] ELSE comment[c]]

\* Mutant: the comments are counted when the handler checks.
DropCommentLate(w) ==
    LET c == writer[w].on IN
    /\ Does(w, "drop")
    /\ IF ~comment[c].live THEN UNCHANGED <<thread, comment>>
       ELSE IF writer[w].count <= 1 THEN Remove(comment[c].of)
       ELSE comment' = [comment EXCEPT ![c].live = FALSE] /\ UNCHANGED thread
    /\ UNCHANGED <<closer, unread, sent>> /\ Rest

\* delete_comment: the last one takes its thread with it.
DropComment(w) ==
    LET c == writer[w].on IN
    /\ Does(w, "drop")
    /\ IF ~comment[c].live THEN UNCHANGED <<thread, comment>>
       ELSE IF Cardinality(Of(comment[c].of)) <= 1 THEN Remove(comment[c].of)
       ELSE comment' = [comment EXCEPT ![c].live = FALSE] /\ UNCHANGED thread
    /\ UNCHANGED <<closer, unread, sent>> /\ Rest

DropThread(w) ==
    /\ Does(w, "delete")
    /\ IF Present(writer[w].of) THEN Remove(writer[w].of) ELSE UNCHANGED <<thread, comment>>
    /\ UNCHANGED <<closer, unread, sent>> /\ Rest

\* set_thread_resolved writes whatever the state was.
SetResolved(t, state, by) ==
    IF Present(t)
    THEN thread' = [thread EXCEPT ![t] = state] /\ closer' = [closer EXCEPT ![t] = by]
    ELSE UNCHANGED <<thread, closer>>

ResolveByHand(w) ==
    /\ Does(w, "resolve") /\ SetResolved(writer[w].of, "resolved", "hand")
    /\ UNCHANGED <<comment, unread, sent>> /\ Rest

Reopen(w) ==
    /\ Does(w, "reopen") /\ SetResolved(writer[w].of, "open", "hand")
    /\ sent' = [sent EXCEPT ![writer[w].of] = 0]
    /\ UNCHANGED <<comment, unread>> /\ Rest

Write(w) ==
    \/ \E c \in Comments : AddComment(w, c)
    \/ EditComment(w)
    \/ DropComment(w)
    \/ DropThread(w)
    \/ ResolveByHand(w)
    \/ Reopen(w)

-----------------------------------------------------------------------------
(* PrReviewService::submit                                                 *)

Moves(s, r) == submit' = [submit EXCEPT ![s] = r]

\* The thread rows first, then the comments of one thread after another.
List(s) ==
    LET open == {t \in Threads : thread[t] = "open"} IN
    /\ submit[s].pc = "idle" /\ Note
    /\ Moves(s, [pc |-> IF open = {} THEN "post" ELSE "load", open |-> open, left |-> open, got |-> {}])
    /\ overlapped' = (overlapped \/ \E u \in Submits : submit[u].pc # "idle")
    /\ UNCHANGED <<tables, writer, github>>

Load(s, t) ==
    LET left == submit[s].left \ {t} IN
    /\ submit[s].pc = "load" /\ t \in submit[s].left
    /\ Moves(s, [submit[s] EXCEPT !.pc = IF left = {} THEN "post" ELSE "load", !.left = left,
                                  !.got = @ \cup {<<c, comment[c].text>> : c \in Of(t)}])
    /\ unread' = unread \ Of(t)
    /\ UNCHANGED <<thread, comment, closer, writer, github, overlapped, notes, slips>>

Accepts(s) == /\ posted' = posted \cup submit[s].got
              /\ sent' = [t \in Threads |-> sent[t] + IF t \in submit[s].open THEN 1 ELSE 0]

ToResolve(s, left) == Moves(s, IF left = {} THEN NoSubmit ELSE [submit[s] EXCEPT !.pc = "resolve", !.left = left])

\* Mutants: only what has a line in the diff is resolved, or posted.
PostAnchoredResolves(s) ==
    /\ submit[s].pc = "post" /\ Accepts(s)
    /\ \E anchored \in SUBSET submit[s].open : ToResolve(s, anchored)
    /\ UNCHANGED <<tables, writer, overlapped, notes, slips>>

PostAnchoredOnly(s) ==
    /\ submit[s].pc = "post" /\ ToResolve(s, submit[s].open)
    /\ \E anchored \in SUBSET submit[s].open :
          posted' = posted \cup {x \in submit[s].got : comment[x[1]].of \in anchored}
    /\ sent' = [t \in Threads |-> sent[t] + IF t \in submit[s].open THEN 1 ELSE 0]
    /\ UNCHANGED <<tables, writer, overlapped, notes, slips>>

\* The files of the diff are fetched and the review posted; what has no line
\* in the diff goes into the body.  An approval may have nothing to say.
Post(s) ==
    /\ submit[s].pc = "post" /\ Accepts(s) /\ ToResolve(s, submit[s].open)
    /\ UNCHANGED <<tables, writer, overlapped, notes, slips>>

\* A failing query or gh, or nothing to say; and an answer of GitHub that is lost.
SubmitFails(s) ==
    /\ submit[s].pc \in {"load", "post"} /\ Moves(s, NoSubmit)
    /\ Slip /\ \/ UNCHANGED github
               \/ submit[s].pc = "post" /\ Accepts(s)
    /\ UNCHANGED <<tables, writer, overlapped>>

Resolve(s, t) ==
    /\ submit[s].pc = "resolve" /\ t \in submit[s].left /\ ToResolve(s, submit[s].left \ {t})
    /\ SetResolved(t, "resolved", "review")
    /\ UNCHANGED <<comment, unread, writer, github, overlapped, notes, slips>>

\* One write that fails is only logged; a dropped handler leaves the rest.
ResolveFails(s) ==
    /\ submit[s].pc = "resolve" /\ Slip
    /\ \E left \in SUBSET submit[s].left : left # submit[s].left /\ ToResolve(s, left)
    /\ UNCHANGED <<tables, writer, github, overlapped>>

SubmitStep(s) ==
    List(s) \/ Post(s) \/ SubmitFails(s) \/ ResolveFails(s) \/ \E t \in Threads : Load(s, t) \/ Resolve(s, t)

ReviewNext ==
    \/ \E t \in Threads, c \in Comments : CreateThread(t, c)
    \/ \E w \in Writers, op \in {"add", "edit", "drop", "delete", "resolve", "reopen"},
          t \in Threads, c \in Comments \cup {None} : Check(w, op, t, c)
    \/ \E w \in Writers : Write(w)
    \/ \E s \in Submits : SubmitStep(s)
=============================================================================
