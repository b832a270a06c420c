------------------------------ MODULE RunEngine ------------------------------
(***************************************************************************)
(* One playbook run: its row, the questions it puts to the operator        *)
(* (interrupts and approval requests), and who works on them:              *)
(*   the engine   StepEngine::execute, a task spawned when the run is made *)
(*   cancellers   RunService::cancel_run, one per request                  *)
(*   operators    answer_interrupt, attention reply and attention cancel   *)
(*   the setup    the background task that runs the setup commands         *)
(* and a server restart, after which nobody resumes the run.  The engine   *)
(* keeps the run in memory and writes the whole row; so does a canceller.  *)
(* Every database access is an action of its own.                          *)
(***************************************************************************)
EXTENDS Integers, Sequences

-----------------------------------------------------------------------------
(* RunState: the status machine of superkick-core for runs, and the state  *)
(* each step of a playbook puts its run in.                                *)

RunStates == {"Queued", "Preparing", "Planning", "Coding", "RunningCommands", "Reviewing",
              "WaitingHuman", "OpeningPr", "Completed", "Failed", "Cancelled"}
RunTerminal == {"Completed", "Failed", "Cancelled"}

Working == {"Preparing", "Planning", "Coding", "RunningCommands", "Reviewing", "OpeningPr"}

\* Queued cannot fail, and the only way to Completed is through OpeningPr.
RunEdges ==
    ({"Queued"} \X {"Preparing", "WaitingHuman", "Cancelled"})
    \cup (Working \X {"WaitingHuman", "Failed", "Cancelled"})
    \cup ({"WaitingHuman"} \X (Working \cup {"Failed", "Cancelled"}))
    \cup {<<"Preparing", "Planning">>, <<"Planning", "Coding">>, <<"Coding", "RunningCommands">>,
          <<"RunningCommands", "Reviewing">>, <<"RunningCommands", "Coding">>,
          <<"Reviewing", "OpeningPr">>, <<"Reviewing", "Coding">>, <<"OpeningPr", "Completed">>}

\* step_key_to_run_state, for the steps a playbook may have.
StateOf == [Prepare |-> "Preparing", Plan |-> "Planning", Code |-> "Coding",
            Commands |-> "RunningCommands", ReviewSwarm |-> "Reviewing", CreatePr |-> "OpeningPr"]
StepKeys == DOMAIN StateOf

-----------------------------------------------------------------------------

CONSTANTS
    Playbook,        \* build_step_plan: Prepare, then the steps of the workflow
    Checkpoints,     \* the steps that need an approval
    SemiAuto,        \* the plan is reviewed before Code
    AskHuman,        \* a step out of attempts asks, or fails the run
    HasSetup,        \* setup commands run beside the steps up to Code
    TimeLimited,     \* the budget has a duration
    RetryLimit,      \* retries the budget allows
    MaxAttempts,     \* attempts of one step
    Cancellers, Operators,
    PreflightMayFail,
    MaxAsks,         \* bound: questions asked
    MaxCancels,      \* bound: cancel requests
    MaxCrashes       \* bound: server restarts

ASSUME PlaybookAssumption ==
    /\ Playbook \in Seq(StepKeys) /\ Len(Playbook) >= 1 /\ Playbook[1] = "Prepare"
    /\ \A i \in 2 .. Len(Playbook) : Playbook[i] # "Prepare"
    /\ Checkpoints \subseteq StepKeys
ASSUME SwitchAssumption == {SemiAuto, AskHuman, HasSetup, TimeLimited, PreflightMayFail} \subseteq BOOLEAN
ASSUME LimitAssumption ==
    /\ RetryLimit \in Nat /\ MaxAttempts \in Nat \ {0}
    /\ MaxAsks \in Nat /\ MaxCancels \in Nat /\ MaxCrashes \in Nat

VARIABLES
    row,        \* the run in the database: state, pause kind, worktree path set
    asks,       \* interrupts and approval requests, in creation order
    retried,    \* sum of attempt - 1 over the run's steps
    tree,       \* the worktree exists on disk
    token,      \* the cancellation token has fired
    pc, mem, e, \* the engine: control point, its copy of the run, its locals
    setup,      \* the setup task
    xpc, xrow,  \* cancellers: control point, the run as read
    apc, aq,    \* operators: control point, the question being answered
    cancels, crashes

db     == <<row, asks, retried, tree>>
engine == <<pc, mem, e>>
xVars  == <<xpc, xrow>>
aVars  == <<apc, aq>>
bounds == <<cancels, crashes>>
vars   == <<db, token, engine, setup, xVars, aVars, bounds>>
others == <<token, xVars, aVars, bounds>>

NewRun    == [state |-> "Queued", pause |-> "none", tree |-> FALSE]
\* k: position in the playbook; grant: retries the operator has waived; copy:
\* the run as create_interrupt read it; q, ans: the question and its answer;
\* kind: why the engine asks; after: what follows the end of the setup task.
NewLocals == [k |-> 1, attempt |-> 1, grant |-> 0, copy |-> NewRun, q |-> 1, ans |-> "none",
              kind |-> "blocked", after |-> "leave"]

Init ==
    /\ row = NewRun /\ asks = <<>> /\ retried = 0 /\ tree = FALSE /\ token = FALSE
    /\ pc = "preflight" /\ mem = NewRun /\ e = NewLocals /\ setup = "none"
    /\ xpc = [x \in Cancellers |-> "idle"] /\ xrow = [x \in Cancellers |-> NewRun]
    /\ apc = [a \in Operators |-> "idle"] /\ aq = [a \in Operators |-> 1]
    /\ cancels = 0 /\ crashes = 0

May(from, to) == <<from, to>> \in RunEdges
Key           == Playbook[e.k]

\* Run::transition_to in memory, then RunRepo::update; a refused transition
\* is an error, which ends the engine where the code has `?`.
Save(m, next) == mem' = m /\ row' = m /\ pc' = next
Transition(s, pause, next) ==
    IF May(mem.state, s)
    THEN Save([mem EXCEPT !.state = s, !.pause = pause], next)
    ELSE UNCHANGED <<mem, row>> /\ pc' = "leave"

-----------------------------------------------------------------------------
(* StepEngine::execute and its step loop                                   *)

PreflightPasses ==
    /\ pc = "preflight" /\ pc' = "next"
    /\ UNCHANGED <<db, mem, e, setup, others>>

PreflightFails ==
    /\ PreflightMayFail /\ pc = "preflight" /\ pc' = "fail"
    /\ UNCHANGED <<db, mem, e, setup, others>>

\* The token is looked at between two steps, and not after the last one.
NextStep ==
    /\ pc = "next"
    /\ \/ e.k > Len(Playbook) /\ pc' = "complete" /\ UNCHANGED e
       \/ /\ e.k <= Len(Playbook) /\ token
          /\ pc' = "abortSetup" /\ e' = [e EXCEPT !.after = "cancelRun"]
       \/ /\ e.k <= Len(Playbook) /\ ~token
          /\ pc' = (IF Key = "Code" THEN "awaitSetup" ELSE "gate") /\ UNCHANGED e
    /\ UNCHANGED <<db, mem, setup, others>>

\* Before Code: the setup task must have succeeded, and the plan is reviewed.
AwaitSetup ==
    /\ pc = "awaitSetup" /\ setup # "running" /\ setup' = "none"
    /\ \/ setup = "failed" /\ pc' = "leave" /\ UNCHANGED e
       \/ setup # "failed" /\ ~SemiAuto /\ pc' = "gate" /\ UNCHANGED e
       \/ setup # "failed" /\ SemiAuto /\ pc' = "ask" /\ e' = [e EXCEPT !.kind = "review"]
    /\ UNCHANGED <<db, mem, others>>

\* The step's state, unless a gate has already put the run in it.
EnterStep ==
    LET s == StateOf[Key] IN
    /\ pc = "enter"
    /\ IF mem.state = s \/ May(mem.state, s)
       THEN Save([mem EXCEPT !.state = s], "exec") /\ e' = [e EXCEPT !.attempt = 1]
       ELSE pc' = "fail" /\ UNCHANGED <<row, mem, e>>
    /\ UNCHANGED <<asks, retried, tree, setup, others>>

\* Every step but Prepare needs the worktree path.
StepSucceeds ==
    /\ pc = "exec" /\ Key # "Prepare" /\ mem.tree
    /\ pc' = "next" /\ e' = [e EXCEPT !.k = @ + 1]
    /\ UNCHANGED <<db, mem, setup, others>>

\* execute_prepare: the worktree is made, then its path is written ...
Prepare ==
    /\ pc = "exec" /\ Key = "Prepare" /\ pc' = "prepared" /\ tree' = TRUE
    /\ UNCHANGED <<row, asks, retried, mem, e, setup, others>>

\* ... and the setup commands start in it.
Prepared ==
    /\ pc = "prepared" /\ Save([mem EXCEPT !.tree = TRUE], "next")
    /\ e' = [e EXCEPT !.k = @ + 1]
    /\ setup' = IF HasSetup THEN "running" ELSE "none"
    /\ UNCHANGED <<asks, retried, tree, others>>

\* Mutant: one attempt too many (an inclusive bound on the retries).
StepFailsOver ==
    /\ pc = "exec" /\ ~token
    /\ \/ /\ e.attempt <= MaxAttempts
          /\ e' = [e EXCEPT !.attempt = @ + 1] /\ retried' = retried + 1 /\ UNCHANGED pc
       \/ /\ e.attempt > MaxAttempts
          /\ pc' = (IF AskHuman THEN "ask" ELSE "fail")
          /\ e' = [e EXCEPT !.kind = "blocked"] /\ UNCHANGED retried
    /\ UNCHANGED <<row, asks, tree, mem, setup, others>>

\* A failed attempt: cancelled, tried again, or the end of the attempts.
StepFails ==
    /\ pc = "exec"
    /\ \/ token /\ pc' = "abortSetup" /\ e' = [e EXCEPT !.after = "cancelRun"] /\ UNCHANGED retried
       \/ /\ ~token /\ e.attempt < MaxAttempts
          /\ e' = [e EXCEPT !.attempt = @ + 1] /\ retried' = retried + 1 /\ UNCHANGED pc
       \/ /\ ~token /\ e.attempt = MaxAttempts
          /\ pc' = (IF AskHuman THEN "ask" ELSE "fail")
          /\ e' = [e EXCEPT !.kind = "blocked"] /\ UNCHANGED retried
    /\ UNCHANGED <<row, asks, tree, mem, setup, others>>

\* Mutant: the last state is written without asking the status machine.
CompleteBlind ==
    /\ pc = "complete" /\ Save([mem EXCEPT !.state = "Completed"], "leave")
    /\ UNCHANGED <<asks, retried, tree, e, setup, others>>

Complete ==
    /\ pc = "complete" /\ Transition("Completed", mem.pause, "leave")
    /\ UNCHANGED <<asks, retried, tree, e, setup, others>>

\* handle_cancellation
CancelRun ==
    /\ pc = "cancelRun" /\ Transition("Cancelled", mem.pause, "leave")
    /\ UNCHANGED <<asks, retried, tree, e, setup, others>>

\* fail_run: a refused transition counts as "already terminal".
FailRun ==
    /\ pc = "fail" /\ e' = [e EXCEPT !.after = "leave"]
    /\ IF May(mem.state, "Failed")
       THEN Save([mem EXCEPT !.state = "Failed"], "abortSetup")
       ELSE UNCHANGED <<mem, row>> /\ pc' = "abortSetup"
    /\ UNCHANGED <<asks, retried, tree, setup, others>>

\* abort_setup_handle waits for the setup task; it does not end it.
AbortSetup ==
    /\ pc = "abortSetup" /\ setup # "running"
    /\ setup' = "none" /\ pc' = e.after
    /\ UNCHANGED <<db, mem, e, others>>

\* The worktree goes if the run, as the engine knows it, is terminal.
Leave ==
    /\ pc = "leave" /\ pc' = "done"
    /\ tree' = (tree /\ ~(mem.state \in RunTerminal /\ mem.tree))
    /\ UNCHANGED <<row, asks, retried, mem, e, setup, others>>

-----------------------------------------------------------------------------
(* pre_step_gate, and the ways the engine asks                             *)

Question(kind) == [kind |-> kind, k |-> e.k, seen |-> retried, status |-> "Pending", answer |-> "none"]
\* The bound does not hold up a cancelled engine, which asks a few times at most.
MayAsk == Len(asks) < MaxAsks \/ token
Put(kind) ==
    /\ MayAsk /\ asks' = Append(asks, Question(kind))
    /\ e' = [e EXCEPT !.q = Len(asks) + 1, !.kind = kind]

RetriesSpent == retried - e.grant > RetryLimit

ApprovalNext == IF Key \in Checkpoints THEN "approvalAsk" ELSE "enter"

\* Budget first, then the approval checkpoint.
Gate ==
    /\ pc = "gate"
    /\ \/ (TimeLimited \/ RetriesSpent) /\ pc' = "budgetAsk"
       \/ ~RetriesSpent /\ pc' = ApprovalNext
    /\ UNCHANGED <<db, mem, e, setup, others>>

\* Mutant: the gate asks and does not wait for the answer.
BudgetAskOnly ==
    /\ pc = "budgetAsk" /\ May(mem.state, "WaitingHuman") /\ Put("budget")
    /\ Save([mem EXCEPT !.state = StateOf[Key], !.pause = "budget"], ApprovalNext)
    /\ UNCHANGED <<retried, tree, setup, others>>

\* The pause and its interrupt are written in one transaction.
BudgetAsk ==
    /\ pc = "budgetAsk" /\ Transition("WaitingHuman", "budget", "wait")
    /\ IF May(mem.state, "WaitingHuman") THEN Put("budget") ELSE UNCHANGED <<asks, e>>
    /\ UNCHANGED <<retried, tree, setup, others>>

\* The approval request is inserted first, the pause follows.
ApprovalAsk ==
    /\ pc = "approvalAsk" /\ Put("approval") /\ pc' = "approvalPause"
    /\ UNCHANGED <<row, retried, tree, mem, setup, others>>

ApprovalPause ==
    /\ pc = "approvalPause" /\ Transition("WaitingHuman", "approval", "wait")
    /\ UNCHANGED <<asks, retried, tree, e, setup, others>>

\* InterruptService::create_interrupt reads the run from the database ...
Ask ==
    /\ pc = "ask"
    /\ IF May(row.state, "WaitingHuman")
       THEN e' = [e EXCEPT !.copy = [row EXCEPT !.state = "WaitingHuman"]] /\ pc' = "askWrite"
       ELSE pc' = "leave" /\ UNCHANGED e
    /\ UNCHANGED <<db, mem, setup, others>>

\* Mutant: the run is paused first and the interrupt inserted by the sync.
AskWriteRunOnly ==
    /\ pc = "askWrite" /\ row' = e.copy /\ pc' = "askSync"
    /\ UNCHANGED <<asks, retried, tree, mem, e, setup, others>>

\* ... writes it paused, with the interrupt, in one transaction ...
AskWrite ==
    /\ pc = "askWrite" /\ row' = e.copy /\ Put(e.kind) /\ pc' = "askSync"
    /\ UNCHANGED <<retried, tree, mem, setup, others>>

\* Mutant: the engine goes on with the state it had.
AskSyncSkipped ==
    /\ pc = "askSync" /\ pc' = "wait"
    /\ UNCHANGED <<db, mem, e, setup, others>>

\* ... and the engine takes over the state that is in the database now.
AskSync ==
    /\ pc = "askSync" /\ pc' = "wait" /\ mem' = [mem EXCEPT !.state = row.state]
    /\ UNCHANGED <<db, e, setup, others>>

\* Mutant: the wait does not look at the token.
WaitCancelledIgnored == pc = "wait" /\ token /\ UNCHANGED vars

\* poll_until: the token makes it an error, which no one turns into a state.
WaitCancelled ==
    /\ pc = "wait" /\ token /\ pc' = "leave"
    /\ UNCHANGED <<db, mem, e, setup, others>>

WaitAnswered ==
    /\ pc = "wait" /\ asks[e.q].status = "Answered"
    /\ e' = [e EXCEPT !.ans = asks[e.q].answer] /\ pc' = "resume"
    /\ UNCHANGED <<db, mem, setup, others>>

\* Mutant: the engine just returns.
RefuseQuietly ==
    /\ pc = "resume" /\ e.ans \in {"abort", "reject"} /\ pc' = "leave"
    /\ UNCHANGED <<db, mem, e, setup, others>>

\* The operator ends the run: a blocked step or a gate waits for the setup.
Refuse ==
    /\ pc = "resume" /\ e.ans \in {"abort", "reject"}
    /\ Transition(IF e.ans = "abort" THEN "Cancelled" ELSE "Failed", mem.pause,
                  IF e.kind = "review" THEN "leave" ELSE "abortSetup")
    /\ e' = [e EXCEPT !.after = "leave"]
    /\ UNCHANGED <<asks, retried, tree, setup, others>>

\* Mutant: the override is not remembered.
OverrideForgotten ==
    /\ pc = "resume" /\ e.kind = "budget" /\ e.ans \in {"retry", "continue"}
    /\ Transition(StateOf[Key], "none", ApprovalNext)
    /\ UNCHANGED <<asks, retried, tree, e, setup, others>>

\* Mutant: an override lets the step run at once.
OverrideRunsStep ==
    /\ pc = "resume" /\ e.kind = "budget" /\ e.ans \in {"retry", "continue"}
    /\ Transition(StateOf[Key], "none", "enter") /\ e' = [e EXCEPT !.grant = retried]
    /\ UNCHANGED <<asks, retried, tree, setup, others>>

\* Budget override: what has been observed so far is waived.
Override ==
    /\ pc = "resume" /\ e.kind = "budget" /\ e.ans \in {"retry", "continue"}
    /\ Transition(StateOf[Key], "none", ApprovalNext)
    /\ e' = [e EXCEPT !.grant = retried]
    /\ UNCHANGED <<asks, retried, tree, setup, others>>

Approved ==
    /\ pc = "resume" /\ e.ans = "approve"
    /\ Transition(StateOf[Key], "none", "enter")
    /\ UNCHANGED <<asks, retried, tree, e, setup, others>>

Reviewed ==
    /\ pc = "resume" /\ e.kind = "review" /\ e.ans \in {"retry", "continue"}
    /\ Transition("Coding", mem.pause, "gate")
    /\ UNCHANGED <<asks, retried, tree, e, setup, others>>

\* A blocked step is run again, or skipped.
Unblocked ==
    /\ pc = "resume" /\ e.kind = "blocked" /\ e.ans \in {"retry", "continue"}
    /\ Transition(StateOf[Key], mem.pause, IF e.ans = "retry" THEN "enter" ELSE "next")
    /\ e' = IF e.ans = "retry" THEN e ELSE [e EXCEPT !.k = @ + 1]
    /\ UNCHANGED <<asks, retried, tree, setup, others>>

-----------------------------------------------------------------------------
(* The setup task                                                          *)

xOthers == <<engine, setup, aVars>>

SetupEnds ==
    /\ setup = "running" /\ setup' \in {"ok", "failed"}
    /\ UNCHANGED <<db, engine, others>>

SetupKilled ==
    /\ setup = "running" /\ token /\ setup' = "failed"
    /\ UNCHANGED <<db, engine, others>>

-----------------------------------------------------------------------------
(* RunService::cancel_run of a run that no launch task owns                *)

\* The token is fired while the engine is registered ...
CancelFire(x) ==
    /\ xpc[x] = "idle" /\ cancels < MaxCancels /\ cancels' = cancels + 1
    /\ token' = (token \/ pc # "done")
    /\ xpc' = [xpc EXCEPT ![x] = "read"]
    /\ UNCHANGED <<db, xrow, xOthers, crashes>>

\* ... the run is read, and left alone if it is terminal ...
CancelRead(x) ==
    /\ xpc[x] = "read"
    /\ IF row.state \in RunTerminal
       THEN xpc' = [xpc EXCEPT ![x] = "idle"] /\ UNCHANGED xrow
       ELSE xpc' = [xpc EXCEPT ![x] = "write"] /\ xrow' = [xrow EXCEPT ![x] = row]
    /\ UNCHANGED <<db, token, xOthers, bounds>>

\* ... and written back whole.
CancelWrite(x) ==
    /\ xpc[x] = "write" /\ row' = [xrow[x] EXCEPT !.state = "Cancelled"]
    /\ xpc' = [xpc EXCEPT ![x] = "idle"] /\ xrow' = [xrow EXCEPT ![x] = NewRun]
    /\ UNCHANGED <<asks, retried, tree, token, xOthers, bounds>>

-----------------------------------------------------------------------------
(* The operator's side of a question                                       *)

aOthers == <<row, retried, tree, token, engine, setup, xVars, bounds>>
Settle(q, s, ans) == asks' = [asks EXCEPT ![q] = [@ EXCEPT !.status = s, !.answer = ans]]
AGoto(a, p)       == apc' = [apc EXCEPT ![a] = p]

\* The question is read and must be pending ...
Answer(a, q) ==
    /\ apc[a] = "idle" /\ asks[q].status = "Pending"
    /\ AGoto(a, IF asks[q].kind = "approval" THEN "write" ELSE "check")
    /\ aq' = [aq EXCEPT ![a] = q]
    /\ UNCHANGED <<asks, aOthers>>

\* ... an interrupt is only answered while its run waits ...
AnswerCheck(a) ==
    /\ apc[a] = "check" /\ AGoto(a, IF row.state = "WaitingHuman" THEN "write" ELSE "idle")
    /\ UNCHANGED <<asks, aq, aOthers>>

\* ... and the answer is written, whatever the question has become.
AnswerWrite(a) ==
    /\ apc[a] = "write" /\ AGoto(a, "idle") /\ UNCHANGED aq
    /\ \/ asks[aq[a]].kind # "approval"
          /\ \E ans \in {"retry", "continue", "abort"} : Settle(aq[a], "Answered", ans)
       \/ asks[aq[a]].kind = "approval"
          /\ \/ \E ans \in {"approve", "reject"} : Settle(aq[a], "Answered", ans)
             \/ Settle(aq[a], "Cancelled", "none")
    /\ UNCHANGED aOthers

-----------------------------------------------------------------------------
\* A restart: rows and the worktree survive, nothing else does.
Crash ==
    /\ crashes < MaxCrashes /\ crashes' = crashes + 1
    /\ token' = FALSE /\ pc' = "done" /\ mem' = NewRun /\ e' = NewLocals /\ setup' = "none"
    /\ xpc' = [x \in Cancellers |-> "idle"] /\ xrow' = [x \in Cancellers |-> NewRun]
    /\ apc' = [a \in Operators |-> "idle"] /\ aq' = [a \in Operators |-> 1]
    /\ UNCHANGED <<db, cancels>>

\* Everything the engine does except the work of a step.
EngineStep ==
    \/ PreflightPasses \/ PreflightFails \/ NextStep \/ AwaitSetup \/ EnterStep \/ Prepared
    \/ Complete \/ CancelRun \/ FailRun \/ AbortSetup \/ Leave
    \/ Gate \/ BudgetAsk \/ ApprovalAsk \/ ApprovalPause \/ Ask \/ AskWrite \/ AskSync
    \/ WaitCancelled \/ WaitAnswered \/ Refuse \/ Override \/ Approved \/ Reviewed \/ Unblocked

StepEnds == StepSucceeds \/ Prepare \/ StepFails

Next ==
    \/ EngineStep \/ StepEnds \/ SetupEnds \/ SetupKilled
    \/ \E x \in Cancellers : CancelFire(x) \/ CancelRead(x) \/ CancelWrite(x)
    \/ \E a \in Operators :
         AnswerCheck(a) \/ AnswerWrite(a) \/ \E q \in 1 .. Len(asks) : Answer(a, q)
    \/ Crash

\* A step whose token has fired ends; without it a command may run for ever.
StepStops == token /\ StepEnds

Fairness ==
    /\ WF_vars(EngineStep) /\ WF_vars(StepStops) /\ WF_vars(SetupKilled)
    /\ \A x \in Cancellers : WF_vars(CancelRead(x) \/ CancelWrite(x))

Spec     == Init /\ [][Next]_vars
FairSpec == Spec /\ Fairness
-----------------------------------------------------------------------------
(* What the playbook engine promises about a run and its questions.        *)

EnginePCs == {"preflight", "next", "awaitSetup", "gate", "budgetAsk", "approvalAsk", "approvalPause",
              "ask", "askWrite", "askSync", "wait", "resume", "enter", "exec", "prepared", "complete",
              "cancelRun", "fail", "abortSetup", "leave", "done"}
Runs      == [state : RunStates, pause : {"none", "budget", "approval"}, tree : BOOLEAN]
Kinds     == {"blocked", "review", "budget", "approval"}
Answers   == {"none", "retry", "continue", "abort", "approve", "reject"}
Questions == [kind : Kinds, k : 1 .. Len(Playbook), seen : Nat,
              status : {"Pending", "Answered", "Cancelled"}, answer : Answers]
EngineLocals == [k : 1 .. Len(Playbook) + 1, attempt : 1 .. MaxAttempts, grant : Nat, copy : Runs,
                 q : Nat \ {0}, ans : Answers, kind : Kinds, after : {"leave", "cancelRun"}]

\* Every row, question, control point and local holds a value of its type.
TypeOK ==
    /\ row \in Runs /\ asks \in Seq(Questions) /\ retried \in Nat /\ tree \in BOOLEAN
    /\ token \in BOOLEAN /\ pc \in EnginePCs /\ mem \in Runs /\ e \in EngineLocals
    /\ setup \in {"none", "running", "ok", "failed"}
    /\ xpc \in [Cancellers -> {"idle", "read", "write"}] /\ xrow \in [Cancellers -> Runs]
    /\ apc \in [Operators -> {"idle", "check", "write"}] /\ aq \in [Operators -> Nat \ {0}]
    /\ cancels \in Nat /\ crashes \in Nat

Undisturbed == cancels + crashes = 0

-----------------------------------------------------------------------------
\* "so a crash between the two can't produce a waiting-human without
\* interrupt orphan": a run waits for a human only while its last question is
\* open, withdrawn by the operator, or answered to an engine that is about to
\* act on it (or has been cancelled or restarted since).
WaitingIsAsked ==
    row.state = "WaitingHuman" =>
        /\ asks # <<>>
        /\ asks[Len(asks)].status = "Answered" =>
             pc \in {"approvalPause", "askSync", "wait", "resume"} \/ token \/ crashes > 0

\* The operator never faces two open questions of one run.
OneOpenQuestion ==
    \A p, q \in 1 .. Len(asks) :
        asks[p].status = "Pending" /\ asks[q].status = "Pending" => p = q

\* A step behind an approval checkpoint runs only once its own request has
\* been approved, also when a budget gate came first.
ApprovedBeforeRun ==
    pc \in {"exec", "prepared"} /\ Key \in Checkpoints =>
        \E q \in 1 .. Len(asks) :
            /\ asks[q].kind = "approval" /\ asks[q].k = e.k
            /\ asks[q].status = "Answered" /\ asks[q].answer = "approve"

\* "so the next gate's evaluate doesn't re-trip on the same counters": after
\* an override the retry budget asks again only when it is exceeded anew.
OverrideHolds ==
    \A p, q \in 1 .. Len(asks) :
        p < q /\ asks[p].kind = "budget" /\ asks[q].kind = "budget" /\ ~TimeLimited =>
            asks[q].seen - asks[p].seen > RetryLimit

\* Without a cancel or a restart the engine's copy of the run is the row,
\* except while create_interrupt has just paused the row behind its back.
CopyInSync == Undisturbed /\ pc # "askSync" => mem = row

\* Without a cancel the row moves along the edges of RunState only.
RowFollowsMachine ==
    [][cancels = 0 /\ row'.state # row.state => May(row.state, row'.state)]_vars

\* The three ways a run nobody disturbs is left short of an end: the preflight
\* fails and the run is still Queued, which has no edge to Failed; the setup
\* fails and only the engine ends; the playbook does not end in a pull request,
\* and no other state has an edge to Completed.
Unbegun(r)    == PreflightMayFail /\ r = NewRun /\ ~tree
SetupBroke(r) ==
    /\ HasSetup /\ e.k \in 2 .. Len(Playbook) /\ Key = "Code"
    /\ r.state = StateOf[Playbook[e.k - 1]] /\ r.tree /\ tree
Unfinished(r) ==
    /\ e.k > Len(Playbook) /\ r.state = StateOf[Playbook[Len(Playbook)]]
    /\ r.state # "OpeningPr" /\ tree = r.tree

\* "Execute the full run lifecycle: Queued -> steps -> Completed/Failed": an
\* engine that has returned leaves a terminal run and no worktree, or the run
\* exactly where one of the three dead ends left it: untouched, before Code with
\* its worktree, or at the last state of its playbook.
RunEndsClean ==
    Undisturbed /\ pc = "done" =>
        (row.state \in RunTerminal /\ ~tree) \/ Unbegun(row) \/ SetupBroke(row) \/ Unfinished(row)

\* A cancelled engine returns, from a step, a gate or the setup, even if the
\* command it runs would not end.
CancelStopsEngine == token ~> pc = "done"
=============================================================================
