--------------------------- MODULE RunEngineProofs ---------------------------
(***************************************************************************)
(* Theorems about RunEngine for every playbook, budget and set of actors:  *)
(* until somebody cancels, the engine's copy of the run is the row, and so *)
(* the row follows the status machine the engine asks about its copy; one  *)
(* question at a time; and what the approval and the budget gates, a wait  *)
(* for a human and the end of a run promise.                               *)
(***************************************************************************)
EXTENDS RunEngine, TLAPS

\* The runs and the copy have the fields of a run; a counter is a number.
Shape ==
    /\ mem \in Runs /\ row \in Runs
    /\ DOMAIN e = DOMAIN NewLocals /\ e.copy \in Runs /\ e.after \in {"leave", "cancelRun"}
    /\ xpc \in [Cancellers -> {"idle", "read", "write"}] /\ xrow \in [Cancellers -> Runs]
    /\ cancels \in Nat /\ crashes \in Nat

\* create_interrupt pauses the row behind the engine's back, from a copy that
\* differs from the row in the state only.
Paused(r) == [r EXCEPT !.state = "WaitingHuman"]
Sync ==
    cancels = 0 =>
        /\ pc \notin {"askSync", "done"} => mem = row
        /\ pc = "askSync" => row = Paused(mem)
        /\ pc = "askWrite" => e.copy = Paused(row) /\ May(row.state, "WaitingHuman")
        /\ pc = "done" /\ crashes = 0 => mem = row
        /\ \A x \in Cancellers : xpc[x] = "idle"

\* What a step may do to the row while nobody cancels.
Legal == cancels = 0 /\ row'.state # row.state => May(row.state, row'.state)

LEMMA EdgesJoinStates == ASSUME NEW s, NEW t, May(s, t) PROVE s \in RunStates /\ t \in RunStates
BY DEF May, RunEdges, RunStates, Working

LEMMA SyncInit == Init => Shape /\ Sync
BY DEF Init, Shape, Sync, NewRun, NewLocals, Runs, RunStates

\* The two ways the engine writes the run: a transition that the machine
\* allows, or a change that leaves the state as it is.
LEMMA TransitionKeeps ==
    ASSUME Shape, Sync, pc \notin {"askSync", "askWrite", "done"},
           NEW s, NEW p \in {"none", "budget", "approval"},
           NEW next \in {"leave", "wait", "abortSetup", "enter", "next", "gate", "budgetAsk", "approvalAsk"},
           Transition(s, p, next),
           DOMAIN e' = DOMAIN e, e'.copy = e.copy, e'.after \in {"leave", "cancelRun"},
           UNCHANGED <<xVars, bounds>>
    PROVE  Shape' /\ Sync' /\ Legal
<1>1. CASE May(mem.state, s)
  <2>1. s \in RunStates BY <1>1, EdgesJoinStates
  <2>2. mem' = [mem EXCEPT !.state = s, !.pause = p] /\ row' = mem' /\ pc' = next
    BY <1>1 DEF Transition, Save
  <2>3. mem' \in Runs /\ mem'.state = s BY <2>1, <2>2 DEF Shape, Runs
  <2>4. Shape' BY <2>2, <2>3 DEF Shape, xVars, bounds
  <2>5. Sync' BY <2>2 DEF Sync, xVars, bounds
  <2>6. Legal BY <1>1, <2>2, <2>3 DEF Sync, Legal
  <2> QED BY <2>4, <2>5, <2>6
<1>2. CASE ~ May(mem.state, s)
  <2>1. UNCHANGED <<mem, row>> /\ pc' = "leave" BY <1>2 DEF Transition
  <2> QED BY <2>1 DEF Shape, Sync, Legal, xVars, bounds
<1> QED BY <1>1, <1>2

\* A step that moves the engine on without writing the run.
LEMMA MovesKeep ==
    ASSUME Shape, Sync, pc \notin {"askSync", "done"}, pc' \notin {"askSync", "askWrite"},
           UNCHANGED <<row, mem, xVars, bounds>>,
           DOMAIN e' = DOMAIN e, e'.copy = e.copy, e'.after \in {"leave", "cancelRun"}
    PROVE  Shape' /\ Sync' /\ Legal
BY DEF Shape, Sync, Legal, xVars, bounds

LEMMA EngineKeeps ==
    ASSUME Shape, Sync, EngineStep \/ StepEnds
    PROVE  Shape' /\ Sync' /\ Legal
<1> USE DEF others, db, xVars, bounds, engine
<1>a. mem.pause \in {"none", "budget", "approval"} BY DEF Shape, Runs
<1>1. CASE PreflightPasses BY <1>1, MovesKeep DEF PreflightPasses, Shape
<1>2. CASE PreflightFails BY <1>2, MovesKeep DEF PreflightFails, Shape
<1>3. CASE NextStep BY <1>3, MovesKeep DEF NextStep, Shape, NewLocals
<1>4. CASE AwaitSetup BY <1>4, MovesKeep DEF AwaitSetup, Shape, NewLocals
<1>5. CASE StepEnds BY <1>5, MovesKeep DEF StepEnds, StepSucceeds, Prepare, StepFails, Shape, NewLocals
<1>6. CASE AbortSetup \/ Gate
  BY <1>6, MovesKeep DEF AbortSetup, Gate, ApprovalNext, Shape, NewLocals
<1>7. CASE WaitCancelled \/ WaitAnswered
  BY <1>7, MovesKeep DEF WaitCancelled, WaitAnswered, Shape, NewLocals
<1>18. CASE ApprovalAsk BY <1>18, MovesKeep DEF ApprovalAsk, Put, Shape, NewLocals
<1>19. CASE Leave BY <1>19 DEF Leave, Shape, Sync, Legal
<1>8. CASE EnterStep
  <2> DEFINE s == StateOf[Key]
  <2>1. CASE mem.state = s \/ May(mem.state, s)
    <3>1. mem' = [mem EXCEPT !.state = s] /\ row' = mem' /\ pc' = "exec"
      BY <1>8, <2>1 DEF EnterStep, Save
    <3>2. DOMAIN e' = DOMAIN e /\ e'.copy = e.copy /\ e'.after = e.after
      BY <1>8, <2>1 DEF EnterStep, Shape, NewLocals
    <3>3. s \in RunStates BY <2>1, EdgesJoinStates DEF Shape, Runs
    <3>4. mem' \in Runs /\ mem'.state = s BY <3>1, <3>3 DEF Shape, Runs
    <3>5. UNCHANGED <<xpc, xrow, cancels, crashes>> BY <1>8 DEF EnterStep
    <3>6. Shape' BY <3>1, <3>2, <3>4, <3>5 DEF Shape
    <3>7. Sync' BY <1>8, <3>1, <3>5 DEF EnterStep, Sync
    <3>8. Legal BY <1>8, <2>1, <3>1, <3>4 DEF EnterStep, Sync, Legal
    <3> QED BY <3>6, <3>7, <3>8
  <2>2. CASE ~(mem.state = s \/ May(mem.state, s))
    BY <1>8, <2>2, MovesKeep DEF EnterStep, Shape
  <2> QED BY <2>1, <2>2
<1>9. CASE Prepared
  <2>1. mem' \in Runs /\ mem'.state = mem.state /\ row' = mem' /\ pc' = "next" /\ pc = "prepared"
    BY <1>9 DEF Prepared, Save, Shape, Runs
  <2>2. DOMAIN e' = DOMAIN e /\ e'.copy = e.copy /\ e'.after = e.after
    BY <1>9 DEF Prepared, Shape, NewLocals
  <2>3. UNCHANGED <<xpc, xrow, cancels, crashes>> BY <1>9 DEF Prepared
  <2>4. Shape' BY <2>1, <2>2, <2>3 DEF Shape
  <2>5. Sync' BY <2>1, <2>3 DEF Sync
  <2>6. Legal BY <2>1 DEF Sync, Legal
  <2> QED BY <2>4, <2>5, <2>6
<1>10. CASE Complete \/ CancelRun \/ ApprovalPause
  BY <1>10, <1>a, TransitionKeeps DEF Complete, CancelRun, ApprovalPause, Shape
<1>11. CASE FailRun
  <2>1. DOMAIN e' = DOMAIN e /\ e'.copy = e.copy /\ e'.after = "leave"
    BY <1>11 DEF FailRun, Shape, NewLocals
  <2>2. CASE May(mem.state, "Failed")
    <3>1. /\ mem' = [mem EXCEPT !.state = "Failed"] /\ row' = mem'
          /\ pc = "fail" /\ pc' = "abortSetup"
      BY <1>11, <2>2 DEF FailRun, Save
    <3>2. mem' \in Runs /\ mem'.state = "Failed" BY <3>1 DEF Shape, Runs, RunStates
    <3>3. UNCHANGED <<xpc, xrow, cancels, crashes>> BY <1>11 DEF FailRun
    <3>4. Shape' BY <2>1, <3>2, <3>1, <3>3 DEF Shape
    <3>5. Sync' BY <3>1, <3>3 DEF Sync
    <3>6. Legal BY <2>2, <3>1, <3>2 DEF Sync, Legal
    <3> QED BY <3>4, <3>5, <3>6
  <2>3. CASE ~ May(mem.state, "Failed")
    BY <1>11, <2>1, <2>3, MovesKeep DEF FailRun
  <2> QED BY <2>2, <2>3
<1>12. CASE BudgetAsk
  <2>1. DOMAIN e' = DOMAIN e /\ e'.copy = e.copy /\ e'.after = e.after
    BY <1>12 DEF BudgetAsk, Put, Shape, NewLocals
  <2> QED BY <1>12, <2>1, TransitionKeeps DEF BudgetAsk, Shape
<1>13. CASE Ask
  <2>1. CASE May(row.state, "WaitingHuman")
    <3>1. /\ pc = "ask" /\ pc' = "askWrite" /\ UNCHANGED <<row, mem, xpc, xrow, cancels, crashes>>
          /\ e' = [e EXCEPT !.copy = Paused(row)]
      BY <1>13, <2>1 DEF Ask, Paused
    <3>2. Paused(row) \in Runs BY DEF Paused, Shape, Runs, RunStates
    <3>3. DOMAIN e' = DOMAIN e /\ e'.copy = Paused(row) /\ e'.after = e.after
      BY <3>1 DEF Shape, NewLocals
    <3>4. Shape' BY <3>1, <3>2, <3>3 DEF Shape
    <3>5. Sync' BY <2>1, <3>1, <3>3 DEF Sync, Paused
    <3>6. Legal BY <3>1 DEF Legal
    <3> QED BY <3>4, <3>5, <3>6
  <2>2. CASE ~ May(row.state, "WaitingHuman")
    BY <1>13, <2>2, MovesKeep DEF Ask, Shape
  <2> QED BY <2>1, <2>2
<1>14. CASE AskWrite
  <2>1. /\ pc = "askWrite" /\ pc' = "askSync" /\ row' = e.copy
        /\ UNCHANGED <<mem, xpc, xrow, cancels, crashes>>
    BY <1>14 DEF AskWrite
  <2>2. DOMAIN e' = DOMAIN e /\ e'.copy = e.copy /\ e'.after = e.after
    BY <1>14 DEF AskWrite, Put, Shape, NewLocals
  <2>3. Shape' BY <2>1, <2>2 DEF Shape
  <2>4. Sync' BY <2>1 DEF Sync, Paused
  <2>5. cancels = 0 => row'.state = "WaitingHuman" /\ May(row.state, "WaitingHuman")
    BY <2>1 DEF Sync, Paused, Shape, Runs
  <2>6. Legal BY <2>5 DEF Legal
  <2> QED BY <2>3, <2>4, <2>6
<1>15. CASE AskSync
  <2>1. /\ pc = "askSync" /\ pc' = "wait" /\ mem' = [mem EXCEPT !.state = row.state]
        /\ UNCHANGED <<row, e, xpc, xrow, cancels, crashes>>
    BY <1>15 DEF AskSync
  <2>2. Shape' BY <2>1 DEF Shape, Runs
  <2>3. Sync' BY <2>1 DEF Sync, Paused, Shape, Runs
  <2>4. Legal BY <2>1 DEF Legal
  <2> QED BY <2>2, <2>3, <2>4
<1>16. CASE Refuse
  <2>1. DOMAIN e' = DOMAIN e /\ e'.copy = e.copy /\ e'.after = "leave"
    BY <1>16 DEF Refuse, Shape, NewLocals
  <2> QED BY <1>16, <1>a, <2>1, TransitionKeeps DEF Refuse
<1>17. CASE Override \/ Approved \/ Reviewed \/ Unblocked
  <2>1. DOMAIN e' = DOMAIN e /\ e'.copy = e.copy /\ e'.after = e.after
    BY <1>17 DEF Override, Approved, Reviewed, Unblocked, Shape, NewLocals
  <2> QED
    BY <1>17, <1>a, <2>1, TransitionKeeps DEF Override, Approved, Reviewed, Unblocked, ApprovalNext, Shape
<1> QED
  BY <1>1, <1>2, <1>3, <1>4, <1>5, <1>6, <1>7, <1>8, <1>9, <1>10, <1>11, <1>12, <1>13, <1>14,
     <1>15, <1>16, <1>17, <1>18, <1>19 DEF EngineStep

\* Everybody else: the setup task, the operators, a cancel and a restart.
LEMMA OthersKeep ==
    ASSUME Shape, Sync,
           \/ SetupEnds \/ SetupKilled \/ Crash
           \/ \E x \in Cancellers : CancelFire(x) \/ CancelRead(x) \/ CancelWrite(x)
           \/ \E a \in Operators :
                AnswerCheck(a) \/ AnswerWrite(a) \/ \E q \in 1 .. Len(asks) : Answer(a, q)
    PROVE  Shape' /\ Sync' /\ Legal
<1> USE DEF others, db, xVars, bounds, engine, xOthers, aVars, aOthers
<1>1. CASE SetupEnds \/ SetupKilled BY <1>1 DEF SetupEnds, SetupKilled, Shape, Sync, Legal
<1>2. CASE Crash
  <2>1. /\ pc' = "done" /\ mem' = NewRun /\ e' = NewLocals /\ crashes' = crashes + 1
        /\ xpc' = [x \in Cancellers |-> "idle"] /\ xrow' = [x \in Cancellers |-> NewRun]
        /\ UNCHANGED <<row, cancels>>
    BY <1>2 DEF Crash
  <2>2. Shape' BY <2>1 DEF Shape, NewRun, NewLocals, Runs, RunStates
  <2>3. Sync' BY <2>1 DEF Sync, Shape
  <2>4. Legal BY <2>1 DEF Legal
  <2> QED BY <2>2, <2>3, <2>4
<1>3. ASSUME NEW x \in Cancellers, CancelFire(x)
      PROVE  Shape' /\ Sync' /\ Legal
  BY <1>3 DEF CancelFire, Shape, Sync, Legal
<1>4. ASSUME NEW x \in Cancellers, CancelRead(x)
      PROVE  Shape' /\ Sync' /\ Legal
  BY <1>4 DEF CancelRead, Shape, Sync, Legal
<1>5. ASSUME NEW x \in Cancellers, CancelWrite(x)
      PROVE  Shape' /\ Sync' /\ Legal
  <2>1. cancels # 0 BY <1>5 DEF CancelWrite, Sync
  <2>2. row' \in Runs BY <1>5 DEF CancelWrite, Shape, Runs, RunStates
  <2>3. NewRun \in Runs BY DEF NewRun, Runs, RunStates
  <2>4. Shape' BY <1>5, <2>2, <2>3 DEF CancelWrite, Shape
  <2> QED BY <1>5, <2>1, <2>4 DEF CancelWrite, Sync, Legal
<1>6. ASSUME NEW a \in Operators,
             AnswerCheck(a) \/ AnswerWrite(a) \/ \E q \in 1 .. Len(asks) : Answer(a, q)
      PROVE  UNCHANGED <<row, mem, pc, e, xpc, xrow, cancels, crashes>>
  BY <1>6 DEF AnswerCheck, AnswerWrite, Answer
<1>7. CASE UNCHANGED <<row, mem, pc, e, xpc, xrow, cancels, crashes>>
  BY <1>7 DEF Shape, Sync, Legal
<1> QED BY <1>1, <1>2, <1>3, <1>4, <1>5, <1>6, <1>7

LEMMA StepKeeps == Shape /\ Sync /\ [Next]_vars => Shape' /\ Sync' /\ Legal
<1> SUFFICES ASSUME Shape, Sync, [Next]_vars PROVE Shape' /\ Sync' /\ Legal OBVIOUS
<1>1. CASE EngineStep \/ StepEnds BY <1>1, EngineKeeps
<1>2. CASE UNCHANGED vars
  BY <1>2 DEF vars, db, engine, xVars, aVars, bounds, Shape, Sync, Legal
<1> QED BY <1>1, <1>2, OthersKeep DEF Next

\* Until somebody cancels or the server restarts, the run that the engine
\* decides on is the run in the database, except for the moment in which
\* create_interrupt has paused it and the engine has not read it again.
THEOREM CopyInSyncHolds == Spec => []CopyInSync
<1>1. Shape /\ Sync => CopyInSync
  BY DEF Shape, Sync, CopyInSync, Undisturbed
<1> QED BY <1>1, SyncInit, StepKeeps, PTL DEF Spec

\* Until somebody cancels, and through any restart, whole-row updates from
\* the engine's memory move the run in the database only along RunState's
\* edges.
THEOREM RowFollowsMachineHolds == Spec => RowFollowsMachine
<1>1. Shape /\ Sync /\ [Next]_vars =>
        [cancels = 0 /\ row'.state # row.state => May(row.state, row'.state)]_vars
  BY StepKeeps DEF Legal
<1> QED BY <1>1, SyncInit, StepKeeps, PTL DEF Spec, RowFollowsMachine

-----------------------------------------------------------------------------
(* One open question.  The engine asks only when every question of the run *)
(* is settled, and leaves a question open only by leaving itself.          *)

AnyQuestion == [kind : Kinds, k : Int, seen : Int,
                status : {"Pending", "Answered", "Cancelled"}, answer : Answers]

QShape ==
    /\ asks \in Seq(AnyQuestion) /\ retried \in Int
    /\ DOMAIN e = DOMAIN NewLocals /\ e.k \in Int /\ e.kind \in Kinds
    /\ e.after \in {"leave", "cancelRun"}

Open     == {"approvalPause", "askSync", "wait"}
Settled(q) == asks[q].status # "Pending"
Alone ==
    /\ \A q \in 1 .. Len(asks) : q < Len(asks) => Settled(q)
    /\ pc \notin Open \cup {"leave", "done"} => \A q \in 1 .. Len(asks) : Settled(q)
    /\ pc \in Open => e.q = Len(asks)

\* The engine goes on without asking.
LEMMA QuietKeeps ==
    ASSUME QShape, Alone, UNCHANGED asks, retried' \in Int,
           DOMAIN e' = DOMAIN e, e'.k \in Int, e'.kind \in Kinds,
           e'.after \in {"leave", "cancelRun"},
           (pc \notin Open \cup {"leave", "done"} /\ pc' \notin Open) \/ pc' \in {"leave", "done"}
    PROVE  QShape' /\ Alone'
BY DEF QShape, Alone, Settled, Open

\* One more question, after all the others are settled.
LEMMA PutKeeps ==
    ASSUME QShape, Alone, pc \notin Open \cup {"leave", "done"},
           NEW kind \in Kinds, Put(kind), UNCHANGED retried, pc' \in Open \cup {"leave"}
    PROVE  QShape' /\ Alone'
<1>1. Question(kind) \in AnyQuestion BY DEF Question, AnyQuestion, QShape, Answers
<1>2. asks' = Append(asks, Question(kind)) BY DEF Put
<1>3. /\ asks' \in Seq(AnyQuestion) /\ Len(asks') = Len(asks) + 1 /\ Len(asks) \in Nat
      /\ \A q \in 1 .. Len(asks) : asks'[q] = asks[q]
  BY <1>1, <1>2 DEF QShape
<1>4. /\ DOMAIN e' = DOMAIN e /\ e'.q = Len(asks) + 1 /\ e'.kind = kind /\ e'.k = e.k
      /\ e'.after = e.after
  BY DEF Put, QShape, NewLocals
<1>5. QShape' BY <1>3, <1>4 DEF QShape
<1>6. \A q \in 1 .. Len(asks') : q < Len(asks') => q \in 1 .. Len(asks) BY <1>3
<1>7. \A q \in 1 .. Len(asks) : asks'[q].status # "Pending" BY <1>3 DEF Alone, Settled
<1>8. Alone' BY <1>3, <1>4, <1>6, <1>7 DEF Alone, Settled
<1> QED BY <1>5, <1>8

\* An answer settles, it never opens.
LEMMA SettleKeeps ==
    ASSUME QShape, Alone, NEW q, NEW s \in {"Answered", "Cancelled"}, NEW ans \in Answers,
           Settle(q, s, ans), UNCHANGED <<retried, pc, e>>
    PROVE  QShape' /\ Alone'
<1>1. asks' = [asks EXCEPT ![q] = [asks[q] EXCEPT !.status = s, !.answer = ans]] BY DEF Settle
<1>2. \A p \in 1 .. Len(asks) : asks[p] \in AnyQuestion BY DEF QShape
<1>3. CASE q \in 1 .. Len(asks)
  <2>1. [asks[q] EXCEPT !.status = s, !.answer = ans] \in AnyQuestion BY <1>2, <1>3 DEF AnyQuestion
  <2>2. asks' \in Seq(AnyQuestion) /\ Len(asks') = Len(asks) BY <1>1, <1>3, <2>1 DEF QShape
  <2>3. asks'[q].status = s BY <1>1, <1>2, <1>3 DEF AnyQuestion, QShape
  <2>4. \A p \in 1 .. Len(asks) : p # q => asks'[p] = asks[p] BY <1>1 DEF QShape
  <2> QED BY <2>2, <2>3, <2>4 DEF QShape, Alone, Settled
<1>4. CASE q \notin 1 .. Len(asks)
  <2>1. asks' = asks BY <1>1, <1>4 DEF QShape
  <2> QED BY <2>1 DEF QShape, Alone, Settled
<1> QED BY <1>3, <1>4

LEMMA AloneInit == Init => QShape /\ Alone
BY DEF Init, QShape, Alone, Settled, Open, NewLocals, Kinds

LEMMA AloneStep == QShape /\ Alone /\ [Next]_vars => QShape' /\ Alone'
<1> SUFFICES ASSUME QShape, Alone, [Next]_vars PROVE QShape' /\ Alone' OBVIOUS
<1> USE DEF Open, Kinds
<1>1. CASE \/ PreflightPasses \/ PreflightFails \/ NextStep \/ AwaitSetup \/ EnterStep \/ Prepared
          \/ StepEnds
  BY <1>1, QuietKeeps DEF PreflightPasses, PreflightFails, NextStep, AwaitSetup, EnterStep, Prepared,
     StepEnds, StepSucceeds, Prepare, StepFails, Save, QShape, NewLocals, db, others
<1>2. CASE Complete \/ CancelRun \/ FailRun \/ Leave \/ Gate
  BY <1>2, QuietKeeps DEF Complete, CancelRun, FailRun, Leave, Gate, ApprovalNext, Transition, Save,
     QShape, NewLocals, db, others
<1>3. CASE AbortSetup BY <1>3, QuietKeeps DEF AbortSetup, QShape, db, others
<1>4. CASE BudgetAsk
  <2>1. CASE May(mem.state, "WaitingHuman")
    BY <1>4, <2>1, PutKeeps DEF BudgetAsk, Transition, Save
  <2>2. CASE ~ May(mem.state, "WaitingHuman")
    BY <1>4, <2>2, QuietKeeps DEF BudgetAsk, Transition, QShape
  <2> QED BY <2>1, <2>2
<1>5. CASE ApprovalAsk BY <1>5, PutKeeps DEF ApprovalAsk
<1>6. CASE ApprovalPause
  BY <1>6 DEF ApprovalPause, Transition, Save, QShape, Alone, Settled
<1>7. CASE Ask BY <1>7, QuietKeeps DEF Ask, QShape, NewLocals, db, others
<1>8. CASE AskWrite BY <1>8, PutKeeps DEF AskWrite, QShape
<1>9. CASE AskSync BY <1>9 DEF AskSync, db, QShape, Alone, Settled
<1>10. CASE WaitCancelled BY <1>10, QuietKeeps DEF WaitCancelled, QShape, db
<1>11. CASE WaitAnswered
  <2>1. /\ pc = "wait" /\ pc' = "resume" /\ UNCHANGED <<asks, retried>>
        /\ e.q = Len(asks) /\ asks[Len(asks)].status = "Answered" /\ Len(asks) \in Nat
    BY <1>11 DEF WaitAnswered, Alone, db, QShape
  <2>2. \A q \in 1 .. Len(asks) : asks[q].status # "Pending"
    BY <2>1 DEF Alone, Settled
  <2>3. QShape' BY <1>11 DEF WaitAnswered, QShape, NewLocals, db
  <2> QED BY <2>1, <2>2, <2>3 DEF Alone, Settled
<1>12. CASE Refuse \/ Override \/ Approved \/ Reviewed \/ Unblocked
  BY <1>12, QuietKeeps DEF Refuse, Override, Approved, Reviewed, Unblocked, ApprovalNext, Transition,
     Save, QShape, NewLocals, others
<1>13. CASE Crash BY <1>13 DEF Crash, db, QShape, Alone, Settled, NewLocals
<1>14. CASE SetupEnds \/ SetupKilled \/ UNCHANGED vars
  BY <1>14 DEF SetupEnds, SetupKilled, vars, db, engine, QShape, Alone, Settled
<1>15. ASSUME NEW x \in Cancellers, CancelFire(x) \/ CancelRead(x) \/ CancelWrite(x)
       PROVE  QShape' /\ Alone'
  BY <1>15 DEF CancelFire, CancelRead, CancelWrite, db, engine, xOthers, QShape, Alone, Settled
<1>16. ASSUME NEW a \in Operators, AnswerCheck(a) \/ \E q \in 1 .. Len(asks) : Answer(a, q)
       PROVE  QShape' /\ Alone'
  BY <1>16 DEF AnswerCheck, Answer, aOthers, engine, QShape, Alone, Settled
<1>17. ASSUME NEW a \in Operators, AnswerWrite(a)
       PROVE  QShape' /\ Alone'
  BY <1>17, SettleKeeps DEF AnswerWrite, aOthers, engine, Answers
<1> QED
  BY <1>1, <1>2, <1>3, <1>4, <1>5, <1>6, <1>7, <1>8, <1>9, <1>10, <1>11, <1>12, <1>13, <1>14,
     <1>15, <1>16, <1>17 DEF Next, EngineStep

\* The operator never faces two open questions of one run, whatever cancels,
\* restarts and answers of other operators come in between.
THEOREM OneOpenQuestionHolds == Spec => []OneOpenQuestion
<1>1. QShape /\ Alone => OneOpenQuestion
  <2> SUFFICES ASSUME QShape, Alone,
                      NEW p \in 1 .. Len(asks), NEW q \in 1 .. Len(asks),
                      asks[p].status = "Pending", asks[q].status = "Pending"
               PROVE  p = q
    BY DEF OneOpenQuestion
  <2>1. Len(asks) \in Nat BY DEF QShape
  <2>2. ~(p < Len(asks)) /\ ~(q < Len(asks)) BY DEF Alone, Settled
  <2> QED BY <2>1, <2>2
<1> QED BY <1>1, AloneInit, AloneStep, PTL DEF Spec

-----------------------------------------------------------------------------
(* Types.  A question is put about a step of the playbook because the      *)
(* engine stands on one wherever it may ask.                               *)

KeyPCs == {"awaitSetup", "gate", "budgetAsk", "approvalAsk", "approvalPause", "ask", "askWrite", "askSync",
           "wait", "resume", "enter", "exec", "prepared"}
OnStep == pc \in KeyPCs => e.k \in 1 .. Len(Playbook)

\* What the types leave to say once the runs have their shape.
Rest ==
    /\ asks \in Seq(Questions) /\ retried \in Nat /\ tree \in BOOLEAN /\ token \in BOOLEAN
    /\ pc \in EnginePCs /\ e \in EngineLocals /\ setup \in {"none", "running", "ok", "failed"}
    /\ apc \in [Operators -> {"idle", "check", "write"}] /\ aq \in [Operators -> Nat \ {0}]

LEMMA PlaybookIs ==
    /\ Len(Playbook) \in Nat /\ Len(Playbook) >= 1 /\ \A i \in 1 .. Len(Playbook) : Playbook[i] \in StepKeys
    /\ MaxAttempts \in Nat /\ MaxAttempts >= 1 /\ RetryLimit \in Nat
BY PlaybookAssumption, LimitAssumption

\* The engine's locals keep their types when fields get values of their type.
LEMMA LocalUpdates ==
    ASSUME NEW l \in EngineLocals
    PROVE  /\ \A k \in 1 .. Len(Playbook) + 1 : [l EXCEPT !.k = k] \in EngineLocals
           /\ \A n \in 1 .. MaxAttempts : [l EXCEPT !.attempt = n] \in EngineLocals
           /\ \A g \in Nat : [l EXCEPT !.grant = g] \in EngineLocals
           /\ \A r \in Runs : [l EXCEPT !.copy = r] \in EngineLocals
           /\ \A a \in Answers : [l EXCEPT !.ans = a] \in EngineLocals
           /\ \A n \in Kinds : [l EXCEPT !.kind = n] \in EngineLocals
           /\ \A f \in {"leave", "cancelRun"} : [l EXCEPT !.after = f] \in EngineLocals
           /\ \A q \in Nat \ {0}, n \in Kinds : [l EXCEPT !.q = q, !.kind = n] \in EngineLocals
BY DEF EngineLocals

\* Putting a question.
LEMMA PutTypes ==
    ASSUME Rest, e.k \in 1 .. Len(Playbook), NEW kind \in Kinds, Put(kind)
    PROVE  /\ asks' \in Seq(Questions) /\ Len(asks') = Len(asks) + 1 /\ Len(asks) \in Nat
           /\ asks'[Len(asks')] = Question(kind)
           /\ \A q \in 1 .. Len(asks) : asks'[q] = asks[q]
           /\ e' \in EngineLocals /\ e' = [e EXCEPT !.q = Len(asks) + 1, !.kind = kind]
           /\ e'.q = Len(asks') /\ e'.kind = kind /\ e'.k = e.k /\ e'.grant = e.grant /\ e'.ans = e.ans
<1>0. retried \in Nat BY DEF Rest
<1>1. Question(kind) \in Questions BY <1>0 DEF Question, Questions, Answers
<1>2. asks' = Append(asks, Question(kind)) /\ Len(asks) \in Nat BY DEF Put, Rest
<1>3. e' = [e EXCEPT !.q = Len(asks) + 1, !.kind = kind] BY DEF Put
<1>a. Len(asks) + 1 \in Nat \ {0} BY <1>2
<1>b. e \in EngineLocals BY DEF Rest
<1>4. e' \in EngineLocals BY <1>3, <1>a, <1>b, LocalUpdates
<1>5. e'.q = Len(asks) + 1 /\ e'.kind = kind /\ e'.k = e.k /\ e'.grant = e.grant /\ e'.ans = e.ans
  BY <1>3 DEF Rest, EngineLocals
<1>6. /\ asks' \in Seq(Questions) /\ Len(asks') = Len(asks) + 1
      /\ asks'[Len(asks) + 1] = Question(kind) /\ \A q \in 1 .. Len(asks) : asks'[q] = asks[q]
  BY <1>1, <1>2 DEF Rest
<1> QED BY <1>2, <1>3, <1>4, <1>5, <1>6

\* Settling one.
LEMMA SettleTypes ==
    ASSUME Rest, NEW q \in Nat, NEW s \in {"Answered", "Cancelled"}, NEW ans \in Answers, Settle(q, s, ans)
    PROVE  /\ asks' \in Seq(Questions) /\ Len(asks') = Len(asks)
           /\ \A p \in 1 .. Len(asks) :
                /\ asks'[p].kind = asks[p].kind /\ asks'[p].k = asks[p].k /\ asks'[p].seen = asks[p].seen
                /\ p = q => asks'[p].status = s /\ asks'[p].answer = ans
                /\ p # q => asks'[p] = asks[p]
<1>1. asks' = [asks EXCEPT ![q] = [asks[q] EXCEPT !.status = s, !.answer = ans]] BY DEF Settle
<1>2. asks \in Seq(Questions) /\ Len(asks) \in Nat /\ \A p \in 1 .. Len(asks) : asks[p] \in Questions BY DEF Rest
<1>3. CASE q \in 1 .. Len(asks)
  <2>1. asks[q] \in Questions BY <1>2, <1>3
  <2>2. [asks[q] EXCEPT !.status = s, !.answer = ans] \in Questions
    <3> DEFINE a == asks[q]
    <3>1. a \in Questions BY <2>1
    <3> HIDE DEF a
    <3>2. [a EXCEPT !.status = s, !.answer = ans] \in Questions BY <3>1, PlaybookIs DEF Questions
    <3> QED BY <3>2 DEF a
  <2>3. asks' \in Seq(Questions) /\ Len(asks') = Len(asks) BY <1>1, <1>2, <1>3, <2>2
  <2>a. q \in DOMAIN asks BY <1>2, <1>3
  <2>4. asks'[q] = [asks[q] EXCEPT !.status = s, !.answer = ans] BY <1>1, <2>a
  <2>5. /\ asks'[q].kind = asks[q].kind /\ asks'[q].k = asks[q].k /\ asks'[q].seen = asks[q].seen
        /\ asks'[q].status = s /\ asks'[q].answer = ans
    BY <2>1, <2>4 DEF Questions
  <2>6. \A p \in 1 .. Len(asks) : p # q => asks'[p] = asks[p] BY <1>1, <1>2
  <2> QED BY <2>3, <2>5, <2>6
<1>4. CASE q \notin 1 .. Len(asks)
  <2>1. asks' = asks BY <1>1, <1>2, <1>4
  <2> QED BY <1>2, <1>4, <2>1
<1> QED BY <1>3, <1>4

\* What an operator writes: an answer, or for an approval the withdrawal.
LEMMA AnswerIs ==
    ASSUME NEW a \in Operators, AnswerWrite(a)
    PROVE  \E s \in {"Answered", "Cancelled"}, ans \in Answers :
             Settle(aq[a], s, ans) /\ (ans = "approve" => asks[aq[a]].kind = "approval")
BY DEF AnswerWrite, Answers

LEMMA AnswerTypes ==
    ASSUME Rest, NEW a \in Operators, AnswerWrite(a)
    PROVE  /\ asks' \in Seq(Questions) /\ Len(asks') = Len(asks)
           /\ \A p \in 1 .. Len(asks) :
                /\ asks'[p].kind = asks[p].kind /\ asks'[p].k = asks[p].k /\ asks'[p].seen = asks[p].seen
                /\ p = aq[a] => asks'[p].status # "Pending"
                /\ p = aq[a] /\ asks'[p].answer = "approve" => asks'[p].kind = "approval"
                /\ p # aq[a] => asks'[p] = asks[p]
<1>1. PICK s \in {"Answered", "Cancelled"}, ans \in Answers :
             Settle(aq[a], s, ans) /\ (ans = "approve" => asks[aq[a]].kind = "approval")
  BY AnswerIs
<1>2. Settle(aq[a], s, ans) /\ aq[a] \in Nat BY <1>1 DEF Rest
<1>3. asks' \in Seq(Questions) /\ Len(asks') = Len(asks) BY <1>2, SettleTypes
<1> SUFFICES ASSUME NEW p \in 1 .. Len(asks)
             PROVE  /\ asks'[p].kind = asks[p].kind /\ asks'[p].k = asks[p].k /\ asks'[p].seen = asks[p].seen
                    /\ p = aq[a] => asks'[p].status # "Pending"
                    /\ p = aq[a] /\ asks'[p].answer = "approve" => asks'[p].kind = "approval"
                    /\ p # aq[a] => asks'[p] = asks[p]
  BY <1>3
<1>4. asks'[p].kind = asks[p].kind /\ asks'[p].k = asks[p].k /\ asks'[p].seen = asks[p].seen
  BY <1>2, SettleTypes
<1>5. p = aq[a] => asks'[p].status = s /\ asks'[p].answer = ans
  BY <1>2, SettleTypes
<1>6. p # aq[a] => asks'[p] = asks[p]
  BY <1>2, SettleTypes
<1> QED BY <1>1, <1>4, <1>5, <1>6

\* The engine moves on without a question: what is left is its locals.
LEMMA MoveTypes ==
    ASSUME Rest, UNCHANGED <<asks, apc, aq>>, retried' \in Nat, tree' \in BOOLEAN, token' = token,
           setup' \in {"none", "running", "ok", "failed"}, pc' \in EnginePCs, e' \in EngineLocals,
           pc' \in KeyPCs => e'.k \in 1 .. Len(Playbook)
    PROVE  Rest' /\ OnStep'
BY DEF Rest, OnStep

LEMMA LocalsAre ==
    ASSUME Rest
    PROVE  /\ e \in EngineLocals /\ DOMAIN e = DOMAIN NewLocals
           /\ e.k \in 1 .. Len(Playbook) + 1 /\ e.k \in Nat /\ e.k >= 1
           /\ e.attempt \in 1 .. MaxAttempts /\ e.grant \in Nat /\ e.q \in Nat \ {0} /\ e.ans \in Answers
           /\ e.kind \in Kinds /\ e.after \in {"leave", "cancelRun"} /\ e.copy \in Runs
BY PlaybookIs DEF Rest, EngineLocals, NewLocals

LEMMA EngineTypes ==
    ASSUME Rest, OnStep, Alone, row \in Runs, EngineStep \/ StepEnds
    PROVE  Rest' /\ OnStep'
<1> USE DEF others, db, aVars, engine
<1>l. /\ e \in EngineLocals /\ e.k \in Nat /\ e.k >= 1 /\ e.k <= Len(Playbook) + 1 /\ Len(Playbook) \in Nat
      /\ (pc \in KeyPCs => e.k \in 1 .. Len(Playbook) /\ e.k + 1 \in 1 .. Len(Playbook) + 1)
  BY LocalsAre, PlaybookIs DEF OnStep
<1>r. /\ retried \in Nat /\ retried + 1 \in Nat /\ tree \in BOOLEAN /\ pc \in EnginePCs
      /\ setup \in {"none", "running", "ok", "failed"} /\ asks \in Seq(Questions)
  BY DEF Rest
<1>1. CASE PreflightPasses \/ PreflightFails
  BY <1>1, <1>l, <1>r, MoveTypes DEF PreflightPasses, PreflightFails, EnginePCs, KeyPCs
<1>2. CASE NextStep
  <2>1. /\ pc' \in {"complete", "abortSetup", "awaitSetup", "gate"}
        /\ UNCHANGED <<asks, apc, aq, retried, tree, token, setup>>
        /\ pc' \in {"awaitSetup", "gate"} => e.k \in 1 .. Len(Playbook)
        /\ e' = e \/ (e' = [e EXCEPT !.after = "cancelRun"] /\ pc' = "abortSetup")
    BY <1>2, <1>l DEF NextStep
  <2>2. e' \in EngineLocals BY <1>l, <2>1, LocalUpdates
  <2> QED BY <2>1, <2>2, <1>l, <1>r, MoveTypes DEF EnginePCs, KeyPCs
<1>3. CASE AwaitSetup
  <2>1. /\ pc = "awaitSetup" /\ pc' \in {"leave", "gate", "ask"} /\ setup' = "none"
        /\ UNCHANGED <<asks, apc, aq, retried, tree, token>>
        /\ e' = e \/ e' = [e EXCEPT !.kind = "review"]
    BY <1>3 DEF AwaitSetup
  <2>2. e' \in EngineLocals BY <1>l, <2>1, LocalUpdates DEF Kinds
  <2>3. e'.k = e.k BY <1>l, <2>1 DEF EngineLocals
  <2> QED BY <2>1, <2>2, <2>3, <1>l, <1>r, MoveTypes DEF EnginePCs, KeyPCs
<1>4. CASE EnterStep
  <2>1. /\ pc = "enter" /\ pc' \in {"exec", "fail"} /\ UNCHANGED <<asks, apc, aq, retried, tree, token, setup>>
        /\ e' = e \/ e' = [e EXCEPT !.attempt = 1]
    BY <1>4 DEF EnterStep, Save
  <2>a. 1 \in 1 .. MaxAttempts BY PlaybookIs
  <2>2. e' \in EngineLocals BY <1>l, <2>1, <2>a, LocalUpdates
  <2>3. e'.k = e.k BY <1>l, <2>1 DEF EngineLocals
  <2> QED BY <2>1, <2>2, <2>3, <1>l, <1>r, MoveTypes DEF EnginePCs, KeyPCs
<1>5. CASE StepSucceeds \/ Prepared
  <2>1. /\ pc \in {"exec", "prepared"} /\ pc' = "next" /\ UNCHANGED <<asks, apc, aq, retried, tree, token>>
        /\ e' = [e EXCEPT !.k = e.k + 1] /\ setup' \in {setup, "running", "none"}
    BY <1>5 DEF StepSucceeds, Prepared, Save
  <2>2. e.k + 1 \in 1 .. Len(Playbook) + 1 BY <1>l, <2>1 DEF KeyPCs
  <2>3. e' \in EngineLocals BY <1>l, <2>1, <2>2, LocalUpdates
  <2> QED BY <2>1, <2>3, <1>r, MoveTypes DEF EnginePCs, KeyPCs
<1>6. CASE Prepare
  BY <1>6, <1>l, <1>r, MoveTypes DEF Prepare, EnginePCs, KeyPCs
<1>7. CASE StepFails
  <2>1. /\ pc = "exec" /\ pc' \in {"exec", "abortSetup", "ask", "fail"}
        /\ UNCHANGED <<asks, apc, aq, tree, token, setup>> /\ retried' \in {retried, retried + 1}
        /\ \/ e' = [e EXCEPT !.after = "cancelRun"] \/ e' = [e EXCEPT !.kind = "blocked"]
           \/ e.attempt < MaxAttempts /\ e' = [e EXCEPT !.attempt = e.attempt + 1]
    BY <1>7 DEF StepFails
  <2>2. e.attempt < MaxAttempts => e.attempt + 1 \in 1 .. MaxAttempts BY LocalsAre, PlaybookIs
  <2>3. e' \in EngineLocals BY <1>l, <2>1, <2>2, LocalUpdates DEF Kinds
  <2>4. e'.k = e.k BY <1>l, <2>1 DEF EngineLocals
  <2>5. retried' \in Nat BY <2>1, <1>r
  <2> QED BY <2>1, <2>3, <2>4, <2>5, <1>l, <1>r, MoveTypes DEF EnginePCs, KeyPCs
<1>8. CASE Complete \/ CancelRun
  BY <1>8, <1>l, <1>r, MoveTypes DEF Complete, CancelRun, Transition, Save, EnginePCs, KeyPCs
<1>9. CASE FailRun
  <2>1. /\ pc' = "abortSetup" /\ UNCHANGED <<asks, apc, aq, retried, tree, token, setup>>
        /\ e' = [e EXCEPT !.after = "leave"]
    BY <1>9 DEF FailRun, Save
  <2>2. e' \in EngineLocals BY <1>l, <2>1, LocalUpdates
  <2> QED BY <2>1, <2>2, <1>r, MoveTypes DEF EnginePCs, KeyPCs
<1>10. CASE AbortSetup
  BY <1>10, <1>l, <1>r, LocalsAre, MoveTypes DEF AbortSetup, EnginePCs, KeyPCs
<1>11. CASE Leave BY <1>11, <1>l, <1>r, MoveTypes DEF Leave, EnginePCs, KeyPCs
<1>12. CASE Gate BY <1>12, <1>l, <1>r, MoveTypes DEF Gate, ApprovalNext, EnginePCs, KeyPCs
<1>13. CASE BudgetAsk \/ ApprovalAsk \/ AskWrite
  <2>1. /\ pc \in {"budgetAsk", "approvalAsk", "askWrite"} /\ pc' \in {"wait", "leave", "approvalPause", "askSync"}
        /\ UNCHANGED <<apc, aq, retried, tree, token, setup>>
        /\ \/ \E kind \in Kinds : Put(kind)
           \/ UNCHANGED <<asks, e>>
    BY <1>13, LocalsAre DEF BudgetAsk, ApprovalAsk, AskWrite, Transition, Save, Kinds
  <2>2. pc \in KeyPCs /\ pc' \in EnginePCs BY <2>1 DEF KeyPCs, EnginePCs
  <2>3. CASE UNCHANGED <<asks, e>> BY <2>1, <2>2, <2>3, <1>l, <1>r, MoveTypes
  <2>4. ASSUME NEW kind \in Kinds, Put(kind) PROVE Rest' /\ OnStep'
    <3>1. asks' \in Seq(Questions) /\ e' \in EngineLocals /\ e'.k = e.k
      BY <1>l, <2>2, <2>4, PutTypes
    <3> QED BY <2>1, <2>2, <3>1, <1>l DEF Rest, OnStep
  <2> QED BY <2>1, <2>3, <2>4
<1>14. CASE ApprovalPause
  BY <1>14, <1>l, <1>r, MoveTypes DEF ApprovalPause, Transition, Save, EnginePCs, KeyPCs
<1>15. CASE Ask
  <2>1. /\ pc = "ask" /\ pc' \in {"askWrite", "leave"} /\ UNCHANGED <<asks, apc, aq, retried, tree, token, setup>>
        /\ e' = e \/ e' = [e EXCEPT !.copy = Paused(row)]
    BY <1>15 DEF Ask, Paused
  <2>2. Paused(row) \in Runs BY DEF Paused, Runs, RunStates
  <2>3. e' \in EngineLocals BY <1>l, <2>1, <2>2, LocalUpdates
  <2>4. e'.k = e.k BY <1>l, <2>1 DEF EngineLocals
  <2> QED BY <2>1, <2>3, <2>4, <1>l, <1>r, MoveTypes DEF EnginePCs, KeyPCs
<1>16. CASE AskSync \/ WaitCancelled
  BY <1>16, <1>l, <1>r, MoveTypes DEF AskSync, WaitCancelled, EnginePCs, KeyPCs
<1>17. CASE WaitAnswered
  <2>1. /\ pc = "wait" /\ pc' = "resume" /\ UNCHANGED <<asks, apc, aq, retried, tree, token, setup>>
        /\ e' = [e EXCEPT !.ans = asks[e.q].answer]
    BY <1>17 DEF WaitAnswered
  <2>2. e.q \in 1 .. Len(asks) BY <2>1, <1>r, LocalsAre DEF Alone, Open
  <2>a. asks[e.q] \in Questions BY <2>2, <1>r
  <2>3. asks[e.q].answer \in Answers BY <2>a DEF Questions
  <2>4. e' \in EngineLocals BY <1>l, <2>1, <2>3, LocalUpdates
  <2>5. e'.k = e.k BY <1>l, <2>1 DEF EngineLocals
  <2> QED BY <2>1, <2>4, <2>5, <1>l, <1>r, MoveTypes DEF EnginePCs, KeyPCs
<1>18. CASE Refuse \/ Override \/ Approved \/ Reviewed
  <2>1. /\ pc = "resume" /\ pc' \in {"leave", "abortSetup", "approvalAsk", "enter", "gate"}
        /\ UNCHANGED <<asks, apc, aq, retried, tree, token, setup>>
        /\ e' = e \/ e' = [e EXCEPT !.after = "leave"] \/ e' = [e EXCEPT !.grant = retried]
    BY <1>18 DEF Refuse, Override, Approved, Reviewed, ApprovalNext, Transition, Save
  <2>2. e' \in EngineLocals BY <1>l, <1>r, <2>1, LocalUpdates
  <2>3. e'.k = e.k BY <1>l, <2>1 DEF EngineLocals
  <2> QED BY <2>1, <2>2, <2>3, <1>l, <1>r, MoveTypes DEF EnginePCs, KeyPCs
<1>19. CASE Unblocked
  <2>1. /\ pc = "resume" /\ UNCHANGED <<asks, apc, aq, retried, tree, token, setup>>
        /\ \/ e' = e /\ pc' \in {"enter", "leave"}
           \/ e' = [e EXCEPT !.k = e.k + 1] /\ pc' \in {"next", "leave"}
    BY <1>19 DEF Unblocked, Transition, Save
  <2>2. e.k \in 1 .. Len(Playbook) /\ e.k + 1 \in 1 .. Len(Playbook) + 1 BY <1>l, <2>1 DEF KeyPCs
  <2>3. e' \in EngineLocals BY <1>l, <2>1, <2>2, LocalUpdates
  <2> QED BY <2>1, <2>2, <2>3, <1>r, MoveTypes DEF EnginePCs, KeyPCs
<1> QED
  BY <1>1, <1>2, <1>3, <1>4, <1>5, <1>6, <1>7, <1>8, <1>9, <1>10, <1>11, <1>12, <1>13, <1>14,
     <1>15, <1>16, <1>17, <1>18, <1>19 DEF EngineStep, StepEnds

\* The types in full, and what they rest on: each is inductive with the others.
Typed == Shape /\ Sync /\ QShape /\ Alone /\ Rest /\ OnStep

LEMMA TypedInit == Init => Typed
<1> SUFFICES ASSUME Init PROVE Typed OBVIOUS
<1>1. Shape /\ Sync /\ QShape /\ Alone BY SyncInit, AloneInit
<1>2. NewRun \in Runs BY DEF NewRun, Runs, RunStates
<1>3. NewLocals \in EngineLocals
  BY <1>2, PlaybookIs DEF NewLocals, EngineLocals, Answers, Kinds
<1>4. asks \in Seq(Questions) BY DEF Init
<1>5. /\ retried \in Nat /\ tree \in BOOLEAN /\ token \in BOOLEAN /\ pc \in EnginePCs /\ e \in EngineLocals
      /\ setup \in {"none", "running", "ok", "failed"} /\ pc \notin KeyPCs
  BY <1>3 DEF Init, EnginePCs, KeyPCs
<1>6. apc \in [Operators -> {"idle", "check", "write"}] /\ aq \in [Operators -> Nat \ {0}]
  BY DEF Init
<1> QED BY <1>1, <1>4, <1>5, <1>6 DEF Typed, Rest, OnStep

LEMMA TypedStep == Typed /\ [Next]_vars => Typed'
<1> SUFFICES ASSUME Typed, [Next]_vars PROVE Typed' OBVIOUS
<1> USE DEF Typed
<1>1. Shape' /\ Sync' /\ QShape' /\ Alone' BY StepKeeps, AloneStep
<1>2. CASE EngineStep \/ StepEnds BY <1>1, <1>2, EngineTypes DEF Shape
<1>3. CASE SetupEnds \/ SetupKilled \/ UNCHANGED vars
  BY <1>1, <1>3 DEF SetupEnds, SetupKilled, vars, db, engine, others, aVars, Rest, OnStep
<1>4. CASE Crash
  <2>1. NewRun \in Runs BY DEF NewRun, Runs, RunStates
  <2>2. NewLocals \in EngineLocals
    BY <2>1, PlaybookIs DEF NewLocals, EngineLocals, Answers, Kinds
  <2>3. "done" \in EnginePCs /\ "done" \notin KeyPCs BY DEF EnginePCs, KeyPCs
  <2>4. /\ UNCHANGED <<asks, retried, tree>> /\ token' = FALSE /\ pc' = "done" /\ e' = NewLocals
        /\ setup' = "none" /\ apc' = [a \in Operators |-> "idle"] /\ aq' = [a \in Operators |-> 1]
    BY <1>4 DEF Crash, db
  <2>5. apc' \in [Operators -> {"idle", "check", "write"}] /\ aq' \in [Operators -> Nat \ {0}] BY <2>4
  <2> QED BY <1>1, <2>2, <2>3, <2>4, <2>5 DEF Rest, OnStep
<1>5. ASSUME NEW x \in Cancellers, CancelFire(x) \/ CancelRead(x) \/ CancelWrite(x) PROVE Rest' /\ OnStep'
  <2>1. UNCHANGED <<asks, retried, tree, engine, setup, aVars>> /\ token' \in {token, TRUE, FALSE}
    BY <1>5 DEF CancelFire, CancelRead, CancelWrite, db, xOthers
  <2> QED BY <2>1 DEF engine, aVars, Rest, OnStep
<1>6. ASSUME NEW a \in Operators, AnswerCheck(a) \/ \E q \in 1 .. Len(asks) : Answer(a, q) PROVE Rest' /\ OnStep'
  <2>1. /\ UNCHANGED <<asks, retried, tree, token, engine, setup>>
        /\ apc' = [apc EXCEPT ![a] = apc'[a]] /\ apc'[a] \in {"idle", "check", "write"}
        /\ aq' = aq \/ \E q \in 1 .. Len(asks) : aq' = [aq EXCEPT ![a] = q]
    BY <1>6 DEF AnswerCheck, Answer, AGoto, aOthers, Rest
  <2>2. aq' \in [Operators -> Nat \ {0}] BY <2>1 DEF Rest
  <2> QED BY <2>1, <2>2 DEF engine, Rest, OnStep
<1>7. ASSUME NEW a \in Operators, AnswerWrite(a) PROVE Rest' /\ OnStep'
  <2>2. asks' \in Seq(Questions) BY <1>7, AnswerTypes
  <2>3. apc' = [apc EXCEPT ![a] = "idle"] /\ UNCHANGED <<retried, tree, token, engine, setup, aq>>
    BY <1>7 DEF AnswerWrite, AGoto, aOthers
  <2> QED BY <2>2, <2>3 DEF engine, Rest, OnStep
<1> QED BY <1>1, <1>2, <1>3, <1>4, <1>5, <1>6, <1>7 DEF Next

\* Rows, questions, control points and locals keep their types, whoever
\* writes the run and whenever the server restarts.
THEOREM TypesHold == Spec => []TypeOK
<1>1. Typed => TypeOK BY DEF Typed, Shape, Rest, TypeOK
<1> QED BY <1>1, TypedInit, TypedStep, PTL DEF Spec

-----------------------------------------------------------------------------
(* The questions of a run: none is ever lost or changes what it asks, and  *)
(* with one operator a settled one keeps its answer (the answer is written *)
(* whatever the question has become, so a second operator can replace it). *)

OneOperator == \A a, b \in Operators : a = b
OneWrites ==
    OneOperator => \A a \in Operators : apc[a] # "idle" => aq[a] \in 1 .. Len(asks) /\ ~ Settled(aq[a])

Grown ==
    /\ Len(asks) \in Nat /\ Len(asks') \in Nat /\ Len(asks') >= Len(asks)
    /\ \A q \in 1 .. Len(asks) :
         /\ asks'[q].kind = asks[q].kind /\ asks'[q].k = asks[q].k /\ asks'[q].seen = asks[q].seen
         /\ asks[q].status # "Pending" => asks'[q].status # "Pending"
         /\ OneOperator /\ asks[q].status # "Pending" => asks'[q] = asks[q]

\* The engine either leaves the questions as they are or puts one more.
LEMMA EngineAsks ==
    ASSUME Typed, EngineStep \/ StepEnds
    PROVE  /\ UNCHANGED <<apc, aq, token, cancels, crashes>>
           /\ \/ UNCHANGED asks
              \/ e.k \in 1 .. Len(Playbook) /\ \E kind \in Kinds : Put(kind)
<1> USE DEF others, db, aVars, bounds
<1>k. e.kind \in Kinds /\ (pc \in KeyPCs => e.k \in 1 .. Len(Playbook))
  BY LocalsAre DEF Typed, OnStep
<1>1. CASE BudgetAsk \/ ApprovalAsk \/ AskWrite
  <2>1. /\ pc \in {"budgetAsk", "approvalAsk", "askWrite"} /\ UNCHANGED <<apc, aq, token, cancels, crashes>>
        /\ UNCHANGED asks \/ \E kind \in Kinds : Put(kind)
    BY <1>1, <1>k DEF BudgetAsk, ApprovalAsk, AskWrite, Kinds
  <2> QED BY <2>1, <1>k DEF KeyPCs
<1>2. CASE \/ PreflightPasses \/ PreflightFails \/ NextStep \/ AwaitSetup \/ EnterStep \/ Prepared
          \/ Complete \/ CancelRun \/ FailRun \/ AbortSetup \/ Leave \/ StepEnds
  BY <1>2 DEF PreflightPasses, PreflightFails, NextStep, AwaitSetup, EnterStep, Prepared, Complete, CancelRun,
     FailRun, AbortSetup, Leave, StepEnds, StepSucceeds, Prepare, StepFails
<1>3. CASE \/ Gate \/ ApprovalPause \/ Ask \/ AskSync
          \/ WaitCancelled \/ WaitAnswered \/ Refuse \/ Override \/ Approved \/ Reviewed \/ Unblocked
  BY <1>3 DEF Gate, ApprovalPause, Ask, AskSync, WaitCancelled, WaitAnswered, Refuse, Override, Approved,
     Reviewed, Unblocked
<1> QED BY <1>1, <1>2, <1>3 DEF EngineStep

LEMMA AsksGrow ==
    ASSUME Typed, OneWrites, [Next]_vars
    PROVE  Grown /\ OneWrites'
<1>t. Rest /\ asks \in Seq(Questions) /\ Len(asks) \in Nat BY DEF Typed, Rest
<1>q. CASE UNCHANGED asks
  <2>1. Grown BY <1>q, <1>t DEF Grown
  <2>2. CASE UNCHANGED <<apc, aq>> BY <1>q, <2>1, <2>2 DEF OneWrites, Settled
  <2>3. CASE Crash BY <1>q, <2>1, <2>3 DEF Crash, OneWrites
  <2>4. ASSUME NEW a \in Operators, AnswerCheck(a) PROVE OneWrites'
    <3>1. apc[a] = "check" /\ apc' = [apc EXCEPT ![a] = apc'[a]] /\ UNCHANGED aq
      BY <2>4, <1>t DEF AnswerCheck, AGoto, Rest
    <3>2. \A b \in Operators : apc'[b] # "idle" => apc[b] # "idle" BY <3>1, <1>t DEF Rest
    <3> QED BY <1>q, <3>1, <3>2 DEF OneWrites, Settled
  <2>5. ASSUME NEW a \in Operators, NEW q \in 1 .. Len(asks), Answer(a, q) PROVE OneWrites'
    <3>1. asks[q].status = "Pending" /\ aq' = [aq EXCEPT ![a] = q]
      BY <2>5 DEF Answer
    <3>2. aq'[a] = q BY <3>1, <1>t DEF Rest
    <3>3. OneOperator => \A b \in Operators : b = a BY DEF OneOperator
    <3> QED BY <1>q, <3>1, <3>2, <3>3 DEF OneWrites, Settled
  <2>6. CASE EngineStep \/ StepEnds BY <2>1, <2>2, <2>6, EngineAsks
  <2>7. CASE \/ SetupEnds \/ SetupKilled \/ UNCHANGED vars
            \/ \E x \in Cancellers : CancelFire(x) \/ CancelRead(x) \/ CancelWrite(x)
    BY <2>1, <2>2, <2>7 DEF SetupEnds, SetupKilled, vars, others, aVars, CancelFire, CancelRead, CancelWrite, xOthers
  <2>8. ASSUME NEW a \in Operators, AnswerWrite(a) PROVE OneWrites'
    <3>1. apc' = [apc EXCEPT ![a] = "idle"] /\ UNCHANGED aq BY <2>8 DEF AnswerWrite, AGoto
    <3>2. \A b \in Operators : apc'[b] # "idle" => apc[b] # "idle" BY <3>1, <1>t DEF Rest
    <3> QED BY <1>q, <3>1, <3>2 DEF OneWrites, Settled
  <2> QED BY <2>1, <2>3, <2>4, <2>5, <2>6, <2>7, <2>8 DEF Next
<1>1. ASSUME e.k \in 1 .. Len(Playbook), NEW kind \in Kinds, Put(kind), UNCHANGED <<apc, aq>>
      PROVE  Grown /\ OneWrites'
  <2>a. Len(asks') = Len(asks) + 1 /\ \A q \in 1 .. Len(asks) : asks'[q] = asks[q]
    BY <1>1, <1>t, PutTypes
  <2>1. /\ Len(asks') = Len(asks) + 1 /\ \A q \in 1 .. Len(asks) : asks'[q] = asks[q] /\ q \in 1 .. Len(asks')
    BY <2>a, <1>t
  <2>2. Grown BY <2>1, <1>t DEF Grown
  <2>3. OneWrites' BY <1>1, <2>1 DEF OneWrites, Settled
  <2> QED BY <2>2, <2>3
<1>2. ASSUME NEW a \in Operators, AnswerWrite(a)
      PROVE  Grown /\ OneWrites'
  <2>1. Rest BY DEF Typed
  <2>2. /\ Len(asks') = Len(asks)
        /\ \A p \in 1 .. Len(asks) :
             /\ asks'[p].kind = asks[p].kind /\ asks'[p].k = asks[p].k /\ asks'[p].seen = asks[p].seen
             /\ p = aq[a] => asks'[p].status # "Pending"
             /\ p # aq[a] => asks'[p] = asks[p]
    BY <1>2, <2>1, AnswerTypes
  <2>3. apc[a] = "write" /\ apc' = [apc EXCEPT ![a] = "idle"] /\ UNCHANGED aq BY <1>2 DEF AnswerWrite, AGoto
  <2>4. OneOperator => asks[aq[a]].status = "Pending" BY <2>3 DEF OneWrites, Settled
  <2>5. Grown BY <2>2, <2>4, <1>t DEF Grown
  <2>6. OneOperator => \A b \in Operators : apc'[b] = "idle" BY <2>3, <1>t DEF OneOperator, Rest
  <2> QED BY <2>5, <2>6 DEF OneWrites
<1>3. CASE EngineStep \/ StepEnds BY <1>q, <1>1, <1>3, EngineAsks
<1>4. CASE SetupEnds \/ SetupKilled \/ Crash \/ UNCHANGED vars
  BY <1>4, <1>q DEF SetupEnds, SetupKilled, vars, db, Crash
<1>5. ASSUME NEW x \in Cancellers, CancelFire(x) \/ CancelRead(x) \/ CancelWrite(x)
      PROVE  Grown /\ OneWrites'
  BY <1>5, <1>q DEF CancelFire, CancelRead, CancelWrite, db
<1>6. ASSUME NEW a \in Operators, AnswerCheck(a) \/ \E q \in 1 .. Len(asks) : Answer(a, q)
      PROVE  Grown /\ OneWrites'
  BY <1>6, <1>q DEF AnswerCheck, Answer
<1> QED BY <1>2, <1>3, <1>4, <1>5, <1>6 DEF Next

LEMMA RetriedGrows ==
    ASSUME Typed, [Next]_vars
    PROVE  retried \in Nat /\ retried' \in Nat /\ retried' >= retried
<1>1. retried \in Nat BY DEF Typed, Rest
<1>2. retried' = retried \/ retried' = retried + 1
  <2> USE DEF db
  <2>1. CASE \/ PreflightPasses \/ PreflightFails \/ NextStep \/ AwaitSetup \/ EnterStep \/ Prepared
            \/ Complete \/ CancelRun \/ FailRun \/ AbortSetup \/ Leave \/ StepEnds
    BY <2>1 DEF PreflightPasses, PreflightFails, NextStep, AwaitSetup, EnterStep, Prepared, Complete, CancelRun,
       FailRun, AbortSetup, Leave, StepEnds, StepSucceeds, Prepare, StepFails
  <2>2. CASE \/ Gate \/ BudgetAsk \/ ApprovalAsk \/ ApprovalPause \/ Ask \/ AskWrite \/ AskSync
            \/ WaitCancelled \/ WaitAnswered \/ Refuse \/ Override \/ Approved \/ Reviewed \/ Unblocked
    BY <2>2 DEF Gate, BudgetAsk, ApprovalAsk, ApprovalPause, Ask, AskWrite, AskSync, WaitCancelled, WaitAnswered,
       Refuse, Override, Approved, Reviewed, Unblocked
  <2>3. CASE SetupEnds \/ SetupKilled \/ Crash \/ UNCHANGED vars
    BY <2>3 DEF SetupEnds, SetupKilled, Crash, vars
  <2>4. ASSUME NEW x \in Cancellers, CancelFire(x) \/ CancelRead(x) \/ CancelWrite(x)
        PROVE  retried' = retried
    BY <2>4 DEF CancelFire, CancelRead, CancelWrite
  <2>5. ASSUME NEW a \in Operators, AnswerCheck(a) \/ AnswerWrite(a) \/ \E q \in 1 .. Len(asks) : Answer(a, q)
        PROVE  retried' = retried
    BY <2>5 DEF AnswerCheck, AnswerWrite, Answer, aOthers
  <2>6. CASE EngineStep BY <2>1, <2>2, <2>6 DEF EngineStep
  <2> QED BY <2>1, <2>3, <2>4, <2>5, <2>6 DEF Next
<1> QED BY <1>1, <1>2

\* Only an approval request is ever approved, and a question has seen no more
\* retries than there have been.
Honest == \A q \in 1 .. Len(asks) :
          asks[q].seen <= retried /\ (asks[q].answer = "approve" => asks[q].kind = "approval")

LEMMA HonestStep ==
    ASSUME Typed, OneWrites, Honest, [Next]_vars
    PROVE  Honest'
<1>s. Rest /\ Len(asks) \in Nat /\ \A q \in 1 .. Len(asks) : asks[q] \in Questions
  BY DEF Typed, Rest
<1>t. Rest /\ Len(asks) \in Nat /\ \A q \in 1 .. Len(asks) : asks[q].seen \in Nat
  BY <1>s DEF Questions
<1>r. retried \in Nat /\ retried' \in Nat /\ retried' >= retried BY RetriedGrows
<1>u. Rest BY DEF Typed
<1>q. CASE UNCHANGED asks BY <1>q, <1>t, <1>r DEF Honest
<1>1. ASSUME e.k \in 1 .. Len(Playbook), NEW kind \in Kinds, Put(kind)
      PROVE  Honest'
  <2>a. asks'[Len(asks')] = Question(kind) BY <1>1, <1>t, PutTypes
  <2>1. Len(asks') = Len(asks) + 1 /\ \A q \in 1 .. Len(asks) : asks'[q] = asks[q]
    BY <1>1, <1>t, PutTypes
  <2>2. Question(kind).seen = retried /\ Question(kind).answer = "none" BY DEF Question
  <2> SUFFICES ASSUME NEW q \in 1 .. Len(asks')
               PROVE  asks'[q].seen <= retried' /\ (asks'[q].answer = "approve" => asks'[q].kind = "approval")
    BY DEF Honest
  <2>3. CASE q = Len(asks') BY <2>a, <2>2, <2>3, <1>r
  <2>4. CASE q \in 1 .. Len(asks) BY <2>1, <2>4, <1>t, <1>r DEF Honest
  <2> QED BY <2>1, <2>3, <2>4, <1>t
<1>2. ASSUME NEW a \in Operators, AnswerWrite(a)
      PROVE  Honest'
  <2>1. Len(asks') = Len(asks) BY <1>2, <1>u, AnswerTypes
  <2> SUFFICES ASSUME NEW p \in 1 .. Len(asks)
               PROVE  asks'[p].seen <= retried' /\ (asks'[p].answer = "approve" => asks'[p].kind = "approval")
    BY <2>1 DEF Honest
  <2>2. /\ asks'[p].kind = asks[p].kind /\ asks'[p].seen = asks[p].seen
        /\ p = aq[a] /\ asks'[p].answer = "approve" => asks'[p].kind = "approval"
        /\ p # aq[a] => asks'[p] = asks[p]
    BY <1>2, <1>u, AnswerTypes
  <2>3. asks[p].seen <= retried /\ asks[p].seen \in Nat BY <1>t DEF Honest
  <2>4. asks'[p].seen <= retried' BY <2>2, <2>3, <1>r
  <2>5. asks'[p].answer = "approve" => asks'[p].kind = "approval" BY <2>2 DEF Honest
  <2> QED BY <2>4, <2>5
<1>3. CASE EngineStep \/ StepEnds BY <1>q, <1>1, <1>3, EngineAsks
<1>4. CASE SetupEnds \/ SetupKilled \/ Crash \/ UNCHANGED vars
  BY <1>4, <1>q DEF SetupEnds, SetupKilled, vars, db, Crash
<1>5. ASSUME NEW x \in Cancellers, CancelFire(x) \/ CancelRead(x) \/ CancelWrite(x)
      PROVE  Honest'
  BY <1>5, <1>q DEF CancelFire, CancelRead, CancelWrite, db
<1>6. ASSUME NEW a \in Operators, AnswerCheck(a) \/ \E q \in 1 .. Len(asks) : Answer(a, q)
      PROVE  Honest'
  BY <1>6, <1>q DEF AnswerCheck, Answer
<1> QED BY <1>2, <1>3, <1>4, <1>5, <1>6 DEF Next

\* The question the engine has put and the answer it acts on are those of the
\* step it stands on.
Facing ==
    /\ pc \in {"approvalPause", "askSync", "wait", "resume"} =>
         e.q \in 1 .. Len(asks) /\ asks[e.q].kind = e.kind /\ asks[e.q].k = e.k
    /\ pc \in {"ask", "askWrite"} => e.kind \in {"blocked", "review"}
    /\ pc = "approvalPause" => e.kind = "approval"
    /\ pc = "resume" =>
         /\ asks[e.q].status # "Pending"
         /\ OneOperator => asks[e.q].status = "Answered" /\ asks[e.q].answer = e.ans
         /\ e.ans = "approve" => e.kind = "approval"

LEMMA FacingStep ==
    ASSUME Typed, OneWrites, Honest, Facing, [Next]_vars
    PROVE  Facing'
<1> USE DEF others, db, engine
<1>g. Grown BY AsksGrow
<1>l. /\ e \in EngineLocals /\ Rest /\ e.kind \in Kinds /\ (pc \in KeyPCs => e.k \in 1 .. Len(Playbook))
      /\ Len(asks) \in Nat
  BY <1>g, LocalsAre DEF Typed, Rest, OnStep, Grown
<1>1. CASE UNCHANGED <<pc, e>> BY <1>1, <1>g DEF Facing, Grown
<1>2. CASE pc' \notin {"approvalPause", "askSync", "wait", "resume", "ask", "askWrite"}
  BY <1>2 DEF Facing
<1>3. CASE \/ PreflightPasses \/ PreflightFails \/ NextStep \/ EnterStep \/ Prepared \/ StepSucceeds \/ Prepare
          \/ Complete \/ CancelRun \/ FailRun \/ Leave \/ Gate \/ WaitCancelled
  BY <1>2, <1>3 DEF PreflightPasses, PreflightFails, NextStep, EnterStep, Prepared, StepSucceeds, Prepare, Complete,
     CancelRun, FailRun, Leave, Gate, WaitCancelled, ApprovalNext, Transition, Save
<1>4. CASE Refuse \/ Override \/ Approved \/ Reviewed \/ Unblocked \/ Crash
  BY <1>2, <1>4 DEF Refuse, Override, Approved, Reviewed, Unblocked, Crash, ApprovalNext, Transition, Save
<1>5. CASE AbortSetup
  <2>1. pc' \in {"leave", "cancelRun"} BY <1>5, LocalsAre DEF AbortSetup, Typed
  <2> QED BY <1>2, <2>1
<1>6. CASE AwaitSetup
  <2>1. pc' \in {"leave", "gate"} \/ (pc' = "ask" /\ e' = [e EXCEPT !.kind = "review"])
    BY <1>6 DEF AwaitSetup
  <2>2. e' = [e EXCEPT !.kind = "review"] => e'.kind = "review" BY <1>l DEF EngineLocals
  <2> QED BY <1>2, <2>1, <2>2 DEF Facing
<1>7. CASE StepFails
  <2>1. pc' \in {"abortSetup", "exec", "fail"} \/ (pc' = "ask" /\ e' = [e EXCEPT !.kind = "blocked"])
    BY <1>7 DEF StepFails
  <2>2. e' = [e EXCEPT !.kind = "blocked"] => e'.kind = "blocked" BY <1>l DEF EngineLocals
  <2> QED BY <1>2, <2>1, <2>2 DEF Facing
<1>8. CASE Ask
  <2>1. pc = "ask" /\ (pc' = "leave" \/ (pc' = "askWrite" /\ e' = [e EXCEPT !.copy = [row EXCEPT !.state = "WaitingHuman"]]))
    BY <1>8 DEF Ask
  <2>2. e' = [e EXCEPT !.copy = [row EXCEPT !.state = "WaitingHuman"]] => e'.kind = e.kind
    BY <1>l DEF EngineLocals
  <2> QED BY <1>2, <2>1, <2>2 DEF Facing
<1>9. CASE BudgetAsk \/ ApprovalAsk \/ AskWrite
  <2>1. CASE pc' = "leave" BY <1>2, <2>1
  <2>2. ASSUME NEW kind \in Kinds, Put(kind), pc' \in {"wait", "approvalPause", "askSync"}, pc \in KeyPCs,
               pc' = "approvalPause" => kind = "approval"
        PROVE  Facing'
    <3>a. asks'[Len(asks')] = Question(kind) BY <2>2, <1>l, PutTypes
    <3>b. e'.q = Len(asks') /\ e'.kind = kind /\ e'.k = e.k BY <2>2, <1>l, PutTypes
    <3>c. Len(asks') = Len(asks) + 1 BY <2>2, <1>l, PutTypes
    <3>d. Question(kind).kind = kind /\ Question(kind).k = e.k BY DEF Question
    <3>e. e'.q \in 1 .. Len(asks') /\ asks'[e'.q].kind = e'.kind /\ asks'[e'.q].k = e'.k
      BY <3>a, <3>b, <3>c, <3>d, <1>l
    <3> QED BY <2>2, <3>b, <3>e DEF Facing
  <2>3. CASE BudgetAsk
    <3>1. pc = "budgetAsk" /\ (pc' = "leave" \/ (pc' = "wait" /\ Put("budget")))
      BY <2>3 DEF BudgetAsk, Transition, Save
    <3> QED BY <2>1, <2>2, <3>1 DEF Kinds, KeyPCs
  <2>4. CASE ApprovalAsk BY <2>2, <2>4 DEF ApprovalAsk, Kinds, KeyPCs
  <2>5. CASE AskWrite BY <2>2, <2>5, <1>l DEF AskWrite, KeyPCs
  <2> QED BY <1>9, <2>3, <2>4, <2>5
<1>10. CASE ApprovalPause
  <2>1. pc = "approvalPause" /\ pc' \in {"wait", "leave"} /\ UNCHANGED <<e, asks>>
    BY <1>10 DEF ApprovalPause, Transition, Save
  <2> QED BY <2>1 DEF Facing
<1>11. CASE AskSync
  <2>1. pc = "askSync" /\ pc' = "wait" /\ UNCHANGED <<e, asks>> BY <1>11 DEF AskSync
  <2> QED BY <2>1 DEF Facing
<1>12. CASE WaitAnswered
  <2>1. /\ pc = "wait" /\ pc' = "resume" /\ UNCHANGED asks /\ asks[e.q].status = "Answered"
        /\ e' = [e EXCEPT !.ans = asks[e.q].answer]
    BY <1>12 DEF WaitAnswered
  <2>2. e'.q = e.q /\ e'.kind = e.kind /\ e'.k = e.k /\ e'.ans = asks[e.q].answer
    BY <2>1, <1>l DEF EngineLocals
  <2>3. e.q \in 1 .. Len(asks) /\ asks[e.q].kind = e.kind /\ asks[e.q].k = e.k BY <2>1 DEF Facing
  <2>4. e'.ans = "approve" => e.kind = "approval" BY <2>2, <2>3 DEF Honest
  <2> QED BY <2>1, <2>2, <2>3, <2>4 DEF Facing
<1>13. CASE EngineStep \/ StepEnds
  <2>1. CASE EngineStep BY <1>3, <1>4, <1>5, <1>6, <1>8, <1>9, <1>10, <1>11, <1>12, <2>1 DEF EngineStep
  <2>2. CASE StepEnds BY <1>3, <1>7, <2>2 DEF StepEnds
  <2> QED BY <1>13, <2>1, <2>2
<1>14. CASE SetupEnds \/ SetupKilled \/ UNCHANGED vars
  BY <1>1, <1>14 DEF SetupEnds, SetupKilled, vars
<1>15. ASSUME NEW x \in Cancellers, CancelFire(x) \/ CancelRead(x) \/ CancelWrite(x)
       PROVE  Facing'
  BY <1>1, <1>15 DEF CancelFire, CancelRead, CancelWrite, xOthers
<1>16. ASSUME NEW a \in Operators, AnswerCheck(a) \/ AnswerWrite(a) \/ \E q \in 1 .. Len(asks) : Answer(a, q)
       PROVE  Facing'
  BY <1>1, <1>16 DEF AnswerCheck, AnswerWrite, Answer, aOthers
<1> QED BY <1>4, <1>13, <1>14, <1>15, <1>16 DEF Next

-----------------------------------------------------------------------------
(* The approval checkpoint.  A step that has been let through, or is asked *)
(* about because it failed, has its own request, settled; with one         *)
(* operator the answer is still the approval the engine has acted on.      *)

Passed ==
    Key \in Checkpoints =>
        \E q \in 1 .. Len(asks) :
            /\ asks[q].kind = "approval" /\ asks[q].k = e.k /\ asks[q].status # "Pending"
            /\ OneOperator => asks[q].status = "Answered" /\ asks[q].answer = "approve"
Blocked == pc \in {"ask", "askWrite", "askSync", "wait", "resume"} /\ e.kind = "blocked"
Clear   == pc \in {"enter", "exec", "prepared"} \/ Blocked => Passed

LEMMA PassedStays ==
    ASSUME Grown, Passed, e'.k = e.k
    PROVE  Passed'
BY DEF Grown, Passed, Key

LEMMA ClearStep ==
    ASSUME Typed, OneWrites, Facing, Clear, [Next]_vars
    PROVE  Clear'
<1> USE DEF others, db, engine
<1>g. Grown BY AsksGrow
<1>l. /\ e \in EngineLocals /\ Rest /\ e.kind \in Kinds /\ (pc \in KeyPCs => e.k \in 1 .. Len(Playbook))
      /\ Len(asks) \in Nat
  BY <1>g, LocalsAre DEF Typed, Rest, OnStep, Grown
<1>1. CASE UNCHANGED <<pc, e>> BY <1>1, <1>g, PassedStays DEF Clear, Blocked
<1>2. CASE pc' \notin {"enter", "exec", "prepared", "ask", "askWrite", "askSync", "wait", "resume"}
  BY <1>2 DEF Clear, Blocked
<1>3. CASE PreflightPasses \/ PreflightFails \/ NextStep \/ Prepared \/ StepSucceeds \/ Complete \/ CancelRun
  BY <1>2, <1>3 DEF PreflightPasses, PreflightFails, NextStep, Prepared, StepSucceeds, Complete, CancelRun,
     Transition, Save
<1>4. CASE FailRun \/ Leave \/ WaitCancelled \/ Refuse \/ Reviewed \/ Crash \/ ApprovalAsk
  BY <1>2, <1>4 DEF FailRun, Leave, WaitCancelled, Refuse, Reviewed, Crash, ApprovalAsk, Transition, Save
<1>5. CASE AbortSetup
  <2>1. pc' \in {"leave", "cancelRun"} BY <1>5, LocalsAre DEF AbortSetup, Typed
  <2> QED BY <1>2, <2>1
<1>6. CASE AwaitSetup
  <2>1. pc' \in {"leave", "gate"} \/ (pc' = "ask" /\ e' = [e EXCEPT !.kind = "review"])
    BY <1>6 DEF AwaitSetup
  <2>2. e' = [e EXCEPT !.kind = "review"] => e'.kind = "review" BY <1>l DEF EngineLocals
  <2> QED BY <1>2, <2>1, <2>2 DEF Clear, Blocked
\* The step goes on, or is asked about.
<1>7. CASE EnterStep \/ Prepare \/ StepFails \/ Ask
  <2>1. /\ pc \in {"enter", "exec"} \/ (pc = "ask" /\ (pc' = "leave" \/ e'.kind = e.kind))
        /\ e'.k = e.k
    BY <1>7, <1>l DEF EnterStep, Prepare, StepFails, Ask, Save, EngineLocals
  <2>2. pc \in {"enter", "exec"} => Passed' BY <2>1, <1>g, PassedStays DEF Clear
  <2>3. pc = "ask" => pc' \in {"leave", "askWrite"} BY <1>7 DEF EnterStep, Prepare, StepFails, Ask
  <2>4. Blocked => Passed' BY <2>1, <1>g, PassedStays DEF Clear
  <2> QED BY <2>1, <2>2, <2>3, <2>4 DEF Clear, Blocked
<1>8. CASE Gate
  <2>1. e' = e /\ (pc' \in {"budgetAsk", "approvalAsk"} \/ (pc' = "enter" /\ Key \notin Checkpoints))
    BY <1>8 DEF Gate, ApprovalNext
  <2> QED BY <1>2, <2>1 DEF Clear, Passed, Key
<1>9. CASE BudgetAsk
  <2>1. pc = "budgetAsk" /\ (pc' = "leave" \/ (pc' = "wait" /\ Put("budget")))
    BY <1>9 DEF BudgetAsk, Transition, Save
  <2>2. Put("budget") => e'.kind = "budget" BY <2>1, <1>l DEF Put, EngineLocals
  <2> QED BY <1>2, <2>1, <2>2 DEF Clear, Blocked
<1>10. CASE ApprovalPause
  <2>1. pc = "approvalPause" /\ pc' \in {"wait", "leave"} /\ UNCHANGED e
    BY <1>10 DEF ApprovalPause, Transition, Save
  <2>2. e.kind = "approval" BY <2>1 DEF Facing
  <2> QED BY <2>1, <2>2 DEF Clear, Blocked
<1>11. CASE AskWrite \/ AskSync \/ WaitAnswered
  <2>1. /\ pc \in {"askWrite", "askSync", "wait"} /\ pc' \in {"askSync", "wait", "resume"}
        /\ e' = e \/ Put(e.kind) \/ e' = [e EXCEPT !.ans = asks[e.q].answer]
    BY <1>11 DEF AskWrite, AskSync, WaitAnswered
  <2>2. e'.k = e.k /\ e'.kind = e.kind BY <2>1, <1>l DEF Put, EngineLocals
  <2>3. Blocked => Passed' BY <2>2, <1>g, PassedStays DEF Clear
  <2> QED BY <2>1, <2>2, <2>3 DEF Clear, Blocked
<1>12. CASE Override
  <2>1. e'.k = e.k BY <1>12, <1>l DEF Override, EngineLocals
  <2>2. pc' \in {"leave", "approvalAsk"} \/ (pc' = "enter" /\ Key \notin Checkpoints)
    BY <1>12 DEF Override, ApprovalNext, Transition, Save
  <2> QED BY <1>2, <2>1, <2>2 DEF Clear, Passed, Key
<1>13. CASE Approved
  <2>1. pc = "resume" /\ e.ans = "approve" /\ UNCHANGED <<e, asks>> BY <1>13 DEF Approved
  <2>2. Passed BY <2>1 DEF Facing, Passed
  <2>3. Passed' BY <2>1, <2>2, <1>g, PassedStays
  <2> QED BY <2>3 DEF Clear
<1>14. CASE Unblocked
  <2>1. pc = "resume" /\ e.kind = "blocked" /\ (pc' \in {"leave", "next"} \/ e' = e)
    BY <1>14 DEF Unblocked, Transition, Save
  <2>2. e' = e => Passed' BY <2>1, <1>g, PassedStays DEF Clear, Blocked
  <2> QED BY <1>2, <2>1, <2>2 DEF Clear
<1>15. CASE EngineStep \/ StepEnds
  <2>1. CASE EngineStep
    BY <1>3, <1>4, <1>5, <1>6, <1>7, <1>8, <1>9, <1>10, <1>11, <1>12, <1>13, <1>14, <2>1 DEF EngineStep
  <2>2. CASE StepEnds BY <1>3, <1>7, <2>2 DEF StepEnds
  <2> QED BY <1>15, <2>1, <2>2
<1>16. CASE SetupEnds \/ SetupKilled \/ UNCHANGED vars
  BY <1>1, <1>16 DEF SetupEnds, SetupKilled, vars
<1>17. ASSUME NEW x \in Cancellers, CancelFire(x) \/ CancelRead(x) \/ CancelWrite(x)
       PROVE  Clear'
  BY <1>1, <1>17 DEF CancelFire, CancelRead, CancelWrite, xOthers
<1>18. ASSUME NEW a \in Operators, AnswerCheck(a) \/ AnswerWrite(a) \/ \E q \in 1 .. Len(asks) : Answer(a, q)
       PROVE  Clear'
  BY <1>1, <1>18 DEF AnswerCheck, AnswerWrite, Answer, aOthers
<1> QED BY <1>4, <1>15, <1>16, <1>17, <1>18 DEF Next

\* What the gates keep, together.
Gated == Typed /\ OneWrites /\ Honest /\ Facing /\ Clear

LEMMA GatedInit == Init => Gated
<1> SUFFICES ASSUME Init PROVE Gated OBVIOUS
<1>1. asks = <<>> /\ pc = "preflight" /\ \A a \in Operators : apc[a] = "idle" BY DEF Init
<1>2. OneWrites /\ Honest /\ Facing /\ Clear
  BY <1>1 DEF OneWrites, Honest, Facing, Clear, Blocked
<1> QED BY <1>2, TypedInit DEF Gated

LEMMA GatedStep == Gated /\ [Next]_vars => Gated'
BY TypedStep, AsksGrow, HonestStep, FacingStep, ClearStep DEF Gated

\* ApprovedBeforeRun: with one operator a step behind a checkpoint runs only
\* once its own request has been approved, also when a budget gate came first.
\* A second operator who answers the same request can replace the approval
\* after the engine has read it.
THEOREM ApprovedBeforeRunHolds == OneOperator => (Spec => []ApprovedBeforeRun)
<1> SUFFICES ASSUME OneOperator PROVE Spec => []ApprovedBeforeRun OBVIOUS
<1>1. Gated => ApprovedBeforeRun BY DEF Gated, Clear, Passed, ApprovedBeforeRun
<1> QED BY <1>1, GatedInit, GatedStep, PTL DEF Spec

\* However many operators answer, a step behind a checkpoint never runs
\* before a request of its own has been put and settled.
SettledBeforeRun ==
    pc \in {"exec", "prepared"} /\ Key \in Checkpoints =>
        \E q \in 1 .. Len(asks) : asks[q].kind = "approval" /\ asks[q].k = e.k /\ Settled(q)
THEOREM SettledBeforeRunHolds == Spec => []SettledBeforeRun
<1>1. Gated => SettledBeforeRun BY DEF Gated, Clear, Passed, SettledBeforeRun, Settled
<1> QED BY <1>1, GatedInit, GatedStep, PTL DEF Spec

-----------------------------------------------------------------------------
(* The budget gate.  An override waives what every earlier budget question *)
(* had seen, so the next one is put only when the budget is spent anew.    *)

Leaving == pc \in {"leave", "done"} \/ (pc = "abortSetup" /\ e.after = "leave")
AskingBudget == pc \in {"wait", "resume"} /\ e.kind = "budget"
Spent   == ~TimeLimited /\ pc = "budgetAsk" => RetriesSpent
Granted ==
    Leaving \/ \A q \in 1 .. Len(asks) : asks[q].kind = "budget" =>
                 asks[q].seen <= e.grant \/ (q = Len(asks) /\ AskingBudget)
Budgeted == Spent /\ Granted /\ OverrideHolds

\* The engine goes on, and what it had waived stays waived.
LEMMA WaivedStays ==
    ASSUME Typed, Grown, Budgeted, Len(asks') = Len(asks), e'.grant = e.grant,
           Leaving => Leaving', AskingBudget => AskingBudget' \/ Leaving',
           pc' # "budgetAsk" \/ UNCHANGED <<pc, retried>>
    PROVE  Budgeted'
<1>1. Len(asks) \in Nat /\ \A q \in 1 .. Len(asks) : asks'[q].kind = asks[q].kind /\ asks'[q].seen = asks[q].seen
  BY DEF Grown
<1>2. Spent' BY DEF Budgeted, Spent, RetriesSpent
<1>3. Granted' BY <1>1 DEF Budgeted, Granted
<1>4. OverrideHolds' BY <1>1 DEF Budgeted, OverrideHolds
<1> QED BY <1>2, <1>3, <1>4 DEF Budgeted

\* A question about something else.
LEMMA OtherAsk ==
    ASSUME Typed, Budgeted, e.k \in 1 .. Len(Playbook), NEW kind \in Kinds \ {"budget"}, Put(kind),
           ~Leaving, ~AskingBudget, pc' # "budgetAsk"
    PROVE  Budgeted'
<1>t. Rest /\ Len(asks) \in Nat BY DEF Typed, Rest
<1>q. asks'[Len(asks')] = Question(kind) BY <1>t, PutTypes
<1>1. asks'[Len(asks')].kind # "budget" BY <1>q DEF Question
<1>2. Len(asks') = Len(asks) + 1 /\ \A q \in 1 .. Len(asks) : asks'[q] = asks[q] BY <1>t, PutTypes
<1>3. e'.grant = e.grant BY <1>t, PutTypes
<1>4. \A q \in 1 .. Len(asks') : asks'[q].kind = "budget" => q \in 1 .. Len(asks) BY <1>t, <1>1, <1>2
<1>5. Spent' BY DEF Spent
<1>6. Granted' BY <1>2, <1>3, <1>4 DEF Budgeted, Granted
<1>7. OverrideHolds' BY <1>2, <1>4 DEF Budgeted, OverrideHolds
<1> QED BY <1>5, <1>6, <1>7 DEF Budgeted

LEMMA BudgetQuestion ==
    ASSUME Typed, Budgeted, pc = "budgetAsk", Put("budget"), pc' = "wait"
    PROVE  Budgeted'
<1>t. /\ Rest /\ Len(asks) \in Nat /\ e.k \in 1 .. Len(Playbook) /\ "budget" \in Kinds
      /\ e.grant \in Nat /\ retried \in Nat /\ RetryLimit \in Nat
  BY LocalsAre, PlaybookIs DEF Typed, Rest, OnStep, KeyPCs, Kinds
<1>q. asks'[Len(asks')] = Question("budget") BY <1>t, PutTypes
<1>1. asks'[Len(asks')].seen = retried BY <1>q DEF Question
<1>2. Len(asks') = Len(asks) + 1 /\ \A q \in 1 .. Len(asks) : asks'[q] = asks[q] BY <1>t, PutTypes
<1>3. e'.grant = e.grant /\ e'.kind = "budget" BY <1>t, PutTypes
<1>4. \A q \in 1 .. Len(asks) : asks[q].kind = "budget" => asks[q].seen <= e.grant
  BY DEF Budgeted, Granted, Leaving, AskingBudget
<1>5. \A q \in 1 .. Len(asks) : asks[q].seen \in Nat
  <2>1. \A q \in 1 .. Len(asks) : asks[q] \in Questions BY <1>t DEF Rest
  <2> QED BY <2>1 DEF Questions
<1>6. Spent' BY DEF Spent
<1>7. Granted' BY <1>t, <1>2, <1>3, <1>4 DEF Granted, AskingBudget
<1>8. ~TimeLimited => retried - e.grant > RetryLimit BY DEF Budgeted, Spent, RetriesSpent
<1>9. ~TimeLimited => \A q \in 1 .. Len(asks) : asks[q].kind = "budget" => retried - asks[q].seen > RetryLimit
  <2> SUFFICES ASSUME ~TimeLimited, NEW q \in 1 .. Len(asks), asks[q].kind = "budget"
               PROVE  retried - asks[q].seen > RetryLimit
    OBVIOUS
  <2> DEFINE s == asks[q].seen
  <2>1. s \in Nat /\ s <= e.grant BY <1>4, <1>5
  <2> HIDE DEF s
  <2>2. retried - s > RetryLimit BY <1>t, <1>8, <2>1
  <2> QED BY <2>2 DEF s
<1>10. OverrideHolds'
  <2> SUFFICES ASSUME NEW p \in 1 .. Len(asks'), NEW q \in 1 .. Len(asks'), p < q,
                      asks'[p].kind = "budget", asks'[q].kind = "budget", ~TimeLimited
               PROVE  asks'[q].seen - asks'[p].seen > RetryLimit
    BY DEF OverrideHolds
  <2>1. p \in 1 .. Len(asks) BY <1>t, <1>2
  <2>2. CASE q \in 1 .. Len(asks) BY <1>2, <2>1, <2>2 DEF Budgeted, OverrideHolds
  <2>3. CASE q = Len(asks') BY <1>1, <1>2, <1>9, <2>1, <2>3
  <2>4. q \in 1 .. Len(asks) \/ q = Len(asks') BY <1>t, <1>2
  <2> QED BY <2>2, <2>3, <2>4
<1> QED BY <1>6, <1>7, <1>10 DEF Budgeted

LEMMA BudgetedStep ==
    ASSUME Gated, Budgeted, [Next]_vars
    PROVE  Budgeted'
<1> USE DEF others, db, engine
<1>t. Typed BY DEF Gated
<1>g. Grown BY AsksGrow DEF Gated
<1>l. /\ e \in EngineLocals /\ Rest /\ e.kind \in Kinds /\ (pc \in KeyPCs => e.k \in 1 .. Len(Playbook))
      /\ Len(asks) \in Nat /\ retried \in Nat /\ retried + 1 \in Nat
  BY <1>g, <1>t, LocalsAre DEF Typed, Rest, OnStep, Grown
<1>1. CASE UNCHANGED <<pc, e, retried>> /\ Len(asks') = Len(asks)
  BY <1>1, <1>g, <1>t, WaivedStays DEF Leaving, AskingBudget
\* Not in front of a budget question and not leaving: nothing is waived.
<1>2. CASE /\ UNCHANGED asks /\ e'.grant = e.grant /\ pc' # "budgetAsk"
           /\ pc \notin {"wait", "resume", "leave", "done", "abortSetup"}
  BY <1>2, <1>g, <1>t, WaivedStays DEF Leaving, AskingBudget
<1>3. CASE PreflightPasses \/ PreflightFails \/ NextStep \/ AwaitSetup \/ EnterStep \/ Prepared
  BY <1>2, <1>3, <1>l DEF PreflightPasses, PreflightFails, NextStep, AwaitSetup, EnterStep, Prepared, Save, EngineLocals
<1>4. CASE StepEnds \/ Complete \/ CancelRun \/ FailRun
  BY <1>2, <1>4, <1>l DEF StepEnds, StepSucceeds, Prepare, StepFails, Complete, CancelRun, FailRun, Transition, Save,
     EngineLocals
<1>5. CASE Ask \/ AskSync \/ ApprovalPause
  BY <1>2, <1>5, <1>l DEF Ask, AskSync, ApprovalPause, Transition, Save, EngineLocals
<1>6. CASE Leave \/ WaitCancelled
  BY <1>6, <1>g, <1>t, WaivedStays DEF Leave, WaitCancelled, Leaving, AskingBudget
<1>7. CASE AbortSetup
  <2>1. pc = "abortSetup" /\ pc' = e.after /\ UNCHANGED <<e, asks>> BY <1>7 DEF AbortSetup
  <2>2. pc' \in {"leave", "cancelRun"} BY <2>1, <1>l, LocalsAre
  <2> QED BY <2>1, <2>2, <1>g, <1>t, WaivedStays DEF Leaving, AskingBudget
<1>8. CASE Gate
  <2>1. /\ pc = "gate" /\ UNCHANGED <<e, asks, retried>>
        /\ pc' \in {"budgetAsk", "approvalAsk", "enter"} /\ (pc' = "budgetAsk" => TimeLimited \/ RetriesSpent)
    BY <1>8 DEF Gate, ApprovalNext
  <2>2. Spent' BY <2>1 DEF Spent, RetriesSpent
  <2>3. Granted' BY <2>1 DEF Budgeted, Granted, Leaving, AskingBudget
  <2> QED BY <2>1, <2>2, <2>3 DEF Budgeted, OverrideHolds
<1>9. CASE BudgetAsk
  <2>1. pc = "budgetAsk" /\ ((pc' = "leave" /\ UNCHANGED <<asks, e>>) \/ (pc' = "wait" /\ Put("budget")))
    BY <1>9 DEF BudgetAsk, Transition, Save
  <2> QED BY <2>1, <1>2, <1>t, BudgetQuestion
<1>10. CASE ApprovalAsk
  <2>1. pc = "approvalAsk" /\ pc' = "approvalPause" /\ Put("approval") /\ "approval" \in Kinds \ {"budget"}
    BY <1>10 DEF ApprovalAsk, Kinds
  <2> QED BY <2>1, <1>l, <1>t, OtherAsk DEF Leaving, AskingBudget, KeyPCs
<1>11. CASE AskWrite
  <2>1. pc = "askWrite" /\ pc' = "askSync" /\ Put(e.kind) BY <1>11 DEF AskWrite
  <2>2. e.kind \in Kinds \ {"budget"} BY <2>1 DEF Gated, Facing, Kinds
  <2> QED BY <2>1, <2>2, <1>l, <1>t, OtherAsk DEF Leaving, AskingBudget, KeyPCs
<1>12. CASE WaitAnswered
  <2>1. /\ pc = "wait" /\ pc' = "resume" /\ UNCHANGED asks /\ e' = [e EXCEPT !.ans = asks[e.q].answer]
    BY <1>12 DEF WaitAnswered
  <2>2. e'.grant = e.grant /\ e'.kind = e.kind BY <2>1, <1>l DEF EngineLocals
  <2> QED BY <2>1, <2>2, <1>g, <1>t, WaivedStays DEF Leaving, AskingBudget
<1>13. CASE Refuse
  <2>1. pc = "resume" /\ pc' \in {"leave", "abortSetup"} /\ UNCHANGED asks /\ e' = [e EXCEPT !.after = "leave"]
    BY <1>13 DEF Refuse, Transition, Save
  <2>2. e'.grant = e.grant /\ e'.after = "leave" BY <2>1, <1>l DEF EngineLocals
  <2> QED BY <2>1, <2>2, <1>g, <1>t, WaivedStays DEF Leaving, AskingBudget
\* The override waives what has been seen, and no question has seen more.
<1>14. CASE Override
  <2>1. pc = "resume" /\ pc' \in {"leave", "approvalAsk", "enter"} /\ UNCHANGED asks /\ e' = [e EXCEPT !.grant = retried]
    BY <1>14 DEF Override, ApprovalNext, Transition, Save
  <2>2. e'.grant = retried BY <2>1, <1>l DEF EngineLocals
  <2>3. Granted' BY <2>1, <2>2 DEF Granted, Gated, Honest
  <2>4. Spent' BY <2>1 DEF Spent
  <2> QED BY <2>1, <2>3, <2>4 DEF Budgeted, OverrideHolds
<1>15. CASE Approved \/ Reviewed \/ Unblocked
  <2>1. /\ pc = "resume" /\ pc' \in {"leave", "enter", "gate", "next"} /\ UNCHANGED asks
        /\ e.ans = "approve" \/ e.kind \in {"review", "blocked"}
        /\ e' = e \/ e' = [e EXCEPT !.k = e.k + 1]
    BY <1>15 DEF Approved, Reviewed, Unblocked, Transition, Save
  <2>2. e.kind # "budget" BY <2>1 DEF Gated, Facing
  <2>3. e'.grant = e.grant BY <2>1, <1>l DEF EngineLocals
  <2> QED BY <2>1, <2>2, <2>3, <1>g, <1>t, WaivedStays DEF Leaving, AskingBudget
<1>16. CASE EngineStep
  BY <1>3, <1>4, <1>5, <1>6, <1>7, <1>8, <1>9, <1>10, <1>11, <1>12, <1>13, <1>14, <1>15, <1>16 DEF EngineStep
<1>17. CASE SetupEnds \/ SetupKilled \/ UNCHANGED vars
  BY <1>1, <1>17 DEF SetupEnds, SetupKilled, vars
<1>18. CASE Crash
  <2>1. pc' = "done" /\ UNCHANGED asks BY <1>18 DEF Crash
  <2> QED BY <2>1 DEF Budgeted, Spent, Granted, Leaving, OverrideHolds
<1>19. ASSUME NEW x \in Cancellers, CancelFire(x) \/ CancelRead(x) \/ CancelWrite(x)
       PROVE  Budgeted'
  BY <1>1, <1>19 DEF CancelFire, CancelRead, CancelWrite, xOthers
<1>20. ASSUME NEW a \in Operators, AnswerCheck(a) \/ AnswerWrite(a) \/ \E q \in 1 .. Len(asks) : Answer(a, q)
       PROVE  Budgeted'
  <2>1. UNCHANGED <<pc, e, retried>> /\ (UNCHANGED asks \/ AnswerWrite(a))
    BY <1>20 DEF AnswerCheck, AnswerWrite, Answer, aOthers
  <2>2. Len(asks') = Len(asks) BY <2>1, <1>l, AnswerTypes
  <2> QED BY <1>1, <2>1, <2>2
<1> QED BY <1>4, <1>16, <1>17, <1>18, <1>19, <1>20 DEF Next

\* OverrideHolds: after an override the retry budget asks again only when it
\* is exceeded anew, whoever answers, cancels or restarts the server.
THEOREM OverrideHoldsAlways == Spec => []OverrideHolds
<1>1. Init => Budgeted
  BY DEF Init, Budgeted, Spent, Granted, OverrideHolds
<1>2. Gated /\ Budgeted /\ [Next]_vars => Gated' /\ Budgeted'
  BY GatedStep, BudgetedStep
<1>3. Budgeted => OverrideHolds BY DEF Budgeted
<1> QED BY <1>1, <1>2, <1>3, GatedInit, PTL DEF Spec

-----------------------------------------------------------------------------
(* Waiting for a human.  Until a cancel or a restart, the row waits only   *)
(* while the engine stands at a question and knows that it does.           *)

Calm == ~token /\ crashes = 0
Facts ==
    /\ asks = <<>> => row.state # "WaitingHuman" /\ mem.state # "WaitingHuman"
    /\ Calm /\ pc # "done" => cancels = 0
    /\ Calm /\ row.state = "WaitingHuman" => pc \in {"askSync", "wait", "resume"}
    /\ Calm /\ pc \in {"wait", "resume"} => mem.state = "WaitingHuman"

\* A paused run may go on with any step, and may be ended.
LEMMA Resumes ==
    /\ \A s \in Working \cup {"Failed", "Cancelled"} : May("WaitingHuman", s) /\ s # "WaitingHuman"
    /\ \A k \in StepKeys : StateOf[k] \in Working
    /\ "Coding" \in Working
BY DEF May, RunEdges, Working, StepKeys, StateOf

\* The state of the step the engine stands on.
LEMMA KeyIs ==
    ASSUME OnStep, pc \in KeyPCs
    PROVE  Key \in StepKeys /\ StateOf[Key] \in Working
BY PlaybookIs, Resumes DEF OnStep, Key

\* The transition is taken, or it is refused and the engine leaves.
LEMMA TransitionIs ==
    ASSUME mem \in Runs, NEW s, NEW p, NEW next, Transition(s, p, next)
    PROVE  \/ /\ May(mem.state, s) /\ row' = mem' /\ pc' = next
              /\ mem'.state = s /\ mem'.tree = mem.tree /\ mem'.pause = p
           \/ ~May(mem.state, s) /\ UNCHANGED <<mem, row>> /\ pc' = "leave"
BY DEF Transition, Save, Runs

LEMMA EngineFacts ==
    ASSUME Gated, Facts, EngineStep \/ StepEnds
    PROVE  Facts'
<1> USE DEF Facts
<1>t. Typed /\ Rest /\ OnStep /\ mem \in Runs /\ row \in Runs /\ Len(asks) \in Nat BY DEF Gated, Typed, Shape, Rest
<1>u. UNCHANGED <<token, cancels, crashes>> BY <1>t, EngineAsks
<1>c. Calm' <=> Calm BY <1>u DEF Calm
<1>s. Calm /\ pc \notin {"askSync", "done"} => mem = row BY <1>t DEF Typed, Sync
<1>n. (\E kind \in Kinds : Put(kind)) => asks' # <<>>
  <2>1. ASSUME NEW kind \in Kinds, Put(kind) PROVE asks' # <<>>
    <3>1. asks' = Append(asks, Question(kind)) BY <2>1 DEF Put
    <3>2. Len(asks') = Len(asks) + 1 BY <1>t, <3>1 DEF Rest
    <3>3. Len(<<>>) = 0 OBVIOUS
    <3> QED BY <1>t, <3>2, <3>3
  <2> QED BY <2>1
\* The run is left alone away from a question.
<1>1. CASE /\ UNCHANGED <<row, mem>> /\ (UNCHANGED asks \/ asks' # <<>>)
           /\ pc \notin {"askSync", "wait", "resume", "done"} /\ pc' \notin {"wait", "resume"}
  BY <1>1, <1>u, <1>c
\* The run is written in a state that does not wait, or the write is refused.
<1>2. CASE /\ row' = mem' /\ mem'.state # "WaitingHuman"
           /\ pc # "done" /\ pc' \notin {"wait", "resume"}
  BY <1>2, <1>u, <1>c
\* The run is paused, and a question is there.
<1>3. CASE row' = mem' /\ mem'.state = "WaitingHuman" /\ asks' # <<>> /\ pc # "done" /\ pc' = "wait"
  BY <1>3, <1>u, <1>c
<1> HIDE DEF Facts
<1>4. CASE PreflightPasses \/ PreflightFails \/ NextStep \/ AwaitSetup \/ StepEnds
  BY <1>1, <1>4 DEF PreflightPasses, PreflightFails, NextStep, AwaitSetup, StepEnds, StepSucceeds, Prepare, StepFails, db
<1>5. CASE Gate \/ Ask \/ Leave
  BY <1>1, <1>5 DEF Gate, ApprovalNext, Ask, Leave, db
<1>6. CASE AbortSetup
  <2>1. pc = "abortSetup" /\ pc' = e.after /\ UNCHANGED <<row, mem, asks>> BY <1>6 DEF AbortSetup, db
  <2>2. pc' \in {"leave", "cancelRun"} BY <2>1, <1>t, LocalsAre
  <2> QED BY <1>1, <2>1, <2>2
<1>7. CASE ApprovalAsk
  <2>1. pc = "approvalAsk" /\ pc' = "approvalPause" /\ Put("approval") /\ UNCHANGED <<row, mem>>
    BY <1>7 DEF ApprovalAsk
  <2>2. asks' # <<>> BY <2>1, <1>n DEF Kinds
  <2> QED BY <1>1, <2>1, <2>2
<1>8. CASE EnterStep
  <2>1. CASE UNCHANGED <<row, mem>> BY <1>1, <1>8, <2>1 DEF EnterStep, Save
  <2>2. CASE ~UNCHANGED <<row, mem>>
    <3>1. pc = "enter" /\ pc' = "exec" /\ row' = mem' /\ mem' = [mem EXCEPT !.state = StateOf[Key]]
      BY <1>8, <2>2 DEF EnterStep, Save
    <3>2. mem'.state = StateOf[Key] BY <3>1, <1>t DEF Runs
    <3>3. StateOf[Key] # "WaitingHuman" BY <3>1, <1>t, KeyIs DEF KeyPCs, Working
    <3> QED BY <1>2, <3>1, <3>2, <3>3
  <2> QED BY <2>1, <2>2
<1>9. CASE Prepared
  <2>1. pc = "prepared" /\ pc' = "next" /\ row' = mem' /\ mem' = [mem EXCEPT !.tree = TRUE] /\ UNCHANGED asks
    BY <1>9 DEF Prepared, Save
  <2>2. mem'.state = mem.state BY <2>1, <1>t DEF Runs
  <2> QED BY <2>1, <2>2, <1>s, <1>c, <1>u DEF Facts
<1>10. CASE Complete \/ CancelRun
  <2>1. /\ pc \in {"complete", "cancelRun"} /\ UNCHANGED asks
        /\ \E s \in {"Completed", "Cancelled"} : Transition(s, mem.pause, "leave")
    BY <1>10 DEF Complete, CancelRun
  <2>2. pc' = "leave" /\ (UNCHANGED <<row, mem>> \/ (row' = mem' /\ mem'.state # "WaitingHuman"))
    BY <2>1, <1>t, TransitionIs
  <2> QED BY <1>1, <1>2, <2>1, <2>2
<1>11. CASE FailRun
  <2>1. /\ pc = "fail" /\ pc' = "abortSetup" /\ UNCHANGED asks
        /\ UNCHANGED <<row, mem>> \/ (row' = mem' /\ mem' = [mem EXCEPT !.state = "Failed"])
    BY <1>11 DEF FailRun, Save
  <2>2. mem' = [mem EXCEPT !.state = "Failed"] => mem'.state # "WaitingHuman" BY <1>t DEF Runs
  <2> QED BY <1>1, <1>2, <2>1, <2>2
<1>12. CASE BudgetAsk
  <2>1. /\ pc = "budgetAsk" /\ Transition("WaitingHuman", "budget", "wait")
        /\ IF May(mem.state, "WaitingHuman") THEN Put("budget") ELSE UNCHANGED <<asks, e>>
    BY <1>12 DEF BudgetAsk
  <2>2. CASE May(mem.state, "WaitingHuman")
    <3>1. asks' # <<>> BY <2>1, <2>2, <1>n DEF Kinds
    <3> QED BY <1>3, <2>1, <2>2, <3>1, <1>t, TransitionIs
  <2>3. CASE ~May(mem.state, "WaitingHuman")
    <3>1. UNCHANGED <<mem, row>> /\ pc' = "leave" BY <2>1, <2>3, <1>t, TransitionIs
    <3> QED BY <1>1, <2>1, <2>3, <3>1
  <2> QED BY <2>2, <2>3
<1>13. CASE ApprovalPause
  <2>1. pc = "approvalPause" /\ Transition("WaitingHuman", "approval", "wait") /\ UNCHANGED asks
    BY <1>13 DEF ApprovalPause
  <2>2. asks # <<>>
    <3>1. e.q \in 1 .. Len(asks) BY <2>1 DEF Gated, Facing
    <3>2. Len(<<>>) = 0 OBVIOUS
    <3> QED BY <3>1, <3>2, <1>t
  <2> QED BY <1>1, <1>3, <2>1, <2>2, <1>t, TransitionIs
<1>14. CASE AskWrite
  <2>1. pc = "askWrite" /\ pc' = "askSync" /\ Put(e.kind) /\ UNCHANGED mem BY <1>14 DEF AskWrite
  <2>2. asks' # <<>> BY <2>1, <1>n, <1>t, LocalsAre
  <2> QED BY <2>1, <2>2, <1>u, <1>c DEF Facts
<1>15. CASE AskSync
  <2>1. pc = "askSync" /\ pc' = "wait" /\ mem' = [mem EXCEPT !.state = row.state] /\ UNCHANGED <<row, asks>>
    BY <1>15 DEF AskSync, db
  <2>2. mem'.state = row.state BY <2>1, <1>t DEF Runs
  <2>3. Calm => row.state = "WaitingHuman" BY <2>1, <1>t DEF Facts, Typed, Sync, Paused, Runs
  <2> QED BY <2>1, <2>2, <2>3, <1>u, <1>c DEF Facts
<1>16. CASE WaitCancelled \/ WaitAnswered
  <2>1. /\ pc = "wait" /\ (token \/ pc' = "resume") /\ pc' \in {"leave", "resume"} /\ UNCHANGED <<row, mem, asks>>
    BY <1>16 DEF WaitCancelled, WaitAnswered, db
  <2> QED BY <2>1, <1>u, <1>c DEF Facts, Calm
\* The answer is acted on: the paused run goes on or ends.
<1>17. CASE Refuse \/ Override \/ Approved \/ Reviewed \/ Unblocked
  <2>1. /\ pc = "resume" /\ UNCHANGED asks
        /\ \E s \in {"Cancelled", "Failed", "Coding", StateOf[Key]}, p \in {"none", mem.pause},
              next \in {"leave", "abortSetup", "enter", "next", "gate", "approvalAsk"} : Transition(s, p, next)
    BY <1>17 DEF Refuse, Override, Approved, Reviewed, Unblocked, ApprovalNext
  <2>2. StateOf[Key] \in Working BY <2>1, <1>t, KeyIs DEF KeyPCs
  <2>3. PICK s \in Working \cup {"Failed", "Cancelled"}, p \in {"none", mem.pause},
              next \in {"leave", "abortSetup", "enter", "next", "gate", "approvalAsk"} : Transition(s, p, next)
    BY <2>1, <2>2, Resumes
  <2>4. CASE May(mem.state, s)
    <3>1. row' = mem' /\ mem'.state = s /\ pc' = next BY <2>3, <2>4, <1>t, TransitionIs
    <3>2. s # "WaitingHuman" BY Resumes
    <3> QED BY <1>2, <2>1, <3>1, <3>2
  <2>5. CASE ~May(mem.state, s)
    <3>1. UNCHANGED <<mem, row>> /\ pc' = "leave" BY <2>3, <2>5, <1>t, TransitionIs
    <3>2. mem.state # "WaitingHuman" BY <2>5, Resumes
    <3>3. ~Calm BY <2>1, <3>2 DEF Facts
    <3> QED BY <2>1, <3>1, <3>3, <1>c, <1>u DEF Facts
  <2> QED BY <2>4, <2>5
<1> QED
  BY <1>4, <1>5, <1>6, <1>7, <1>8, <1>9, <1>10, <1>11, <1>12, <1>13, <1>14, <1>15, <1>16, <1>17 DEF EngineStep

LEMMA FactsStep ==
    ASSUME Gated, Facts, [Next]_vars
    PROVE  Facts'
<1> USE DEF db, others, engine, xOthers, bounds
<1>t. Typed /\ Rest /\ row \in Runs /\ cancels \in Nat /\ crashes \in Nat /\ cancels + 1 # 0 /\ crashes + 1 # 0
  BY DEF Gated, Typed, Shape
<1>a. asks' = <<>> => asks = <<>>
  <2>1. Grown BY AsksGrow DEF Gated
  <2>2. Len(asks') = 0 => Len(asks) = 0 BY <2>1 DEF Grown
  <2>3. Len(asks) = 0 => asks = <<>> BY <1>t DEF Rest
  <2>4. asks' = <<>> => Len(asks') = 0 OBVIOUS
  <2> QED BY <2>2, <2>3, <2>4
<1>1. CASE EngineStep \/ StepEnds BY <1>1, EngineFacts
<1>2. CASE UNCHANGED <<row, token, pc, mem, cancels, crashes>>
  BY <1>2, <1>a DEF Facts, Calm
<1>3. CASE SetupEnds \/ SetupKilled \/ UNCHANGED vars
  BY <1>2, <1>3 DEF SetupEnds, SetupKilled, vars
<1>4. ASSUME NEW a \in Operators, AnswerCheck(a) \/ AnswerWrite(a) \/ \E q \in 1 .. Len(asks) : Answer(a, q)
      PROVE  Facts'
  BY <1>2, <1>4 DEF AnswerCheck, AnswerWrite, Answer, aOthers
<1>5. CASE Crash
  <2>1. /\ crashes' # 0 /\ pc' = "done" /\ mem' = NewRun /\ UNCHANGED <<row, asks>>
    BY <1>5, <1>t DEF Crash
  <2>2. NewRun.state # "WaitingHuman" BY DEF NewRun
  <2> QED BY <2>1, <2>2 DEF Facts, Calm
<1>6. ASSUME NEW x \in Cancellers, CancelFire(x)
      PROVE  Facts'
  <2>1. token' = (token \/ pc # "done") /\ UNCHANGED <<row, asks, pc, mem, crashes>>
    BY <1>6 DEF CancelFire
  <2>2. Calm' => Calm /\ pc = "done" BY <2>1 DEF Calm
  <2> QED BY <2>1, <2>2 DEF Facts
<1>7. ASSUME NEW x \in Cancellers, CancelRead(x)
      PROVE  Facts'
  BY <1>2, <1>7 DEF CancelRead
<1>8. ASSUME NEW x \in Cancellers, CancelWrite(x)
      PROVE  Facts'
  <2>1. row'.state = "Cancelled" /\ UNCHANGED <<asks, token, pc, mem, cancels, crashes>>
    BY <1>8, <1>t DEF CancelWrite, Typed, Shape, Runs
  <2> QED BY <2>1 DEF Facts, Calm
<1> QED BY <1>1, <1>3, <1>4, <1>5, <1>6, <1>7, <1>8 DEF Next

\* WaitingIsAsked: a crash between two writes leaves no run that waits for a
\* human without a question, and until a cancel or a restart a run waits only
\* while the engine stands at its question.
THEOREM WaitingIsAskedHolds == Spec => []WaitingIsAsked
<1>1. Init => Facts BY DEF Init, Facts, Calm, NewRun
<1>2. Gated /\ Facts /\ [Next]_vars => Gated' /\ Facts' BY GatedStep, FactsStep
<1>3. Gated /\ Facts => WaitingIsAsked
  <2> SUFFICES ASSUME Gated, Facts, row.state = "WaitingHuman"
               PROVE  /\ asks # <<>>
                      /\ pc \in {"approvalPause", "askSync", "wait", "resume"} \/ token \/ crashes > 0
    BY DEF WaitingIsAsked
  <2>1. crashes \in Nat BY DEF Gated, Typed, Shape
  <2>2. crashes # 0 => crashes > 0 BY <2>1
  <2> QED BY <2>2 DEF Facts, Calm
<1> QED BY <1>1, <1>2, <1>3, GatedInit, PTL DEF Spec

-----------------------------------------------------------------------------
(* The end of a run that nobody disturbs.  The engine knows where the run  *)
(* stands: between two steps it is in the state of the step just done, and *)
(* so the three dead ends are the only places where it can be left.        *)

OnTheWay == {"preflight", "next", "awaitSetup", "gate", "budgetAsk", "approvalAsk", "approvalPause",
             "ask", "askWrite", "enter"}
Ended    == mem.state \in RunTerminal
Stranded == Unbegun(mem) \/ SetupBroke(mem) \/ Unfinished(mem)
Course ==
    /\ ~token /\ pc # "cancelRun"
    /\ pc = "preflight" => e.k = 1 /\ mem = NewRun /\ ~tree
    /\ setup # "none" /\ pc # "done" => HasSetup /\ mem.tree /\ e.k > 1
    /\ pc \in OnTheWay => mem.state \in Working \/ (mem.state = "Queued" /\ e.k = 1)
    /\ pc \in {"exec", "prepared"} => mem.state = StateOf[Key]
    /\ pc \in {"next", "awaitSetup", "complete"} /\ e.k > 1 => mem.state = StateOf[Playbook[e.k - 1]]
    /\ pc = "awaitSetup" => Key = "Code"
    /\ pc = "complete" => e.k > Len(Playbook)
    /\ pc = "fail" => mem.state \in Working \/ Unbegun(mem)
    /\ pc = "abortSetup" => e.after = "leave" /\ (Ended \/ Unbegun(mem))
    /\ pc = "leave" => Ended \/ Stranded
    /\ pc = "done" => (Ended /\ ~tree) \/ Stranded
    /\ pc = "prepared" => tree
    /\ pc \notin {"prepared", "done"} => tree = mem.tree
Ends == Undisturbed => Course

LEMMA Edges ==
    /\ \A s \in Working : May(s, "WaitingHuman") /\ May(s, "Failed")
    /\ May("Queued", "WaitingHuman") /\ May("Queued", "Preparing") /\ May("OpeningPr", "Completed")
    /\ ~May("Queued", "Failed") /\ \A s \in Working : May(s, "Completed") => s = "OpeningPr"
    /\ StateOf["Prepare"] = "Preparing" /\ "OpeningPr" \in Working
    /\ "Queued" \notin Working /\ Working \cap RunTerminal = {} /\ "WaitingHuman" \notin Working
    /\ {"Completed", "Failed", "Cancelled"} \subseteq RunTerminal
BY DEF May, RunEdges, Working, RunTerminal, StateOf

\* The engine moves on without touching the run or the worktree.
LEMMA CourseStays ==
    ASSUME Course, UNCHANGED <<token, mem, tree>>, setup' \in {setup, "none"}, e'.k = e.k,
           pc \in OnTheWay, pc' \in OnTheWay \ {"preflight", "next", "awaitSetup"}
    PROVE  Course'
BY DEF Course, OnTheWay

LEMMA EndsStep ==
    ASSUME Gated, Facts, Ends, Undisturbed, EngineStep \/ StepEnds
    PROVE  Course'
<1> USE DEF db, others
<1>t. /\ Typed /\ Rest /\ OnStep /\ mem \in Runs /\ row \in Runs /\ e \in EngineLocals
      /\ cancels \in Nat /\ crashes \in Nat /\ tree \in BOOLEAN /\ mem.tree \in BOOLEAN
  BY DEF Gated, Typed, Shape, Rest, Runs
<1>c. Course BY DEF Ends
<1>u. cancels = 0 /\ crashes = 0 /\ Calm BY <1>t, <1>c DEF Undisturbed, Calm, Course
<1>k. /\ Len(Playbook) \in Nat /\ e.k \in Nat /\ e.k >= 1 /\ e.k <= Len(Playbook) + 1
      /\ pc \in KeyPCs => e.k <= Len(Playbook) /\ Key \in StepKeys /\ StateOf[Key] \in Working
  BY <1>t, LocalsAre, PlaybookIs, KeyIs DEF OnStep
<1>s. pc \notin {"askSync", "done"} => mem = row BY <1>t, <1>u DEF Typed, Sync
<1>w. pc \in {"wait", "resume"} => mem.state = "WaitingHuman" BY <1>u DEF Facts
\* Between two steps, and at the end of one.
<1>1. CASE PreflightPasses
  <2>1. pc = "preflight" /\ pc' = "next" /\ UNCHANGED <<token, setup, mem, tree, e>>
    BY <1>1 DEF PreflightPasses
  <2>2. e.k = 1 /\ ~(e.k > 1) BY <2>1, <1>c DEF Course
  <2> QED BY <2>1, <2>2, <1>c DEF Course, OnTheWay
<1>2. CASE PreflightFails
  <2>1. PreflightMayFail /\ pc = "preflight" /\ pc' = "fail" /\ UNCHANGED <<token, setup, mem, tree, e>>
    BY <1>2 DEF PreflightFails
  <2>2. Unbegun(mem)' BY <2>1, <1>c DEF Course, Unbegun
  <2> QED BY <2>1, <2>2, <1>c DEF Course, OnTheWay
<1>3. CASE NextStep
  <2>1. /\ pc = "next" /\ UNCHANGED <<token, setup, mem, tree, e>>
        /\ \/ pc' = "complete" /\ e.k > Len(Playbook)
           \/ pc' = "awaitSetup" /\ Key = "Code"
           \/ pc' = "gate"
    BY <1>3, <1>c DEF NextStep, Course
  <2> QED BY <2>1, <1>c DEF Course, OnTheWay, Key
<1>4. CASE AwaitSetup
  <2>1. /\ pc = "awaitSetup" /\ setup' = "none" /\ UNCHANGED <<token, mem, tree>>
        /\ \/ setup = "failed" /\ pc' = "leave" /\ e' = e
           \/ pc' \in {"gate", "ask"} /\ (e' = e \/ e' = [e EXCEPT !.kind = "review"])
    BY <1>4, <1>c DEF AwaitSetup
  <2>2. e'.k = e.k BY <2>1, <1>t DEF EngineLocals
  <2>3. CASE pc' = "leave"
    <3>1. HasSetup /\ mem.tree /\ e.k > 1 /\ tree /\ Key = "Code" /\ mem.state = StateOf[Playbook[e.k - 1]]
      BY <2>1, <2>3, <1>c DEF Course
    <3>2. e.k \in 2 .. Len(Playbook) BY <2>1, <3>1, <1>k DEF KeyPCs
    <3>3. SetupBroke(mem) BY <3>1, <3>2 DEF SetupBroke
    <3>4. UNCHANGED <<mem, tree, e>> BY <2>1, <2>3
    <3>5. SetupBroke(mem)' BY <3>3, <3>4 DEF SetupBroke, Key
    <3> QED BY <2>1, <2>3, <3>4, <3>5, <1>c DEF Course, OnTheWay, Stranded
  <2> QED BY <2>1, <2>2, <2>3, <1>c, CourseStays DEF OnTheWay
<1>5. CASE EnterStep
  <2>1. /\ pc = "enter" /\ UNCHANGED <<token, setup, tree>> /\ StateOf[Key] \in Working
        /\ mem.state \in Working \/ (mem.state = "Queued" /\ e.k = 1)
    BY <1>5, <1>c, <1>k DEF EnterStep, Course, OnTheWay, KeyPCs
  <2>2. CASE mem.state = StateOf[Key] \/ May(mem.state, StateOf[Key])
    <3>1. pc' = "exec" /\ mem' = [mem EXCEPT !.state = StateOf[Key]] /\ e' = [e EXCEPT !.attempt = 1]
      BY <1>5, <2>2 DEF EnterStep, Save
    <3>2. mem'.state = StateOf[Key] /\ mem'.tree = mem.tree BY <3>1, <1>t DEF Runs
    <3>3. e'.k = e.k BY <3>1, <1>t DEF EngineLocals
    <3> QED BY <2>1, <3>1, <3>2, <3>3, <1>c DEF Course, OnTheWay, Key
  <2>3. CASE ~(mem.state = StateOf[Key] \/ May(mem.state, StateOf[Key]))
    <3>1. pc' = "fail" /\ UNCHANGED <<mem, e>> BY <1>5, <2>3 DEF EnterStep
    <3>2. e.k = 1 => StateOf[Key] = "Preparing" BY PlaybookAssumption, Edges DEF Key
    <3>3. mem.state \in Working BY <2>1, <2>3, <3>2, Edges
    <3> QED BY <2>1, <3>1, <3>3, <1>c DEF Course, OnTheWay
  <2> QED BY <2>2, <2>3
<1>6. CASE StepSucceeds
  <2>1. /\ pc = "exec" /\ pc' = "next" /\ UNCHANGED <<token, setup, mem, tree>> /\ e' = [e EXCEPT !.k = e.k + 1]
    BY <1>6 DEF StepSucceeds
  <2>2. mem.state = StateOf[Key] /\ mem.state \in Working BY <2>1, <1>c, <1>k DEF Course, KeyPCs
  <2>3. e'.k = e.k + 1 BY <2>1, <1>t DEF EngineLocals
  <2>4. e'.k - 1 = e.k /\ e'.k > 1 BY <2>1, <2>3, <1>k DEF KeyPCs
  <2> QED BY <2>1, <2>2, <2>4, <1>c DEF Course, OnTheWay, Key
<1>7. CASE Prepare
  <2>1. pc = "exec" /\ pc' = "prepared" /\ tree' /\ UNCHANGED <<token, setup, mem, e>> BY <1>7 DEF Prepare
  <2> QED BY <2>1, <1>c DEF Course, OnTheWay, Key
<1>8. CASE Prepared
  <2>1. /\ pc = "prepared" /\ pc' = "next" /\ UNCHANGED <<token, tree>> /\ e' = [e EXCEPT !.k = e.k + 1]
        /\ mem' = [mem EXCEPT !.tree = TRUE] /\ (setup' # "none" => HasSetup)
    BY <1>8 DEF Prepared, Save
  <2>2. mem.state = StateOf[Key] /\ mem.state \in Working BY <2>1, <1>c, <1>k DEF Course, KeyPCs
  <2>3. e'.k = e.k + 1 BY <2>1, <1>t DEF EngineLocals
  <2>4. e'.k - 1 = e.k /\ e'.k > 1 BY <2>1, <2>3, <1>k DEF KeyPCs
  <2>5. mem'.state = mem.state /\ mem'.tree = TRUE BY <2>1, <1>t DEF Runs
  <2> QED BY <2>1, <2>2, <2>4, <2>5, <1>c DEF Course, OnTheWay, Key
<1>9. CASE StepFails
  <2>1. /\ pc = "exec" /\ pc' \in {"exec", "ask", "fail"} /\ UNCHANGED <<token, setup, mem, tree>>
        /\ e' = [e EXCEPT !.kind = "blocked"] \/ e' = [e EXCEPT !.attempt = e.attempt + 1]
    BY <1>9, <1>c DEF StepFails, Course
  <2>2. mem.state = StateOf[Key] /\ mem.state \in Working BY <2>1, <1>c, <1>k DEF Course, KeyPCs
  <2>3. e'.k = e.k BY <2>1, <1>t DEF EngineLocals
  <2> QED BY <2>1, <2>2, <2>3, <1>c DEF Course, OnTheWay, Key
\* The end of the run.
<1>10. CASE Complete
  <2>1. pc = "complete" /\ Transition("Completed", mem.pause, "leave") /\ UNCHANGED <<token, setup, tree, e>>
    BY <1>10 DEF Complete
  <2>2. e.k > Len(Playbook) /\ e.k > 1 /\ e.k - 1 = Len(Playbook) BY <2>1, <1>c, <1>k, PlaybookIs DEF Course
  <2>3. mem.state = StateOf[Playbook[Len(Playbook)]] /\ tree = mem.tree BY <2>1, <2>2, <1>c DEF Course
  <2>4. mem.state \in Working BY <2>3, PlaybookIs, Resumes
  <2>5. CASE mem.state = "OpeningPr"
    <3>1. pc' = "leave" /\ mem'.state = "Completed" /\ mem'.tree = mem.tree
      BY <2>1, <2>5, <1>t, Edges, TransitionIs
    <3>2. Ended' BY <3>1, Edges DEF Ended
    <3> QED BY <2>1, <3>1, <3>2, <1>c DEF Course, OnTheWay
  <2>6. CASE mem.state # "OpeningPr"
    <3>1. ~May(mem.state, "Completed") BY <2>4, <2>6, Edges
    <3>2. pc' = "leave" /\ UNCHANGED mem BY <2>1, <3>1 DEF Transition
    <3>3. Unfinished(mem)' BY <2>1, <2>2, <2>3, <2>6, <3>2 DEF Unfinished
    <3> QED BY <2>1, <3>2, <3>3, <1>c DEF Course, OnTheWay, Stranded
  <2> QED BY <2>5, <2>6
<1>11. CASE FailRun
  <2>1. /\ pc = "fail" /\ pc' = "abortSetup" /\ UNCHANGED <<token, setup, tree>> /\ e' = [e EXCEPT !.after = "leave"]
        /\ May(mem.state, "Failed") => mem' = [mem EXCEPT !.state = "Failed"]
        /\ ~May(mem.state, "Failed") => mem' = mem
    BY <1>11 DEF FailRun, Save
  <2>2. e'.after = "leave" /\ e'.k = e.k BY <2>1, <1>t DEF EngineLocals
  <2>3. CASE mem.state \in Working
    <3>1. mem'.state = "Failed" /\ mem'.tree = mem.tree BY <2>1, <2>3, <1>t, Edges DEF Runs
    <3>2. Ended' BY <3>1, Edges DEF Ended
    <3> QED BY <2>1, <2>2, <3>1, <3>2, <1>c DEF Course, OnTheWay
  <2>4. CASE Unbegun(mem)
    <3>1. ~May(mem.state, "Failed") BY <2>4, Edges DEF Unbegun, NewRun
    <3>2. UNCHANGED mem BY <2>1, <3>1
    <3>3. Unbegun(mem)' BY <2>1, <2>4, <3>2 DEF Unbegun
    <3> QED BY <2>1, <2>2, <3>2, <3>3, <1>c DEF Course, OnTheWay
  <2> QED BY <2>1, <2>3, <2>4, <1>c DEF Course
<1>12. CASE CancelRun BY <1>12, <1>c DEF CancelRun, Course
<1>13. CASE AbortSetup
  <2>1. pc = "abortSetup" /\ pc' = "leave" /\ setup' = "none" /\ UNCHANGED <<token, mem, tree, e>>
    BY <1>13, <1>c DEF AbortSetup, Course
  <2>2. Ended' \/ Unbegun(mem)' BY <2>1, <1>c DEF Course, Ended, Unbegun
  <2> QED BY <2>1, <2>2, <1>c DEF Course, OnTheWay, Stranded
<1>14. CASE Leave
  <2>1. /\ pc = "leave" /\ pc' = "done" /\ UNCHANGED <<token, setup, mem, e>>
        /\ tree' = (tree /\ ~(mem.state \in RunTerminal /\ mem.tree)) /\ tree = mem.tree
    BY <1>14, <1>c DEF Leave, Course
  <2>2. CASE Ended
    <3>1. Ended' /\ ~tree' BY <2>1, <2>2 DEF Ended
    <3> QED BY <2>1, <3>1, <1>c DEF Course, OnTheWay
  <2>3. CASE ~Ended
    <3>1. tree' = tree BY <2>1, <2>3, <1>t DEF Ended
    <3>2. Stranded BY <2>1, <2>3, <1>c DEF Course
    <3>3. Stranded' BY <2>1, <3>1, <3>2 DEF Stranded, Unbegun, SetupBroke, Unfinished, Key
    <3> QED BY <2>1, <3>3, <1>c DEF Course, OnTheWay
  <2> QED BY <2>2, <2>3
\* The gates and the questions.
<1>15. CASE Gate \/ ApprovalAsk
  <2>1. /\ pc \in {"gate", "approvalAsk"} /\ pc' \in {"budgetAsk", "approvalAsk", "enter", "approvalPause"}
        /\ UNCHANGED <<token, setup, mem, tree>> /\ (e' = e \/ Put("approval"))
    BY <1>15 DEF Gate, ApprovalNext, ApprovalAsk
  <2>2. e'.k = e.k BY <2>1, <1>t DEF Put, EngineLocals
  <2> QED BY <2>1, <2>2, <1>c, CourseStays DEF OnTheWay
<1>16. CASE BudgetAsk \/ ApprovalPause
  <2>1. /\ pc \in {"budgetAsk", "approvalPause"} /\ UNCHANGED <<token, setup, tree>>
        /\ \E p \in {"budget", "approval"} : Transition("WaitingHuman", p, "wait")
    BY <1>16 DEF BudgetAsk, ApprovalPause
  <2>2. May(mem.state, "WaitingHuman") BY <2>1, <1>c, Edges DEF Course, OnTheWay
  <2>3. pc' = "wait" /\ mem'.tree = mem.tree BY <2>1, <2>2, <1>t, TransitionIs
  <2>4. e'.k = e.k BY <1>16, <1>t DEF BudgetAsk, ApprovalPause, Put, EngineLocals
  <2> QED BY <2>1, <2>3, <2>4, <1>c DEF Course, OnTheWay
<1>17. CASE Ask
  <2>1. pc = "ask" /\ UNCHANGED <<token, setup, mem, tree>> BY <1>17 DEF Ask
  <2>2. May(row.state, "WaitingHuman") BY <2>1, <1>c, <1>s, Edges DEF Course, OnTheWay
  <2>3. pc' = "askWrite" /\ e' = [e EXCEPT !.copy = [row EXCEPT !.state = "WaitingHuman"]]
    BY <1>17, <2>2 DEF Ask
  <2>4. e'.k = e.k BY <2>3, <1>t DEF EngineLocals
  <2> QED BY <2>1, <2>3, <2>4, <1>c, CourseStays DEF OnTheWay
<1>18. CASE AskWrite
  <2>1. pc = "askWrite" /\ pc' = "askSync" /\ UNCHANGED <<token, setup, mem, tree>> BY <1>18 DEF AskWrite
  <2>2. e'.k = e.k BY <1>18, <1>t DEF AskWrite, Put, EngineLocals
  <2> QED BY <2>1, <2>2, <1>c DEF Course, OnTheWay
<1>19. CASE AskSync
  <2>1. /\ pc = "askSync" /\ pc' = "wait" /\ mem' = [mem EXCEPT !.state = row.state]
        /\ UNCHANGED <<token, setup, tree, e>>
    BY <1>19 DEF AskSync
  <2>2. mem'.tree = mem.tree BY <2>1, <1>t DEF Runs
  <2> QED BY <2>1, <2>2, <1>c DEF Course, OnTheWay
<1>20. CASE WaitCancelled BY <1>20, <1>c DEF WaitCancelled, Course
<1>21. CASE WaitAnswered
  <2>1. pc = "wait" /\ pc' = "resume" /\ UNCHANGED <<token, setup, mem, tree>> BY <1>21 DEF WaitAnswered
  <2>2. e'.k = e.k BY <1>21, <1>t DEF WaitAnswered, EngineLocals
  <2> QED BY <2>1, <2>2, <1>c DEF Course, OnTheWay
\* The answer: the paused run may take any of these edges.
<1>22. CASE Refuse
  <2>1. /\ pc = "resume" /\ UNCHANGED <<token, setup, tree>> /\ e' = [e EXCEPT !.after = "leave"]
        /\ \E s \in {"Cancelled", "Failed"}, next \in {"leave", "abortSetup"} : Transition(s, mem.pause, next)
    BY <1>22 DEF Refuse
  <2>2. \A s \in {"Cancelled", "Failed"} : May(mem.state, s) BY <2>1, <1>w, Resumes
  <2>3. pc' \in {"leave", "abortSetup"} /\ mem'.state \in RunTerminal /\ mem'.tree = mem.tree
    BY <2>1, <2>2, <1>t, Edges, TransitionIs
  <2>4. e'.after = "leave" /\ e'.k = e.k BY <2>1, <1>t DEF EngineLocals
  <2>5. Ended' BY <2>3 DEF Ended
  <2> QED BY <2>1, <2>3, <2>4, <2>5, <1>c DEF Course, OnTheWay
<1>23. CASE Override \/ Approved \/ Reviewed
  <2>1. /\ pc = "resume" /\ UNCHANGED <<token, setup, tree>> /\ (e' = e \/ e' = [e EXCEPT !.grant = retried])
        /\ \E s \in {"Coding", StateOf[Key]}, p \in {"none", mem.pause}, next \in {"enter", "gate", "approvalAsk"} :
             Transition(s, p, next)
    BY <1>23 DEF Override, Approved, Reviewed, ApprovalNext
  <2>2. \A s \in {"Coding", StateOf[Key]} : s \in Working /\ May(mem.state, s)
    BY <2>1, <1>k, <1>w, Resumes DEF KeyPCs
  <2>3. pc' \in {"enter", "gate", "approvalAsk"} /\ mem'.state \in Working /\ mem'.tree = mem.tree
    BY <2>1, <2>2, <1>t, TransitionIs
  <2>4. e'.k = e.k BY <2>1, <1>t DEF EngineLocals
  <2> QED BY <2>1, <2>3, <2>4, <1>c DEF Course, OnTheWay
<1>24. CASE Unblocked
  <2>1. /\ pc = "resume" /\ UNCHANGED <<token, setup, tree>>
        /\ \/ e' = e /\ Transition(StateOf[Key], mem.pause, "enter")
           \/ e' = [e EXCEPT !.k = e.k + 1] /\ Transition(StateOf[Key], mem.pause, "next")
    BY <1>24 DEF Unblocked
  <2>2. StateOf[Key] \in Working /\ May(mem.state, StateOf[Key]) BY <2>1, <1>k, <1>w, Resumes DEF KeyPCs
  <2>3. /\ mem'.state = StateOf[Key] /\ mem'.tree = mem.tree
        /\ pc' = "enter" \/ (pc' = "next" /\ e' = [e EXCEPT !.k = e.k + 1])
    BY <2>1, <2>2, <1>t, TransitionIs
  <2>4. e' = [e EXCEPT !.k = e.k + 1] => e'.k - 1 = e.k /\ e'.k > 1
    <3>1. e' = [e EXCEPT !.k = e.k + 1] => e'.k = e.k + 1 BY <1>t DEF EngineLocals
    <3> QED BY <2>1, <3>1, <1>k DEF KeyPCs
  <2>5. pc' = "enter" => e'.k = e.k BY <2>1, <2>2, TransitionIs, <1>t
  <2> QED BY <2>1, <2>2, <2>3, <2>4, <1>c DEF Course, OnTheWay, Key
<1>25. CASE EngineStep
  BY <1>1, <1>2, <1>3, <1>4, <1>5, <1>8, <1>10, <1>11, <1>12, <1>13, <1>14, <1>15, <1>16, <1>17, <1>18, <1>19,
     <1>20, <1>21, <1>22, <1>23, <1>24, <1>25 DEF EngineStep
<1>26. CASE StepEnds BY <1>6, <1>7, <1>9, <1>26 DEF StepEnds
<1> QED BY <1>25, <1>26

\* RunEndsClean: without a cancel or a restart an engine that has returned
\* leaves a terminal run and no worktree, or the run as one of the three dead
\* ends left it: whatever the playbook, the setup and the preflight are, the
\* operator answers, the budget asks and the steps fail.
THEOREM RunEndsCleanHolds == Spec => []RunEndsClean
<1>1. Init => Facts /\ Ends
  <2> SUFFICES ASSUME Init PROVE Facts /\ Course BY DEF Ends
  <2>1. pc = "preflight" /\ mem = NewRun /\ row = NewRun /\ e.k = 1 BY DEF Init, NewLocals
  <2>2. Facts BY <2>1 DEF Init, Facts, Calm, NewRun
  <2>3. ~token /\ setup = "none" /\ tree = FALSE /\ mem.tree = FALSE /\ mem.state = "Queued" /\ ~(e.k > 1)
    BY <2>1 DEF Init, NewRun
  <2>4. Course BY <2>1, <2>3 DEF Course, OnTheWay
  <2> QED BY <2>2, <2>4
<1>2. Gated /\ Facts /\ Ends /\ [Next]_vars => Gated' /\ Facts' /\ Ends'
  <2> SUFFICES ASSUME Gated, Facts, Ends, [Next]_vars PROVE Ends' BY GatedStep, FactsStep
  <2>t. cancels \in Nat /\ crashes \in Nat BY DEF Gated, Typed, Shape
  <2>u. \A a, b \in Nat : a + b = 0 => a = 0 /\ b = 0 OBVIOUS
  <2>1. CASE EngineStep \/ StepEnds
    <3>1. Undisturbed' <=> Undisturbed BY <2>1, EngineAsks DEF Gated, Undisturbed
    <3> QED BY <2>1, <3>1, EndsStep DEF Ends
  <2>2. CASE UNCHANGED <<token, engine, setup, tree, cancels, crashes>>
    BY <2>2 DEF engine, Ends, Course, Undisturbed, Key, Ended, Stranded, Unbegun, SetupBroke, Unfinished
  <2>3. CASE SetupEnds \/ SetupKilled
    <3>1. setup = "running" /\ UNCHANGED <<token, pc, mem, e, tree, cancels, crashes>>
      BY <2>3 DEF SetupEnds, SetupKilled, others, bounds, engine, db
    <3> QED BY <3>1 DEF Ends, Course, Undisturbed, Key, Ended, Stranded, Unbegun, SetupBroke, Unfinished
  <2>4. CASE UNCHANGED vars BY <2>2, <2>4 DEF vars, db, bounds
  <2>5. ASSUME NEW a \in Operators, AnswerCheck(a) \/ AnswerWrite(a) \/ \E q \in 1 .. Len(asks) : Answer(a, q)
        PROVE  Ends'
    BY <2>2, <2>5 DEF AnswerCheck, AnswerWrite, Answer, aOthers, bounds
  <2>6. ASSUME NEW x \in Cancellers, CancelRead(x)
        PROVE  Ends'
    BY <2>2, <2>6 DEF CancelRead, xOthers, db, bounds
  <2>7. ASSUME NEW x \in Cancellers, CancelWrite(x)
        PROVE  Ends'
    BY <2>2, <2>7 DEF CancelWrite, xOthers, bounds
  <2>8. (Crash \/ \E x \in Cancellers : CancelFire(x)) => Ends'
    <3>1. \A a, b \in Nat : a + (b + 1) # 0 /\ (a + 1) + b # 0 OBVIOUS
    <3>2. (Crash \/ \E x \in Cancellers : CancelFire(x)) => cancels' + crashes' # 0
      BY <2>t, <3>1 DEF Crash, CancelFire, bounds
    <3> QED BY <3>2 DEF Ends, Undisturbed
  <2> QED BY <2>1, <2>3, <2>4, <2>5, <2>6, <2>7, <2>8 DEF Next
<1>3. Gated /\ Ends => RunEndsClean
  <2> SUFFICES ASSUME Gated, Ends, Undisturbed, pc = "done"
               PROVE  (row.state \in RunTerminal /\ ~tree) \/ Unbegun(row) \/ SetupBroke(row) \/ Unfinished(row)
    BY DEF RunEndsClean
  <2>1. cancels \in Nat /\ crashes \in Nat BY DEF Gated, Typed, Shape
  <2>2. cancels = 0 /\ crashes = 0 BY <2>1 DEF Undisturbed
  <2>3. mem = row BY <2>2 DEF Gated, Typed, Sync
  <2> QED BY <2>3 DEF Ends, Course, Ended, Stranded
<1> QED BY <1>1, <1>2, <1>3, GatedInit, PTL DEF Spec
=============================================================================
