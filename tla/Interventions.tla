---------------------------- MODULE Interventions ----------------------------
(***************************************************************************)
(* What an operator leaves for a launch task: a request checks the task and*)
(* inserts a row, the step runner reads the pending rows into the prompt of*)
(* a step and consumes them once the agent has been spawned, a purge takes *)
(* the task and its rows.  The executor runs one step at a time.           *)
(***************************************************************************)
EXTENDS Integers

CONSTANTS
    Wishes,   \* interventions that may come to be
    Steps,    \* steps of the task
    AnyStep,  \* no target: the next step that runs
    MaxFails  \* bound: prompts delivered and not recorded

ASSUME StepAssumption == AnyStep \notin Steps /\ MaxFails \in Nat

VARIABLES
    task,    \* has the task its row
    wish,    \* each intervention: control point or row, target_step_id, consumed_at
    turn,    \* the step that is starting: control point, step, what it has read
    told,    \* prompts an agent was given with the intervention, by step
    heard,   \* InterventionConsumed events
    fails

wishVars == <<task, wish, turn, told, heard, fails>>

NoTurn == [pc |-> "rest", step |-> AnyStep, list |-> {}]

WishInit ==
    /\ task = TRUE /\ turn = NoTurn /\ fails = 0
    /\ wish = [w \in Wishes |-> [pc |-> "none", target |-> AnyStep, consumed |-> FALSE]]
    /\ told = [w \in Wishes |-> [s \in Steps |-> 0]] /\ heard = [w \in Wishes |-> 0]

\* create_launch_task_intervention
CheckTask(w) ==
    /\ task /\ wish[w].pc = "none"
    /\ \E t \in Steps \cup {AnyStep} : wish' = [wish EXCEPT ![w].pc = "insert", ![w].target = t]
    /\ UNCHANGED <<task, turn, told, heard, fails>>

\* The row needs its task.
InsertWish(w) ==
    /\ wish[w].pc = "insert" /\ wish' = [wish EXCEPT ![w].pc = IF task THEN "row" ELSE "gone"]
    /\ UNCHANGED <<task, turn, told, heard, fails>>

\* Mutant: the query knows nothing of the target.
PendingForTask(w, s) == wish[w].pc = "row" /\ ~wish[w].consumed

Pending(w, s) == wish[w].pc = "row" /\ ~wish[w].consumed /\ wish[w].target \in {AnyStep, s}

\* A list that fails is an empty list.
ListPending(s) ==
    /\ turn.pc = "rest"
    /\ \E list \in {{w \in Wishes : Pending(w, s)}, {}} : turn' = [pc |-> "spawn", step |-> s, list |-> list]
    /\ UNCHANGED <<task, wish, told, heard, fails>>

Spawned ==
    /\ turn.pc = "spawn" /\ turn' = [turn EXCEPT !.pc = "mark"]
    /\ told' = [w \in Wishes |-> IF w \in turn.list THEN [told[w] EXCEPT ![turn.step] = @ + 1] ELSE told[w]]
    /\ UNCHANGED <<task, wish, heard, fails>>

NotSpawned ==
    /\ turn.pc = "spawn" /\ turn' = NoTurn
    /\ UNCHANGED <<task, wish, told, heard, fails>>

\* One transaction; only the rows it has changed are announced.
MarkConsumed ==
    /\ turn.pc = "mark" /\ turn' = NoTurn
    /\ LET updated == {w \in turn.list : wish[w].pc = "row" /\ ~wish[w].consumed} IN
          /\ wish' = [w \in Wishes |-> [wish[w] EXCEPT !.consumed = @ \/ w \in updated]]
          /\ heard' = [w \in Wishes |-> IF w \in updated THEN heard[w] + 1 ELSE heard[w]]
    /\ UNCHANGED <<task, told, fails>>

\* The write fails, or the process stops first.
MarkFails ==
    /\ turn.pc = "mark" /\ turn.list # {} /\ fails < MaxFails
    /\ turn' = NoTurn /\ fails' = fails + 1
    /\ UNCHANGED <<task, wish, told, heard>>

\* ON DELETE CASCADE
Purge ==
    /\ task /\ task' = FALSE
    /\ wish' = [w \in Wishes |-> [wish[w] EXCEPT !.pc = IF @ = "row" THEN "gone" ELSE @]]
    /\ UNCHANGED <<turn, told, heard, fails>>

WishNext ==
    \/ \E w \in Wishes : CheckTask(w) \/ InsertWish(w)
    \/ \E s \in Steps : ListPending(s)
    \/ Spawned \/ NotSpawned \/ MarkConsumed \/ MarkFails \/ Purge
=============================================================================
