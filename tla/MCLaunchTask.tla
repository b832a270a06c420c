---------------------------- MODULE MCLaunchTask ----------------------------
(* Small instances of LaunchTask for TLC.                                  *)
EXTENDS LaunchTaskProps, AgentRules

CONSTANTS run, retry, c1

MCDrivers   == {run, retry}
OneCancel   == {c1}
AllEnabled  == 1 .. NumSteps
OuterSteps  == {1, NumSteps}
OneResume   == [i \in 1 .. NumSteps |-> 1]
MixedBudget == [i \in 1 .. NumSteps |-> IF i = 1 THEN 1 ELSE 0]

\* How a step resolves, over one agent that may be in the catalog or not, before
\* it is stated for any catalog.
OneAgent  == {a \in Agents({"linear"}) : a.backend = "none" /\ a.billing \in {Unset, "unknown"} /\ ~a.mcp}
SomeCatalogs == [{} -> OneAgent] \cup [{"x"} -> OneAgent]

ASSUME ResolvedChecked ==
    \A step \in FrozenSteps({"x"}), catalog \in SomeCatalogs, policy \in Policies({"x"}) :
        LET r == resolve_step_agent(step, catalog, policy)
        IN  r.ok => r.agent.mode \in Runs(r.agent.provider)

ASSUME PromptChecked ==
    \A a \in OneAgent, engine \in {"playbook", "recipe"}, plan \in [servers : SUBSET {"linear"}] :
        a.mode \in Runs(a.provider)
            => ("prompt" \in CommandLine(a, engine, plan, FALSE)) = ~Stdin(a, engine)

\* What process_completion makes of an agent's end, over two worktrees, is what
\* LaunchTask lets an agent end with, no more and no less.  Where git shows
\* nothing, one content is enough.
Rules == INSTANCE OutcomeRules
Content == {"same", "changed"}
Trees == {w \in Rules!Worktree(Content) : (w.runs /\ w.repo) \/ (w.tracked = "same" /\ w.untracked = "same")}
OutcomeOf(r, kind, before, after) ==
    LET out == Rules!process_completion(r, kind, after, "same")
    IN  [kind  |-> out, key |-> out = "TimedOut" /\ r.key,
         moved |-> out = "TimedOut" /\ ~Rules!same_as(Rules!compute_diff_snapshot(before),
                                                     Rules!compute_diff_snapshot(after))]

ASSUME OutcomesChecked ==
    Outcomes = {OutcomeOf(r, kind, before, after) : r \in Rules!AgentResults, kind \in Rules!StepKind,
                                                    before \in Trees, after \in Trees}
=============================================================================
