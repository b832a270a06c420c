----------------------------- MODULE AgentRules -----------------------------
(***************************************************************************)
(* From a step of a recipe to the agent that runs it: the catalog and the  *)
(* run's policy, the runner, the MCP servers and the Linear context it is  *)
(* given, the way its prompt travels, and what a terminal takeover resumes.*)
(* All are functions of what a launch has just read.                       *)
(***************************************************************************)
EXTENDS FiniteSets

Unset     == "unset"
Provider  == {"claude", "codex"}
Mode      == {"interactive_pty", "print_stream_json", "exec_json", "background_session"}
Executor  == {"codex_structured", "claude_workflow", "claude_background", "interactive_pty", "future"}
Session   == {"fresh", "resume", "same_session", "same_workflow", "takeover"}
Billing   == {"subscription", "agent_sdk_credits", "api_credits", "unknown"}
Linear    == {"none", "snapshot", "snapshot_plus_mcp"}
Backend   == {"none", "protocol", "claude_subagent", "claude_skill"}

-----------------------------------------------------------------------------
(* Runners                                                                 *)

default_for(provider) == IF provider = "claude" THEN "print_stream_json" ELSE "exec_json"

\* validate_with: the modes a provider has a runner for.
Runs(provider) ==
    IF provider = "claude" THEN {"interactive_pty", "print_stream_json", "background_session"}
    ELSE {"interactive_pty", "exec_json"}

DefaultBilling(provider, mode) == IF mode \in Runs(provider) THEN "subscription" ELSE "unknown"

resolve_billing(provider, mode, override) ==
    IF override = Unset THEN DefaultBilling(provider, mode) ELSE override

runner_mode(executor) ==
    IF executor = "codex_structured" THEN "exec_json"
    ELSE IF executor = "claude_workflow" THEN "print_stream_json"
    ELSE IF executor = "claude_background" THEN "background_session"
    ELSE IF executor = "interactive_pty" THEN "interactive_pty" ELSE Unset

is_compatible_with(session, executor) ==
    \/ session = "fresh"
    \/ session = "resume" /\ executor = "codex_structured"
    \/ session \in {"same_session", "same_workflow"} /\ executor \in {"codex_structured", "claude_workflow"}
    \/ session = "takeover" /\ executor = "interactive_pty"

is_structured(provider, mode) == <<provider, mode>> \in {<<"codex", "exec_json">>, <<"claude", "print_stream_json">>}
is_background(provider, mode) == provider = "claude" /\ mode = "background_session"

-----------------------------------------------------------------------------
(* Catalog and policy                                                      *)

\* An agent of the catalog; mcp says that its policy has the mode "servers".
Agents(Servers) ==
    [provider : Provider, mode : Mode \cup {Unset}, billing : Billing \cup {Unset},
     linear : Linear, mcp : BOOLEAN, servers : SUBSET Servers, backend : Backend]

Catalogs(Names, Servers) == UNION {[D -> Agents(Servers)] : D \in SUBSET Names}

\* RunPolicy: a set of names, or every one.
Policies(Names) == [all : BOOLEAN, names : SUBSET Names]

is_allowed(policy, name) == policy.all \/ name \in policy.names

\* A per-run override replaces the policy it is given.
with_override(policy, override) == IF override = {} THEN policy ELSE CHOOSE o \in override : TRUE

\* What resolving yields: the agent, if nothing is amiss.
Refused(why)   == [ok |-> FALSE, why |-> why]
Recipe(def, mode, billing) == [ok |-> TRUE, agent |-> [def EXCEPT !.mode = mode, !.billing = billing]]

\* RoleRouter::resolve
resolve(name, catalog, policy) ==
    IF name \notin DOMAIN catalog THEN Refused("unknown_role")
    ELSE IF ~is_allowed(policy, name) THEN Refused("not_allowed")
    ELSE LET def  == catalog[name]
             mode == IF def.mode = Unset THEN default_for(def.provider) ELSE def.mode
         IN  IF mode \notin Runs(def.provider) THEN Refused("incompatible")
             ELSE Recipe(def, mode, resolve_billing(def.provider, mode, def.billing))

-----------------------------------------------------------------------------
(* The steps of a launch profile                                           *)

\* A frozen step: the agent it was composed from, the kind of its skill's
\* source and the skill, and the fields the composer seeded.
FrozenSteps(Names) ==
    [agent_ref : Names \cup {Unset}, agent_name : Names, executor : Executor \cup {Unset},
     provider : Provider \cup {Unset}, skill : {"prompt", "installed", "custom", "none"},
     skill_id : Names]

\* resolve_snapshot refuses what its executor cannot do.
Composable(executor, session, enabled) ==
    is_compatible_with(session, executor) /\ (enabled => runner_mode(executor) # Unset)

\* LaunchStepKind::for_output
for_output(output) ==
    IF output = "plan" THEN "plan" ELSE IF output = "patch" THEN "implement" ELSE "review"

\* new_dynamic and LaunchProfile::validate over the orderings of a profile's
\* steps; steps a composer edited are not validated.
ValidProfile(orderings)  == \A i, j \in DOMAIN orderings : i # j => orderings[i] # orderings[j]
Runnable(enabled)        == \E i \in DOMAIN enabled : enabled[i]

\* build_step, for the fixed recipe: the provider is that of the catalog.
RecipeSteps(names, catalog) ==
    IF \E k \in DOMAIN names : names[k] \notin DOMAIN catalog THEN {}
    ELSE {[agent_ref |-> Unset, agent_name |-> names[k], executor |-> Unset,
           provider |-> catalog[names[k]].provider, skill |-> "none",
           skill_id |-> names[k]] : k \in DOMAIN names}

\* resolve_catalog_agent: the step's executor, if it has a mode, goes before the agent's.
FromCatalog(step, catalog, policy) ==
    LET r    == resolve(step.agent_ref, catalog, policy)
        mode == runner_mode(step.executor)
    IN  IF ~r.ok \/ mode = Unset THEN r
        ELSE IF mode \notin Runs(r.agent.provider) THEN Refused("incompatible")
        ELSE Recipe(r.agent, mode, resolve_billing(r.agent.provider, mode, catalog[step.agent_ref].billing))

\* resolve_dynamic_agent: a catalog and a policy of its own, which allow it.
FromStep(step) ==
    LET mode == runner_mode(step.executor)
    IN  IF step.provider = Unset THEN Refused("no_provider")
        ELSE IF mode = Unset THEN Refused("unimplemented")
        ELSE IF mode \notin Runs(step.provider) THEN Refused("incompatible")
        ELSE [ok |-> TRUE,
              agent |-> [provider |-> step.provider, mode |-> mode,
                         billing |-> DefaultBilling(step.provider, mode), linear |-> "snapshot",
                         mcp |-> FALSE, servers |-> {},
                         backend |-> IF step.skill = "custom" /\ step.provider = "claude"
                                     THEN "claude_skill" ELSE "none"]]

\* resolve_step_agent
resolve_step_agent(step, catalog, policy) ==
    IF step.agent_ref # Unset /\ step.agent_ref \in DOMAIN catalog THEN FromCatalog(step, catalog, policy)
    ELSE IF step.executor # Unset THEN FromStep(step)
    ELSE resolve(step.agent_name, catalog, policy)

-----------------------------------------------------------------------------
(* resolve_spawn_plan                                                      *)

is_active(agent) == agent.mcp /\ agent.servers # {}

resolve_servers(agent, registry) == IF is_active(agent) THEN agent.servers \cap registry ELSE {}

\* With a Linear client or not, and a worktree the config can be written to or
\* not: the servers on record, which are those behind --strict-mcp-config; the
\* mode on record; and whether the read-only directive ends the context block.
Audited(agent, registry, writable) ==
    IF writable /\ agent.provider = "claude" THEN resolve_servers(agent, registry) ELSE {}

AfterSnapshot(agent, client) == IF client THEN agent.linear ELSE "none"

EffectiveMode(agent, registry, client, writable) ==
    IF AfterSnapshot(agent, client) = "snapshot_plus_mcp" /\ "linear" \notin Audited(agent, registry, writable)
    THEN "snapshot" ELSE AfterSnapshot(agent, client)

SpawnPlan(agent, registry, client, writable) ==
    [servers   |-> Audited(agent, registry, writable),
     mode      |-> EffectiveMode(agent, registry, client, writable),
     directive |-> EffectiveMode(agent, registry, client, writable) = "snapshot_plus_mcp"]

-----------------------------------------------------------------------------
(* The prompt                                                              *)

\* materialize_skills: the skills a task's enabled steps want, of which those
\* with a body, a safe id and a file that is there or could be written are on disk.
Wanted(step, catalog, attached) ==
    IF step.agent_ref # Unset /\ step.agent_ref \in DOMAIN catalog THEN attached[step.agent_ref]
    ELSE IF step.skill \in {"installed", "custom"} THEN {step.skill_id} ELSE {}

Materialized(enabled, catalog, attached, usable) ==
    (UNION {Wanted(step, catalog, attached) : step \in enabled}) \cap usable

\* lean_skill_id: the prompt is a directive to a skill on disk, nothing more.
Lean(step, materialized) ==
    /\ step.executor = "interactive_pty" /\ step.skill \in {"installed", "custom"}
    /\ step.skill_id \in materialized

\* What a prompt says of skills and of Linear: how many directives to a skill
\* or sub-agent it has, whose context block, whether it is told to only read.
BasePrompt(lean, workspace, plan) ==
    [directives |-> IF lean THEN {"lean"} ELSE {},
     context    |-> IF lean THEN "none" ELSE IF workspace THEN "workspace"
                    ELSE IF plan.mode = "none" THEN "none" ELSE "snapshot",
     readonly   |-> ~lean /\ ~workspace /\ plan.directive]

\* apply_claude_backend: a prompt that brings a directive is left alone.
apply_claude_backend(agent, prompt) ==
    IF agent.provider = "claude" /\ agent.backend \in {"claude_subagent", "claude_skill"} /\ prompt.directives = {}
    THEN [prompt EXCEPT !.directives = {agent.backend}] ELSE prompt

\* Who drives the agent: a playbook runs everybody in a terminal, a recipe its
\* structured and background agents elsewhere.
Driver(agent, engine) ==
    IF engine = "playbook" THEN "terminal"
    ELSE IF is_background(agent.provider, agent.mode) THEN "background"
    ELSE IF is_structured(agent.provider, agent.mode) THEN "adapter" ELSE "terminal"

\* build_launch_config: the command line of a terminal.
Typed(agent) == agent.mode = "interactive_pty"

Argv(agent, plan) ==
    {"program"} \cup (IF agent.mode = "exec_json" THEN {"exec"} ELSE {})
    \cup (IF agent.mode = "print_stream_json" THEN {"--print", "stream-json"} ELSE {})
    \cup (IF agent.provider = "claude" THEN {"--dangerously-skip-permissions"} ELSE {})
    \cup (IF plan.servers # {} THEN {"--mcp-config", "--strict-mcp-config"} ELSE {})
    \cup (IF Typed(agent) THEN {} ELSE {"--", "prompt"})

\* The adapters and the background runner have a command line of their own,
\* into which run_step puts no MCP config, and the prompt as it was before
\* build_launch_config saw it. With a key, a turn goes on with the session's
\* own settings; a terminal and a background session have no use for one.
OwnArgv(agent, engine, resume) ==
    IF Driver(agent, engine) = "background" THEN {"program", "--bg", "--name", "prompt"}
    ELSE IF agent.provider = "claude"
    THEN {"program", "--print", "stream-json", "--permission-mode"} \cup (IF resume THEN {"--resume"} ELSE {})
    ELSE {"program", "exec", "--json"} \cup (IF resume THEN {"resume"} ELSE {"--sandbox", "--cd"})

CommandLine(agent, engine, plan, resume) ==
    IF Driver(agent, engine) = "terminal" THEN Argv(agent, plan) ELSE OwnArgv(agent, engine, resume)

\* Written to the terminal after the spawn, or to the adapter's pipe.
Stdin(agent, engine) ==
    \/ Driver(agent, engine) = "terminal" /\ Typed(agent)
    \/ Driver(agent, engine) = "adapter"

PromptSeen(agent, engine, prompt) ==
    IF Driver(agent, engine) = "terminal" THEN apply_claude_backend(agent, prompt) ELSE prompt

-----------------------------------------------------------------------------
(* Terminal takeover                                                       *)

\* The run's conversation, its provider's key if there is one; and the snapshot
\* of the run, whose provider may not be known.
Chats     == [provider : Provider, key : BOOLEAN, turn : BOOLEAN]
Snapshots == [provider : Provider \cup {Unset}, key : BOOLEAN]

resume_supported(provider) == provider = "claude"

resolve_resume_target(chat, snapshot) ==
    IF snapshot.provider # Unset THEN [provider |-> snapshot.provider, key |-> snapshot.key]
    ELSE [provider |-> chat.provider, key |-> chat.key]

\* continuation_takeover_spawn: what is resumed; and what the menu says is.
Resumes(chat, snapshot) ==
    LET target == resolve_resume_target(chat, snapshot)
    IN  resume_supported(target.provider) /\ target.key

Badge(chat) == resume_supported(chat.provider) /\ chat.key

\* takeover_mode_availability
Offered(chat) == {"inspect", "continuation"} \cup IF chat.turn THEN {"force"} ELSE {}
=============================================================================
