--------------------------- MODULE DefinitionRules ---------------------------
(***************************************************************************)
(* What may become a definition of a launch, and what superkick.yaml says  *)
(* of the agents and the runner: the scanner of repositories for skills,   *)
(* the checks of what an operator writes, the configuration and its edits. *)
(* What may be missing is a set of at most one element.  A text is a       *)
(* sequence of characters, "$" stands for what looks like a credential.    *)
(***************************************************************************)
EXTENDS Naturals, FiniteSets, SequencesExt

Slugged == {"a", "b", "1"}
Alnum   == Slugged \cup {"A"}
Lower(c) == IF c = "A" THEN "a" ELSE c

the(optional) == CHOOSE x \in optional : TRUE
OrElse(optional, default) == IF optional = {} THEN default ELSE the(optional)

Trimmed(text, chars) ==
    LET kept == {i \in DOMAIN text : text[i] \notin chars}
    IN  IF kept = {} THEN <<>> ELSE SubSeq(text, Min(kept), Max(kept))
trim(text)  == Trimmed(text, {" "})
scan(text)  == "$" \in ToSet(text)

\* slug.rs: the ids of skills and the names of agents.
is_safe_slug(id) ==
    /\ id # <<>> /\ {Head(id), Last(id)} \subseteq Slugged
    /\ ToSet(id) \subseteq Slugged \cup {"-", "_"}

-----------------------------------------------------------------------------
(* skill_import.rs: what an import directory offers                        *)

MaxBodyBytes == 64
MaxWalkDepth == 6
PrunedDirs   == {"node_modules", "target", "dist", "build", "venv", "vendor"}

\* A run of other characters becomes one dash, and none is left at the ends.
slugify(name) ==
    LET Add(slug, c) == IF c \in Alnum THEN Append(slug, Lower(c))
                        ELSE IF slug # <<>> /\ Last(slug) = "-" THEN slug ELSE Append(slug, "-")
        slug == Trimmed(FoldLeft(Add, <<>>, name), {"-"})
    IN  IF slug = <<>> THEN {} ELSE {slug}

unquote(value) ==
    IF Len(value) >= 2 /\ Head(value) \in {"\"", "'"} /\ Last(value) = Head(value)
    THEN SubSeq(value, 2, Len(value) - 1) ELSE value

\* A line is a fence, "---" alone or with blanks after it, or a key and its value.
split_closing_fence(lines) ==
    LET at == {i \in DOMAIN lines \ {1} : lines[i].fence # "no"} IN IF at = {} THEN {} ELSE {Min(at)}

\* The last value of a key that is not empty; and without both fences all is body.
Scalar(lines, end, key) ==
    LET Value(i) == unquote(trim(lines[i].value))
        at == {i \in 2 .. end - 1 : lines[i].key = key /\ Value(i) # <<>>}
    IN  IF at = {} THEN {} ELSE {Value(Max(at))}

parse_frontmatter(lines) ==
    IF lines = <<>> \/ Head(lines).fence # "exact" \/ split_closing_fence(lines) = {}
    THEN [name |-> {}, description |-> {}, body |-> lines]
    ELSE LET end == the(split_closing_fence(lines))
         IN  [name |-> Scalar(lines, end, "name"), description |-> Scalar(lines, end, "description"),
              body |-> SubSeq(lines, end + 1, Len(lines))]

BodyScan(body) == \E i \in DOMAIN body : scan(body[i].value)
has_credential_shape(parsed) ==
    BodyScan(parsed.body) \/ \E text \in parsed.name \cup parsed.description : scan(text)

read_capped(file) == IF file.readable /\ file.bytes <= MaxBodyBytes THEN {file.lines} ELSE {}

\* The name is the file's own, or the stem of the path it was found under.
candidate_from_file(file, stem, kind) ==
    UNION {LET parsed == parse_frontmatter(lines)  name == OrElse(parsed.name, stem)
           IN  IF has_credential_shape(parsed) THEN {}
               ELSE {[id |-> id, label |-> name, description |-> parsed.description, artifact_kind |-> kind,
                      body |-> parsed.body, source_path |-> file.path] : id \in slugify(name)}
           : lines \in read_capped(file)}

\* A symlink that leads out of the import directory, or nowhere.
Escapes(entry) == entry.link /\ ~entry.within_root

Found(candidates) == SetToSeq(candidates)
harvest_skill_md(dir, stem) ==
    Found(UNION {candidate_from_file(e.file, stem, "skill") : e \in {e \in dir.skill_md : ~Escapes(e) /\ e.is_file}})

harvest_commands(dir) ==
    LET docs == SelectSeq(dir.docs, LAMBDA e : ~Escapes(e) /\ e.is_file /\ e.markdown)
    IN  FlattenSeq([i \in DOMAIN docs |-> Found(candidate_from_file(docs[i].file, docs[i].stem, "command"))])

\* By the name of the entry, so a link of another name leads even there.
is_pruned_dir(entry) == entry.name \in PrunedDirs \/ (entry.dotted /\ entry.name # ".claude")
sorted_child_dirs(dir) == SelectSeq(dir.dirs, LAMBDA e : ~is_pruned_dir(e) /\ ~Escapes(e))

\* tree: the directories, each with its entries in the order of their names.
RECURSIVE walk_dir(_, _, _)
walk_dir(tree, entry, depth) ==
    LET dir  == tree[entry.node]
        kids == IF depth >= MaxWalkDepth THEN <<>> ELSE sorted_child_dirs(dir)
    IN  harvest_skill_md(dir, entry.stem)
        \o (IF entry.name \in {"commands", "prompts"} THEN harvest_commands(dir) ELSE <<>>)
        \o FlattenSeq([i \in DOMAIN kids |-> walk_dir(tree, kids[i], depth + 1)])

\* The first writer of an id wins.
push_unique(found) == {found[i] : i \in {j \in DOMAIN found : \A k \in 1 .. j - 1 : found[k].id # found[j].id}}

expand_home(dir, home) == IF dir.tilde /\ home # {} THEN [dir EXCEPT !.tilde = FALSE] ELSE dir

\* A directory that cannot be resolved, as a literal tilde cannot, is passed over.
scan_import_dirs(tree, dirs, home) ==
    LET roots == SelectSeq([i \in DOMAIN dirs |-> expand_home(dirs[i], home)],
                           LAMBDA dir : ~dir.tilde /\ dir.node \in DOMAIN tree)
    IN  push_unique(FlattenSeq([i \in DOMAIN roots |-> walk_dir(tree, roots[i], 0)]))

\* skills.rs: what an import refuses, and what it makes of the rest.
reject_credential_like(c) ==
    scan(c.label) \/ BodyScan(c.body) \/ \E text \in c.description : scan(text)

candidate_to_skill(c) ==
    [id |-> c.id, label |-> IF c.label = <<>> THEN c.id ELSE c.label, source |-> [kind |-> "installed", value |-> c.id],
     body |-> {c.body}, artifact_kind |-> c.artifact_kind, origin |-> "imported"]

\* skill.rs: only a prompt's template has a bound.
MaxPromptTemplateChars == 4
SkillValid(skill) ==
    /\ is_safe_slug(skill.id) /\ trim(skill.label) # <<>> /\ trim(skill.source.value) # <<>>
    /\ skill.source.kind = "prompt" => Len(skill.source.value) <= MaxPromptTemplateChars
from_parts(kind, value) == IF kind \in {"installed", "prompt"} THEN {[kind |-> kind, value |-> value]} ELSE {}

\* launch_profile_service.rs: a skill that is gone degrades to a reference.
SkillOfStep(ref, skills) ==
    IF ref \in DOMAIN skills THEN [source |-> skills[ref].source, kind |-> {skills[ref].kind}]
    ELSE [source |-> [kind |-> "installed", value |-> ref], kind |-> {}]

\* launch_profiles.rs: the rows of a profile come together.
group_usages(rows) ==
    LET Add(out, row) ==
            IF out # <<>> /\ Last(out).id = row.profile
            THEN ReplaceAt(out, Len(out), [Last(out) EXCEPT !.steps = Append(@, row.label)])
            ELSE Append(out, [id |-> row.profile, steps |-> <<row.label>>])
    IN  FoldLeft(Add, <<>>, rows)

-----------------------------------------------------------------------------
(* superkick-config: the configuration                                     *)

Builtins == {"codex-plan", "codex-implement", "codex-review", "claude-plan", "claude-implement", "claude-review"}
Planners == {"codex-plan", "claude-plan"}
LINEAR   == "linear"
Hosted   == [url |-> "https://mcp.linear.app/mcp"]

NoMcp          == [mode |-> "none", servers |-> <<>>]
NoRestrictions == [allow |-> {}, deny |-> {}, require_approval |-> FALSE, persist_results |-> TRUE]
ReadOnly       == [NoRestrictions EXCEPT !.deny = {{"bash", "write"}}]

\* What ships: the planners talk to Linear, the reviewers only read.
builtin_definition(name) ==
    [origin |-> "builtin", provider |-> IF name \in {"codex-plan", "codex-implement", "codex-review"} THEN "codex" ELSE "claude",
     mcp_policy |-> IF name \in Planners THEN [mode |-> "servers", servers |-> <<LINEAR>>] ELSE NoMcp,
     tool_policy |-> IF name \in {"codex-review", "claude-review"} THEN ReadOnly ELSE NoRestrictions]

known_agents(config) == Builtins \cup DOMAIN config.agents

BackendFits(agent) == "requires_claude" \in agent.backend => agent.provider = "claude"
assert_agent_ref(config, name) ==
    name \in known_agents(config) /\ \A allowed \in config.allowed_agents : name \in allowed

validate_step(config, step) ==
    /\ step.type \in {"plan", "code", "review_swarm"} => \A i \in DOMAIN step.agents : assert_agent_ref(config, step.agents[i])
    /\ step.type = "commands"     => step.run # <<>>
    /\ step.type = "review_swarm" => step.agents # <<>> /\ step.findings_threshold >= 1

\* Each type of a step once: the playbook is keyed by it.
validate(config) ==
    /\ config.version = 1 /\ config.steps # <<>>
    /\ config.max_parallel_agents >= 1 /\ config.max_concurrent_active_runs >= 1
    /\ \A name \in DOMAIN config.agents : BackendFits(config.agents[name])
    /\ \A allowed \in config.allowed_agents : allowed \subseteq known_agents(config)
    /\ \A i \in DOMAIN config.steps : validate_step(config, config.steps[i])
    /\ \A i, j \in DOMAIN config.steps : config.steps[i].type = config.steps[j].type => i = j

\* snapshot_plus_mcp is short for the server of Linear ...
resolve_mcp_policy(agent) ==
    LET asked == OrElse(agent.mcp, NoMcp)
    IN  IF agent.linear_context # "snapshot_plus_mcp" THEN asked
        ELSE [mode |-> "servers",
              servers |-> IF LINEAR \in ToSet(asked.servers) THEN asked.servers ELSE Append(asked.servers, LINEAR)]

\* ... which the registry then has; of the agents that ship it is not asked.
effective_mcp_servers(config) ==
    IF (\E name \in DOMAIN config.agents : config.agents[name].linear_context = "snapshot_plus_mcp")
       /\ LINEAR \notin DOMAIN config.mcp_servers
    THEN [name \in DOMAIN config.mcp_servers \cup {LINEAR} |-> IF name = LINEAR THEN Hosted ELSE config.mcp_servers[name]]
    ELSE config.mcp_servers

resolve_tool_policy(agent) ==
    IF agent.tool_policy = {} THEN [NoRestrictions EXCEPT !.allow = agent.tools]
    ELSE LET policy == the(agent.tool_policy) IN [policy EXCEPT !.allow = IF @ = {} THEN agent.tools ELSE @]

agent_catalog(config) ==
    [name \in known_agents(config) |->
        IF name \notin DOMAIN config.agents THEN builtin_definition(name)
        ELSE LET agent == config.agents[name]
             IN  [origin |-> "custom", provider |-> agent.provider,
                  mcp_policy |-> resolve_mcp_policy(agent), tool_policy |-> resolve_tool_policy(agent)]]

base_run_policy(config, name) == \A allowed \in config.allowed_agents : name \in allowed

\* saturating_mul: top is the largest u64.
run_budget_snapshot(budget, top) ==
    [duration_secs |-> {IF m * 60 > top THEN top ELSE m * 60 : m \in budget.duration_mins_per_run},
     retries_max |-> budget.retries_max_per_run, token_ceiling |-> budget.token_ceiling]

to_recovery_config(settings, defaults) ==
    [tick_interval |-> OrElse(settings.tick_interval_secs, defaults.tick_interval),
     thresholds |-> [state \in DOMAIN defaults.thresholds \cup DOMAIN settings.thresholds_secs |->
         IF state \in DOMAIN settings.thresholds_secs THEN settings.thresholds_secs[state] ELSE defaults.thresholds[state]]]

GlobalDirs == <<"~/.claude/skills", "~/.agents/skills", "~/.codex/prompts">>
effective_import_dirs(dirs) == IF dirs = <<>> THEN GlobalDirs ELSE dirs

DefaultRunner == [worktree_prefix |-> <<"a">>, base_branch |-> <<"b">>, setup_commands |-> <<>>]
Playbook(type, agents) == [type |-> type, agents |-> agents, run |-> <<>>, findings_threshold |-> 1]
bootstrap ==
    [version |-> 1, agents |-> <<>>, mcp_servers |-> <<>>, max_parallel_agents |-> 3, max_concurrent_active_runs |-> 3,
     allowed_agents |-> {}, runner |-> DefaultRunner, auto_transition_in_progress |-> TRUE,
     steps |-> <<Playbook("plan", <<"codex-plan">>), Playbook("code", <<"codex-implement">>),
                 Playbook("review_swarm", <<"codex-review">>), Playbook("pr", <<>>)>>]

-----------------------------------------------------------------------------
(* runner_patch.rs, launch_profile_patch.rs, lib.rs: edits of the file     *)

\* A missing file is the product's defaults, one that is not valid an error.
load_or_bootstrap(file) ==
    IF file = {} THEN {bootstrap} ELSE {config \in file : validate(config)}
save_file(config) == IF validate(config) THEN {config} ELSE {}

normalize(patch) ==
    LET commands == [i \in DOMAIN patch.setup_commands |-> trim(patch.setup_commands[i])]
    IN  [worktree_prefix |-> trim(patch.worktree_prefix), base_branch |-> trim(patch.base_branch),
         setup_commands |-> SelectSeq(commands, LAMBDA command : command # <<>>)]

WorktreePrefixMaxChars == 3
validate_worktree_prefix(prefix) ==
    /\ prefix # <<>> /\ Len(prefix) <= WorktreePrefixMaxChars
    /\ ToSet(prefix) \subseteq Slugged \cup {".", "_", "-"}
    /\ {Head(prefix), Last(prefix)} \cap {".", "-"} = {}
validate_patch(patch) == validate_worktree_prefix(patch.worktree_prefix) /\ patch.base_branch # <<>>

\* The whole file is read, one section replaced, and the whole written.
update_runner_config(file, patch) ==
    UNION {IF validate_patch(normalize(patch)) THEN save_file([config EXCEPT !.runner = normalize(patch)]) ELSE {}
           : config \in load_or_bootstrap(file)}
update_launch_profile_config(file, flag) ==
    UNION {save_file([config EXCEPT !.auto_transition_in_progress = flag]) : config \in load_or_bootstrap(file)}

\* config.rs: what the server was started with stays in force until the next start.
requires_restart(runner, boot_runner) == runner # boot_runner

\* repo_slug.rs: path: what follows the host, where ".git" is one character.
normalize_slug(path) ==
    LET bare == IF path # <<>> /\ Last(path) = ".git" THEN Front(path) ELSE path
        kept == {i \in DOMAIN bare : bare[i] # "/"}
        slug == IF kept = {} THEN <<>> ELSE SubSeq(bare, 1, Max(kept))
        cuts == {i \in DOMAIN slug : slug[i] = "/"}
    IN  IF Cardinality(cuts) = 1 /\ Head(slug) # "/" THEN {slug} ELSE {}
parse_repo_slug(url) == IF url.host \in {"git@github.com:", "https://github.com/", "http://github.com/"}
                        THEN normalize_slug(url.path) ELSE {}

-----------------------------------------------------------------------------
(* provider_settings.rs                                                    *)

Undetected == [availability |-> "unknown", install_state |-> "unknown", auth_state |-> "unknown"]
base(provider) ==
    [provider |-> provider, detected |-> Undetected, billing_mode |-> "subscription", default_model |-> {},
     default_executor |-> IF provider = "codex" THEN "codex_structured" ELSE "claude_workflow",
     sandbox_policy |-> "workspace_write", permission_policy |-> "prompt", enabled |-> TRUE]

\* What was detected is not the client's to write, nor is the provider.
patch_provider_settings(rows, provider, body) ==
    IF provider \notin {"codex", "claude"} THEN {}
    ELSE {[p \in DOMAIN rows \cup {provider} |->
              IF p = provider THEN [body EXCEPT !.provider = provider, !.detected = Undetected] ELSE rows[p]]}
seed_providers(rows) ==
    [p \in DOMAIN rows \cup {"codex", "claude"} |-> IF p \in DOMAIN rows THEN rows[p] ELSE base(p)]
=============================================================================
