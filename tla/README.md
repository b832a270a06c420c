# Superkick in TLA+

Superkick is a local server that turns issues into code changes: it runs coding agents
(Claude, Codex) in git worktrees, one after another, along a *recipe*, and asks a human
when it cannot go on. Its core is a set of tokio tasks and request handlers that race over
a few sqlite rows and some in-memory registries; a desktop shell boots the server and a web
UI reads its rows. This directory holds TLA+ models of that core, TLC configurations that
check them on small instances, and TLAPS proofs.

Work runs in two ways, and beside them sits what an operator sees and steers:

* a **launch task** (`LaunchTask`): a task row, its step rows and a *shadow run*, driven by
  `LaunchTaskExecutor`;
* a **playbook run** (`RunEngine`): a run row driven by `StepEngine`, with gates that ask
  the operator;
* both start **agent sessions** (`Supervisor`), of which the structured ones read a provider's
  protocol (`Adapter`), and whose ownership and terminals an operator may take (`Control`);
* **conversations** (`Conversation`) drive an agent turn by turn, outside any run;
* **intake** (`Intake`): the launch queue that puts runs in the table, and the overseers that
  notice when one falls silent;
* **delivery** (`Delivery`): a finished worktree is shipped as a pull request, its diff read,
  a review written and posted; beside it, **records** are kept for later readers: an
  orchestrator's session, an issue's ledger, an operator's interventions; and **definitions**,
  the skills, agents and profiles that launches are made of;
* **the desktop shell** (`Desktop`) that owns the server process.

Paths below are relative to `src/crates/`.

## 1. Inventory

| Component | State it keeps | Operations | What is hard | What makes it correct |
|---|---|---|---|---|
| Status machines (`superkick-core/src/launch_task.rs`, `run.rs`) | status of a task, a step, a run | `transition_to` | each row has its own machine, nothing ties them together | only their edges are taken; terminal is final |
| Launch-task executor (`superkick-runtime/src/launch_task_executor.rs`) | task and step rows, `current_step_id`, auto-resume counts | `run`, `retry_needs_human_step`, `cancel`, `reconcile_shadow_run` | many awaits between writes; cancel, retry, sweep, restart and dropped handlers come between any two | the recipe runs in order; rows never contradict each other; one writer at a time |
| Registry (`launch_task_registry.rs`) | task id → cancellation token | `try_register`, `cancel_or_reserve`, drop guards | probe and insert must be one step; reservations must end | mutual exclusion of the writers of one task |
| Step runner (`launch_task_step_runner.rs`) | shadow run row, `shadow_runs` cache | `run_step`: worktree, link, spawn, wait, classify | the run is inserted, cached and linked in three places | one shadow run per task; a cancelled step returns |
| Liveness sweep (`launch_task_liveness.rs`) | none | boot pass and periodic pass | distinguishes a dead run from one whose executor is alive, from rows that lag | orphans end; live work is left alone |
| Run engine (`step_engine/`) | run row (whole-row updates from memory), run steps, setup task | `execute`, `pre_step_gate`, `handle_blocked_step`, … | in-memory copy against `cancel_run` and `create_interrupt`; gates that wait for a human | the row follows the machine; a gate is obeyed; a cancelled engine returns |
| Run service (`run_service.rs`) | none | `spawn_run`, `cancel_run` | decides from rows read before awaits | a cancel reaches the owner of the run |
| Interrupts, attention (`interrupt_service.rs`, `attention_service.rs`) | questions and answers | create, answer, reply, cancel | answers race each other and the end of the run | a run that waits has a question; an answer counts once |
| Agent supervisor (`agent_supervisor/`) | session rows, lifecycle events, terminals by run id | launch, cancel, completion, delayed cleanup | marker, exit, wall clock, idle and cancel race; cleanup by run id 30 s later | row, published phases and step result agree whoever wins |
| Protocol adapters (`protocol_adapters/`, `agent_supervisor/structured.rs`) | a child, its pipes, a bounded event channel, the ledger | pump, recorder, watchdog, kill with grace | pump and recorder wait for each other; pipes outlive the child | the ledger and the session tell the same end; the turn ends |
| Conversations (`conversation_runner.rs`) | turns, their event logs, the per-turn bus | start, cancel, drive, stream a turn | check-then-insert admission, unguarded status writes, subscribe after read, a lagging bus | viewers see the log in order; an ended turn reads as ended; a cancel settles it |
| Ownership (`ownership_service.rs`) | owner of a session, audit trail, evictable lock map | take over, release, suspend, resume | the lock itself comes and goes; handlers are dropped inside it | the audit trail is a chain |
| Terminal takeover (`terminal_takeover.rs`, `pty_session.rs`) | takeover terminals, writer leases | open, attach, close, watchdog | watchdog against close; reconnecting browsers | one writer, the newest; every end on record |
| Recovery scheduler, heartbeat (`recovery_scheduler.rs`, `heartbeat_listener.rs`) | stamps, recovery audit rows | listener, tick | late heartbeats, rows rewritten by their engine | stalls and recoveries alternate, and catch up |
| Launch queue (`launch_queue_service.rs`, `core/launch_queue.rs`, `core/queue.rs`) | blocker snapshot | poll and reconcile, classify, launch | concurrent polls with a stale fetch; check then insert | each resolution announced once, and on record |
| Desktop shell (`src/apps/desktop/src-tauri`) | boot machine, server slot, port file | select, boot, crash watch, quit | one thread per boot, epochs | a stale boot leaves the newer server alone; no child leaks |
| Pull requests (`pull_request_service.rs`, `git_ship.rs`, `issue_pr_service.rs`) | the branch name in the worktree and in the run's row, `pull_requests`, `issue_pull_requests` and its cached files | ship, resolve, sync, read a diff | a rename in three places, syncs and pushes while a diff is read | one branch name everywhere; no diff older than its head |
| Reviews (`pr_review_service.rs`, `sqlite/diff_reviews.rs`) | threads and comments | stage, edit, delete, resolve, submit | writers check before their transaction; posting and resolving are two things | no empty thread; everything open is posted, and once |
| Orchestrator sessions (`handlers/orchestrator_sessions.rs`, `sqlite/orchestrator_sessions.rs`) | the session's row, its checkpoints | create, patch, checkpoint, list | a patch writes back a row it has read before | the pointer names a checkpoint on record; a session follows its requests |
| Issue context and ledger (`handlers/workspace_contexts.rs`, `sqlite/memory_entries.rs`, the step runner) | `issue_workspace_contexts`, `memory_entries` | attach, append, list a page, load into a prompt | find, ask Linear, find again, insert; a page while others append | one context per issue; a walk shows all, once |
| Interventions (`handlers/launch_tasks.rs`, `sqlite/launch_task_interventions.rs`, the step runner) | `launch_task_interventions` | create, list pending, mark consumed | listed before the spawn, marked after it; the purge of the task | consumed means delivered, to the step it names |
| Agent routing and spawn (`role_router.rs`, `launch_profile_service.rs`, `agent_spawn.rs`, `skill_projection.rs`, `cli_resume.rs`) | none of its own | `resolve_step_agent`, `resolve_spawn_plan`, `build_launch_config`, `materialize_skills`, `resolve_resume_target` | the agent comes from catalog, step or builtin; audit, argv and prompt are built in different places for different drivers | a runner exists; the audit says what was wired; the prompt arrives once |
| Step outcomes (`step_failure_classifier.rs`, `core/step_result.rs`, `failure_hints.rs`, `step_result_marker.rs`, `claude_background.rs`) | what a scanner has seen so far, a poll's memory | `feed`, `classify`, `disposition`, `select_agent`, `emit_new_log_lines` | exit code, phase, marker, transcript and worktree may contradict each other; a screen is read as if it were a stream | one outcome; final only if the agent says so; never another's session |
| Run context snapshot, handoff (`run_context_snapshot_builder.rs`, `core/run_context_snapshot.rs`, `core/handoff.rs`, `core/redaction.rs`) | `run_context_snapshots`, `handoffs` | derive, refresh, render, mask; the moves of a handoff | one answer out of rows that may contradict each other; text of agents goes out of the run | the stuck run is what is named; nothing secret leaves; a final handoff is final |
| App-managed definitions (`handlers/skills.rs`, `agents.rs`, `launch_profiles.rs`, `agent_service.rs`, `storage/seed.rs`) | three tables, tombstones, the catalog of agents in memory | create, patch, delete, import, restore; seed and merge at a start | a delete is row, tombstone, catalog; an import looks up all before it stores; restarts put back | deleted stays gone; the catalog is the table; no row is forged |
| Configuration (`superkick-config`) | `superkick.yaml` | validate, derive catalog and registry, edit a section | references between sections; whole-file edits | what is saved is valid; every name in use resolves |
| Worktrees, Linear, CLI, web UI | rows, files, screens | I/O, mirroring and parsing | see section 6 | not modelled |

How they interact: the HTTP handlers insert rows and spawn an executor or an engine as a
tokio task; executor and engine call the agent supervisor and wait for it; everything else
(cancel, retry, answers, the sweep, the overseers) meets them only through sqlite rows, which
have no row-level locking across statements, and through the registries or a
`CancellationToken`. A handler's future is dropped with its connection, at any await. A restart
keeps rows, worktrees and background agents and nothing else.

`PROJECT.json` lists the places in the code where this bites ("hazards"), each with the
property that would notice.

## 2. Modules

| Module | Models |
|---|---|
| `LaunchStatus` | the status machines of tasks and steps, and the states of a shadow run |
| `LaunchTaskContract` | abstract: what the rows of a launch task promise their readers; no actors |
| `LaunchTask`, `LaunchTaskProps` | one launch task, its rows, registry entry, executor, cancels, sweep, restart and failures; its properties |
| `LaunchTaskProofs` | theorems: types and mutual exclusion; then the rows, the runs and the contract |
| `RunEngine`, `RunEngineProofs` | `RunState`, its edges, the state of each step key; one playbook run: engine, setup task, cancels, operators, restart |
| `SessionContract` | abstract: row and published phases of agent sessions |
| `Supervisor`, `SupervisorProofs` | the sessions of one run under the three runners of the supervisor |
| `Adapter`, `ProcessProofs` | one structured turn: child, pump, channel, recorder, watchdog |
| `ConversationContract` | abstract: turns, logs and what viewers are shown |
| `Conversation`, `ConversationProofs` | the turns of one conversation, their tasks, bus, cancels and viewers |
| `Ownership`, `Terminals` | the two planes of control of a session |
| `Control`, `ControlProofs` | their composition, with a restart that hits both |
| `RunTable` | the `runs` rows as queue and overseers see them |
| `Oversight`, `LaunchQueue` | who notices silent runs; who puts runs in the table |
| `Intake`, `IntakeProofs` | their composition over `RunTable` |
| `QueueBuckets`, `IntakeProofs` | both queue classifications, as pure functions |
| `AgentRules`, `SupervisorProofs` | from a step of a recipe to the agent that runs it, as pure functions |
| `OutcomeRules`, `SupervisorProofs` | from the end of an agent to the outcome of its step, as pure functions |
| `PullRequests` | shipping a run's branch and following its pull request |
| `IssueDiffs` | the pull request of an issue and the cached files of its diff |
| `Reviews` | threads, comments and submissions of one pull request |
| `Orchestrators`, `Notes`, `Interventions` | what is written down for later |
| `Definitions` | the three tables of definitions, their tombstones, the catalog, the requests and restarts that change them |
| `Delivery`, `DeliveryProofs` | shipping, diffs, reviews, records and definitions side by side; what an operator relies on who ships and reviews |
| `HandoverRules`, `ControlProofs` | what one session leaves to the next: snapshot, masking, handoff, as pure functions |
| `DefinitionRules` | what may be imported or written as a definition, and what `superkick.yaml` says, as pure functions |
| `ReviewRules` | what a reviewer is shown and what GitHub is sent, as pure functions |
| `Desktop`, `ProcessProofs` | the boot machine and the server slot |
| `MC…` | instances for TLC |

### Launch tasks

A driver `d` is one call of `run` (the `Runner`, spawned by the create handler) or of
`retry_needs_human_step`. Its control point `pc[d]` is the next await of the code that can
change shared state or observe it, and `loc[d]` are the locals that live across awaits: the
step, the snapshot of the steps the loop works on (`snap`), the segments used, the outcome.
Every database write is one action; a write is preceded by the re-read and edge check that
`update_task_status` / `update_step_status` make (`WriteTask`, `WriteStep`), and a refused
edge makes the executor return. `begin_retry` is one transaction and so one action.

| In the model | In the code |
|---|---|
| `taskStatus`, `currentStep`, `stepStatus`, `stepLink`, `resumeCount`, `resumeKey` | rows `launch_tasks`, `launch_task_steps` |
| `runState` | the `runs` rows minted by `ensure_shadow_run`; `Live` stands for any non-terminal state |
| `slot`, `cancelled` | registry entry of this task id, and the holder's token |
| `cacheRun` | `RealStepRunner::shadow_runs` |
| `spawned … release` (`pc`) | `run` → `run_inner` → `drive_pending_steps` → `run_step` → `handle_step_outcome` → `finalize` → guard drop |
| `cpc`, `cloc` | one cancel request, by the task endpoint or by `RunService::cancel_run` |
| `spc`, `sloc` | `reconcile_shadow_run` of one enumerated run |
| `Crash` | a server restart: memory and actors are gone, nobody spawns the executor again |
| `Abort`, `CancelAbort`, `SweepAbort` | an error returned by `?`, a panic, a handler dropped with its connection: only the guard runs |
| `ShadowUpdateFails`, `FinalizeFails`, `CancelOneStepFails`, `SweepFailStepFails` | writes whose failure is logged and swallowed |

Data that no property reads (prompts, skills, links to artifacts, event-bus messages) is
left out. An agent's outcome is any value of `Outcomes`. The rows implement
`LaunchTaskContract` (`RefinesContract`): task and step machines, and which step may move
while the task is in which status.

### Playbook runs

`mem` is the engine's `Run`, `row` the database's. `Save` is `RunRepo::update`: the whole
`mem` replaces the row. `Transition` is `Run::transition_to` followed by it; where it is
refused, `?` ends the engine (`pc = "leave"`). `e` holds the locals: position in the
playbook, attempt, budget grant, the question asked.

| In the model | In the code |
|---|---|
| `NextStep`, `AwaitSetup`, `EnterStep`, `StepSucceeds`, `StepFails`, `Complete` | `execute_inner` |
| `Prepare`, `Prepared` | `execute_prepare`: make the worktree, write its path, start the setup task |
| `Gate`, `BudgetAsk`, `Override` | `pre_step_gate`, `budget::evaluate`, `handle_budget_trip` |
| `ApprovalAsk`, `ApprovalPause`, `Approved` | `handle_approval_checkpoint` |
| `Ask`, `AskWrite`, `AskSync` | `InterruptService::create_interrupt` and the re-read after it, for blocked steps and the plan review |
| `WaitAnswered`, `WaitCancelled` | `poll_until` |
| `Refuse` | abort (blocked, budget, review) and rejection (approval), which differ only in the state and in whether the setup task is waited for |
| `CancelFire`, `CancelRead`, `CancelWrite` | `cancel_run` of a run no launch task owns |
| `Answer`, `AnswerCheck`, `AnswerWrite` | `answer_interrupt`, attention `reply` and `cancel`: read, check, unconditional update |

A step (agent, commands, review, pull request) is one action that succeeds or fails. A time
budget is a switch: with it the gate may or may not find the time used up. Runs use a
dedicated worktree. Database errors of the engine are not modelled.

### Agent sessions

A session `s` has a row, the lifecycle phases published for it, a child (`agent[s]`), and its
supervisor's locals (`sup[s]`): the runner's kind, its control point, what the step-result
scanner has sent on its oneshot (`rx`), what the select has already taken from it (`stash`),
the verdict (`phase`, `marker`).

| In the model | In the code |
|---|---|
| `Insert`, `RecordSpawning`, `Spawn`, `SpawnFails`, `RowRunning`, `RecordRunning` | `launch`, `launch_claude_background`, `spawn_structured` |
| `MarkerArm`, `MarkerStash`, `ExitArm`, `CancelArm`, `DeadlineArm` | the select of `run_supervised` (`lifecycle.rs`) |
| `Drain`, `TakeStepResult` | `output_task.await` and `take_step_result` |
| `TurnEnds` | the end of a structured turn; its inside is `Adapter` |
| `AwaitChild`, `ChildLeaves`, `Jam` | the two waits of a structured turn that listen to neither clock nor token: `child.wait()` after the pipes have closed (`claude.rs:449`, `codex.rs:429`), and pump and consumer at a full channel (`structured.rs:121`) |
| `PollStarts`; `PollSeen`, `PollMissed`, `PollFailed`, `PollEnds` | the background loop asks `claude agents`, outside its select (`background.rs:223`); the answers, with their two limits |
| `AfterStop`, `Stopped` | where a session goes that is stopped; the `claude stop` command |
| `RowEnd`, `RecordEnd`, `UpdateFails` | the terminal write and the event that follows it |
| `Cleanup` | the timer of `schedule_cleanup`, which removes by run id |

Only terminal sessions overlap (the reviewers of a swarm); they share the registry entry.
Rows and phases implement `SessionContract`.

### Structured turns

`child` is the process with its two pipes, which a descendant may keep open; `pump` is the
adapter's task, whose biased select is `CancelArm`, `TimeoutArm`, `ReadLine`/`ReadEof`,
`ReadErrEof`; `chan` is the bounded channel; `consumer` is `consume` of `structured.rs`.

| In the model | In the code |
|---|---|
| `ParseLine` | `parse_line` of `claude.rs` and `codex.rs`: which events a line of the provider becomes, in which order |
| `Sent` | `process_stdout_line`, `send_event`, `emit_terminal` |
| `KillWithGrace`, `DrainLine`, `DrainEnds` | `process.rs` `kill_with_grace`, `drain_remaining_stdout` |
| `LeaveLoop`, `AwaitExit`, `ExitSeen` | what follows the loop: `child.wait()` if no ending was read |
| `Recv`, `Ingest`, `StreamCloses`, `WatchdogTrips`, `WatchdogCancels`, `Finish` | `consume`, the event sink and `map_outcome` |

`MaxLines` hides a descendant that writes for ever and keeps the drain busy. No adapter emits
text deltas, so their coalescing has no producer. Failed ledger writes, the stderr tail, the
step-result marker and failure hints are not modelled.

### Conversations

Turns are numbered in the order of their rows; `log[t]` are the kinds of its events, whose
position is their `seq`. `tpc[t]` is the turn's task (`spawn_turn_task`, `drive_turn`), `spc`
and `xpc` the requests that start and cancel, `view[v]` the locals of `stream_turn` together
with what the browser has been shown and sends back as `Last-Event-ID`.

| In the model | In the code |
|---|---|
| `StartLook`, `StartCreate`, `StartSpawn` | `start_turn` |
| `MarkStreaming`, `ReceiveData`, `ReceiveEnd`, `AppendEnd`, `Publish`, `EndOfStream`, `Close`, `Release` | `drive_turn`: an ending event is written to the row, then to the log, then published |
| `ForceFind`, `CancelLook`, `CancelFire`, `CancelMark`, `CancelClose` | `force_cancel_active_turn`, `cancel_turn` |
| `Open`, `Subscribe`, `History`, `Live`, `Lagged`, `Closed`, `LastStatus`, `Reopen` | `stream_turn`; the client |
| `Receive` | a `broadcast` receiver: full, it loses its oldest |

The rows, logs and viewers implement `ConversationContract`. Prompts, provider session ids,
listing and archiving are left out.

### Control

`Ownership` has one lock per session, minted on demand (`minted` numbers the locks so that two
for one session can be told apart) and evicted by the count of its references, and a request
`req[r]` that holds it while it reads the owner, writes owner and audit row in one transaction
and emits the run event. `Terminals` has the agent's own terminal and the takeovers, each with
its opener, child, watchdog and `operator_closed` flag, the close requests, and the browsers
that take each terminal's writer lease. `Control` runs them side by side: the code ties neither
to the other, and a restart (`OwnCrash`, `TermCrash`) hits both.

### Intake

`RunTable` is the part of a run row that the queue and the overseers read. A stamp is "fresh"
while younger than the threshold of the run's state, then "old" (`Silence`).

| In the model | In the code |
|---|---|
| `EngineMoves`, `EngineSaves` | the engine's whole-row updates, which write `last_heartbeat_at = NULL` from its own copy |
| `ServiceMoves` | interrupts and `cancel_run`: load, then save |
| `SessionEvent`, `Listen`, `Stamp` | the session bus and `heartbeat_listener.rs`; the guarded `UPDATE` |
| `Tick`, `Skip`, `Report`, `Publish`, `VisitFails` | `RecoveryScheduler::tick` |
| `Fetch`, `Diff`, `Persist`, `PersistFails`, `Emit` | `get_queue`, `reconcile_blockers` |
| `Admit`, `Insert` | `guard_no_active_run` and the insert of `spawn_run_from_request` |
| `LinearMoves` | Linear |

The tick reads the clock once, so who is silent is judged at the listing; a clock that steps
back, which would reorder `latest_for_run`, is not modelled. A service's load and save are one
step here (`RunEngine` has them apart). Shadow runs of launch tasks are no candidates and are
left out. `QueueBuckets` gives the response's classification: `OperatorQueue` and `CardReason`
(`core/queue.rs`, `queue_triage_service.rs`), `Gates` and `IssueQueue` (`core/launch_queue.rs`).

### Agent rules

What `LaunchTask`, `Supervisor` and `Adapter` take for granted: that a step has an agent and that the
agent has a runner. A catalog is a function from some names to agents; a step, a policy and a
catalog are any values of their types.

| In the model | In the code |
|---|---|
| `Runs`, `resolve_billing`, `runner_mode`, `is_compatible_with` | `core/role_router.rs`, `core/agent.rs`, `core/launch_profile.rs` |
| `resolve`, `FromCatalog`, `FromStep`, `resolve_step_agent` | `RoleRouter::resolve`, the step runner's three ways to an agent |
| `SpawnPlan` (`Audited`, `EffectiveMode`) | `resolve_spawn_plan`: what the audit row of a session says |
| `CommandLine`, `Stdin`, `PromptSeen` | `build_launch_config`, the two adapters and the background launcher: what the child gets |
| `Materialized`, `Lean` | `materialize_skills`, `lean_skill_id` |
| `Resumes`, `Badge`, `Offered` | `continuation_takeover_spawn`, `cli_resume.rs` |

`MCLaunchTask` evaluates two of the theorems over one agent and every step, policy and driver
(`ResolvedChecked`, `PromptChecked`).

### Outcome rules

`LaunchTask` lets an agent end in any of `Outcomes`, `Supervisor` in any phase with any marker; these
rules lie between. A transcript line is the set of patterns it matches or its place in a marker
block, a worktree is what it has tracked and untracked beside HEAD.

| In the model | In the code |
|---|---|
| `into_hints`, `finish`, `marker_of` | `FailureHintScanner`, `StepResultScanner` |
| `has_changes`, `compute_diff_snapshot`, `same_as` | `GitDiffProbe`, `DiffSnapshot` |
| `classify`, `disposition`, `process_completion`, `decide_resume` | the same names |
| `select_agent`, `launch`, `Verdict`, `DoneMarker` | `claude_background.rs`, and how `background.rs` ends |
| `strip_ansi`, `collapse_word_cycle`, `emit_new_log_lines` | the reading of `claude logs` |

The scanners are recursive, so they are checked and not proved: `MCSupervisor` compares each with what
it is meant to compute, over all inputs of a few lines, words or characters (`HintsChecked`,
`MarkerChecked`, `EchoChecked`, `AnsiChecked`, `CycleChecked`, `LogsChecked`), and `MCLaunchTask` checks that the
outcomes of these rules are exactly those `LaunchTask` works with (`OutcomesChecked`).

### Delivery

The parts share no state: to `IssueDiffs` a ship is a push like any other. So `Delivery` lets one
of them run in each behaviour and keeps the others at rest; records and definitions, below, are parts too.

| In the model | In the code |
|---|---|
| `Ask … Upsert` (`ship[s].pc`) | `PullRequestService::ship` with `plan_head_branch`, `rename_head_branch`, `git_ship.rs`; `local` is the worktree's branch, `branch` the run's row |
| `Look`, `InsertRow`, `Fetch`, `WriteRow` | `resolve_pr`, `sync_pr_state`: `UPDATE` by the row's id, which an overwriting upsert keeps |
| `Settle`, `PushHead`, `Opens` | GitHub |
| `FetchDetails`, `SaveDetails` | `sync_issue_prs`; one that fails leaves a row without a head |
| `Find … ReplaceFiles` | `diff_files`: the head first, the files after it |
| `Check`, `AddComment`, `DropComment`, … | the two review handlers: a check on the pool, then a transaction of `sqlite/diff_reviews.rs` |
| `List`, `Load`, `Post`, `Resolve` | `submit`: threads, their comments one thread at a time, one call to GitHub, one resolve per thread |

`ShipFails`, `ViewFails`, `ReadFails`, `SubmitFails` fail where nothing is out of step yet and are
free; `ShipLapses`, `PlanBlind`, `ResolveFails` leave things half done and are counted by
`MaxLapses`, `MaxSlips`. The body of a review, its anchors and the activity feed are in
`ReviewRules`.

### Records

Three records that one request writes and another reads, with what it read before. They share no
state either, so each is a part of `Delivery`.

| In the model | In the code |
|---|---|
| `ReadRow`, `UpdateRow` | `patch_session`: the row is read, changed by its setters, and written back whole |
| `MintCheckpoint`, `InsertCheckpoint` | `create_checkpoint`; the insert and the two pointers are one transaction |
| `Allowed` | `OrchestratorStatus::can_transition_to` |
| `Probe`, `ResolveIssue`, `ProbeAgain`, `Attach` | `ensure_context_for_issue` |
| `Page`, `More`, `NextCursor` | `list_page`, which reads one row more than it shows |
| `LoadContext`, `StepOver`, `AppendEntry` | the step runner: the context it found when the step began is the one its summary goes to |
| `CheckTask`, `InsertWish`, `ListPending`, `Spawned`, `MarkConsumed`, `Purge` | one intervention, from the request to the prompt |

A row is identified with the time it was made at where queries order by that. `tangled` and `raced`
remember that two requests overlapped where the code does not order them (see "known
behaviours"); what an overlap may not break, `PointerOnRecord`, is demanded regardless.

### Definitions

`shelf[t][n]` is the row of name `n` in table `t` (skills, agents, profiles): its origin and who wrote its
text. A request is at one of its calls; between two of them others come, the server may die (`Crash`), and the
client may go away or a call fail (`Abandon`).

| In the model | In the code |
|---|---|
| `LookUp`, `Put` | create and patch: the row is read, its origin forced or kept, and the whole row written |
| `Drop`, `Bury`, `ListAgents`, `Swap` | delete: the row, its tombstone in `builtin_deletions`; for an agent `rebuild_catalog` |
| `Unbury` | `restore_default`: the tombstone goes, then the shipped row is written |
| `Scan`, `Store` | `import_skills`: all candidates are looked up before the first is upserted |
| `Boot` | `seed_defaults`, then the merge of `config.agent_catalog()`, then the catalog; nobody is served before |
| `graves`, `catalog` | `builtin_deletions`, `AgentCatalogProvider` |

A name is `gone` from the moment a request deletes its row, whatever its origin, until one writes it again; `back`
are those of them that a start has put back. `cut` are the skills whose last delete ended between row and tombstone,
`late` the requests that listed the agents before another's write, `astray` says that the last list to go into the
catalog was such a one or that none did, and `clobbered` that an import on its own overwrote a row it must not.
`DeletedStaysGone` says of all of these names that nothing but a start brings them back, and names which a
start may (`PutBack`): a cut skill, an agent that is shipped or configured, a shipped profile. So a skill
whose tombstone was written, a custom agent or profile, a skill of neither kind never come back.

`DefinitionRules` has what these requests check and what feeds them: the scanner (`walk_dir` to
`scan_import_dirs`, `parse_frontmatter`, `slugify`), `SkillValid`, `reject_credential_like`,
`candidate_to_skill`; the configuration (`validate`, `agent_catalog`, `effective_mcp_servers`,
`resolve_tool_policy`, `bootstrap`) and its edits (`load_or_bootstrap`, `update_runner_config`, `save_file`);
`parse_repo_slug`, and the rows of a provider. `MCDelivery` evaluates them over small texts, files, trees and
configurations (`SlugsChecked`, `FrontmatterChecked`, `ScanChecked`, `DepthChecked`, `UsagesChecked`,
`ConfigChecked`, `LinearChecked`, `ToolsChecked`, `EditsChecked`, `ReposChecked`, `ProvidersChecked`, `DefaultsChecked`).

### Handover rules

The records say which rows survive; these rules say what a later session makes of them. A snapshot is
derived from the rows whenever somebody asks; a text is the set of its fragments, some of them secret.

| In the model | In the code |
|---|---|
| `linked_run`, `focus_step`, `provider_session`, `failure_reason`, `needs_human_reason` | `run_context_snapshot_builder.rs`: which step, run and key stand for the task |
| `derive_blocking`, `derive_pending_decisions`, `aggregate_changed_files` | the same names |
| `build_run_context_snapshot`, `refresh_run_context_snapshot` | the same names: build, mask, upsert |
| `render_for_takeover`, `opening_context` | how a takeover or an orchestrator is told |
| `scan`, `redact` | `core/redaction.rs`: the patterns, in their order |
| `mark_delivered`, …, `escalate`, `Moves` | `core/handoff.rs` |

`MCControl` evaluates them over small rows (`PathsChecked`, `SnapshotChecked`, `RedactChecked`, `HandoffsChecked`).

### Review rules

`Reviews` counts threads and comments; these rules say what they are and what becomes of them. A text is
its words and whether it is padded, a hunk of a patch is its lines.

| In the model | In the code |
|---|---|
| `validate`, `NewThread`, `from_change`, `storage_key` | `core/diff_review.rs` |
| `anchor_to_line_side`, `patch_covers_line`, `map_threads_to_comments`, `submit` | `pr_review_service.rs`: where on GitHub a thread lands, and what goes into the body instead |
| `state_from_details`, `pr_state_from_list`, `aggregate_checks`, `parse_pr_number`, `search_prs_by_issue_identifier` | `github/`: GitHub's answers, read |
| `viewer`, `classify_review_bucket`, `merge_reviewers`, `inbox`, `activity` | the review inbox and a pull request's feed |
| `resolve_base_ref`, `parse_name_status_line`, `shape_patch`, `count_changes`, `collect_run_diff` | `run_diff.rs`: the diff of a worktree |

`MCDelivery` evaluates them over small inputs (`AnchorsChecked`, `KeysChecked`, `SubmissionsChecked`,
`HunksChecked`, `PullRequestsChecked`, `InboxChecked`, `ViewerChecked`, `ActivityChecked`, `RunDiffChecked`).

### Desktop shell

A boot thread is named by its epoch, a server by the epoch that spawned it. `machine` is
`BootMachine`, `slot` the mutex-guarded child, `portFile[p]` the file the servers of a project
share. `Select`, `Reboot` are the commands; `Begin … Fail` are `run_boot` and `watch_for_crash`
with `store_server`, `take_server` and the two halves of `shutdown` apart; `Quit…` is
`stop_all`, under which threads go on until the process exits.

## 3. Runs

All runs set `CHECK_DEADLOCK FALSE`: the system rests when every request has been served.

| Run | Asks | Instance |
|---|---|---|
| `LaunchTask_crash_and_fault` | do rows, registry and bookkeeping survive a restart and a failure at any point, and do the rows implement `LaunchTaskContract`? | 3 steps, the middle one disabled, one auto-resume, run + 1 retry, 1 cancel of either kind, 1 restart, 1 failure (abort, shadow or finalize write) |
| `LaunchTask_recovery` | does a cancelled executor return although its agent hangs, and does the sweep end what executors leave behind? | 1 step, 1 restart, a lost best-effort write, cancel, retry |
| `RunEngine_gates` | without a cancel, are gates obeyed, the budget grant right, the end clean but for the three dead ends? | the 6-step playbook in a legal order, a preflight and a setup that may fail, 3 checkpoints (first, middle and last step), plan review, 2 attempts, retry budget 0, 4 questions |
| `RunEngine_cancel` | does a cancelled engine return from anywhere, is a waiting run always asking, and does the row follow its machine until a cancel? | 3 steps (no pull request, so completion is refused) with setup, time budget, approval, review; 2 cancels, 1 restart, 3 questions |
| `Supervisor_sessions` | do row, phases and step result agree whichever runner drives and whichever end comes first, and where can a session stand for good? | 2 sessions of all kinds, 2 misses, 1 error, 1 cancel, 1 fault |
| `Adapter_turns` | do ledger and row tell the same end, and does the turn end whatever its child does? | both providers, channel of 1, 2 lines |
| `Conversation_chat` | what are viewers shown, and does a cancel settle the turn? | 1 turn, bus of 1, 2 events, 1 cancel, 1 reconnect, 1 fault |
| `Conversation_admission` (violation) | is there one active turn? | 2 requests |
| `Control_takeover` | is the audit trail a chain, is the writer the newest browser, is every end recorded? Before it, the bounded assumptions of the handover rules | 3 ownership requests of 2 operators by 2 handlers, 1 takeover, 1 closer, 2 browsers, 1 fault, 1 lapse |
| `Desktop_boots` | does a stale boot leave the newer server alone, and does what is shown settle? | 2 projects, 2 boots, 2 deaths |
| `Intake_intake` | is nothing announced twice or off the record, and are stalls recorded once and to the end? | 2 runs on one issue, 1 relation, 2 polls, 3 events, 2 troubles |
| `Delivery_delivery` | do worktree, row and pull request name one branch, is no diff older than its head, and does a submission post what is open, once? Do sessions, ledgers and interventions keep what was written? Are definitions as the operator left them? Before it, those of the review and definition rules | 3 ships by 2 handlers over 3 names, 1 viewer, 1 lapse; 2 readers, 1 sync, 3 heads; 2 threads, 3 comments, 5 requests of 2 writers and 2 submissions, 1 slip; 1 patch, 2 checkpoints, 1 cursor; 2 callers, pages of 1, 4 contexts or entries; 2 interventions, 2 steps, 2 unrecorded deliveries; 2 requests and 3 starts over 3 names, one shipped, one configured, one neither |

Why the bounds are enough. A launch task has one registry entry, so what can go wrong is
between the holder and at most two others: a cancel and a retry beside the runner, and the
sweeper is always there; two concurrent cancels, or a retry of a retry, are beyond this
instance. A disabled step between two enabled ones makes "the next step" skip. One restart and
one failure hit every point; a second run id (`MaxRuns = 2`) is what a restart can cost. For
the engine, four questions cover a budget gate followed by an approval on one step, twice;
`MaxAsks` does not hold up a cancelled engine. `gates` has one operator because
`ApprovedBeforeRun` reads the recorded answer, which a second operator can replace. Two sessions are what one registry entry and one cleanup
timer can confuse. A channel, bus or queue of one slot is full at once, which is the case that
matters. Two requesters and a third request are the least with which a lock is evicted while
another is about to take it and a third mints a new one. Two boots make one stale. Two polls
with a stale fetch of one relation, and one relation that reopens (3 moves and polls in all),
reach every order of diff and persist. Three ships rename there and back and beyond while a
fourth name is never needed; three heads make the row, the cache and GitHub differ pairwise;
two threads make "one was resolved, one was not", and a thread whose two comments two writers
delete at once needs the third comment to be more than an empty list. A patch beside two
checkpoints overlaps either; three entries in pages of one make two page boundaries, and a fourth
arrives meanwhile. Two requests for definitions meet in every order, or follow one another; of three starts the
first seeds, and each of the others comes after any part of a request. A name that ships, one of the configuration and
one of neither are the three fates a deleted row can have at a start.

Symmetry: in `Control_takeover` the operators, requesters and browsers are interchangeable, in
`Delivery_delivery` names, ships, writers, submissions and requests; both check safety only.

Type correctness is no property of a run: for `LaunchTask`, `RunEngine` and `Intake` it is proved, for
`Control` and `Delivery` it is a part of the invariants that are.

Fairness.

* `LaunchTask` `HandlerFairness`: a spawned tokio task or an accepted request keeps being
  scheduled. `AgentFairness`: every session runs under a wall-clock and an idle limit
  (`launch_task_step_runner.rs:1380-1406`, `agent_supervisor/lifecycle.rs:385-404`) and so ends, unless it stands in
  one of the waits that `Stands` of `Supervisor` names; it is a premise of
  the part that says executors end, and `SlotGivenBack` does without it. `SweepFairness`: the sweep ticks for
  ever (`launch_task_liveness.rs:103-127`) and a pass visits every non-terminal run; strong, because a
  run may be terminal and live again (`WritePhase`) between passes. Nothing makes a client send
  a request, and nothing makes a person answer.
* `RunEngine`: `WF(EngineStep)` is the engine's task, `WF(StepStops)` says that a step ends once
  its token has fired (`agent.rs:107-116`, `commands.rs`; the git and gh subprocesses of Prepare and
  CreatePr, which have no such arm, are assumed to end), `WF(SetupKilled)` is the `cancelled()`
  arm of the setup task. No fairness is assumed for steps without a cancel.
* `Supervisor`: a supervisor goes on. The wall clock runs where it is listened to: in the select of a
  terminal, in the adapter's while a structured turn streams, and between two polls in the background.
  `DeadlineArm` is strongly fair, since the background loop comes back to its select after every poll that
  answers, and once the deadline has passed its biased select takes that arm before it sleeps
  (`background.rs:202-219`). A terminal whose child is dead hangs up (`Eof`), for the child leads the terminal's
  session. Nothing is assumed of the agent, of a call of the `claude` command or of a structured turn's stream:
  `SessionEnds` says that a session ends, or stands for good in a wait that `Stands` names.
* `Adapter`: the two tasks run and the clock advances. Nothing is assumed of the child, so
  `TurnSettles` names the two waits in which a turn can stay for ever.
* `Conversation`: `TaskMoves` is a turn's task where it does not wait for its agent, with the
  pump's answer to a fired token; viewers stream on. An agent nobody cancels may be silent for
  ever, for a turn has no time limit.
* `Desktop`: every boot has a thread of its own, whose waits all have a limit.
* `Intake`: weak fairness of the scheduler alone, which is an endless loop; failing visits are
  not fair.

## 4. What is proved

`LaunchTaskProofs`, for all values of the constants, from the assumptions named in `LaunchTask`
(a recipe of at least one step, budgets in `Nat`, actors that are distinct, bounds in `Nat`).

* **`ExclusiveHolds`**: `Spec => []Exclusive`, the mutual exclusion of the registry, with any
  number of executors and cancel requests, and with restarts, failures and dropped handlers.
  `Exclusive` is inductive together with `PCsOK`, the type of the control points: without it
  a control point outside its set could be holding the entry in disguise. Three lemmas say
  what each kind of actor can do to the entry: `DriverMoves` (work never touches it, and is
  only done by a holder), `CancelMoves` and `SweepMoves` (keep away, take a free entry, or
  give the own one back). The step lemma then compares any two actors.
* **`TypesHold`**: `Spec => []TypeOK`. `TypeOK` alone is not inductive: a driver about to
  write step `loc[d].step` needs it to be a step of the recipe, not the position after the
  last one. `StepPlaced` adds that for every control point past `drive`. The lemmas
  `DriverRows`, `DriverLocals`, `DriverPlaced`, `CancelTypes`, `SweepTypes` go actor by
  actor; `FieldUpdates` keeps the record of locals opaque in them.

The rest rests on one invariant, `Ledger`, which adds to the two above
`Placed`: what the rows are while an actor is at each of its places (`DriverPlace`, `CancelPlace`,
`SweepPlace`). A driver between two writes works on rows that another actor may move under it, so
each place says only what the others must leave alone: the steps behind it are settled, the step it
is at is current or about to be, its snapshot is the row or older.

* **`RecipeInOrder`**, **`ContractRefined`**: in all behaviours steps are taken in the order of the
  recipe and the active one is the current one; every step of `LaunchTask` is a step of
  `LaunchTaskContract` or leaves the rows alone. The refinement has one premise, `NoStepWrite`: no
  best-effort write of a step's status fails on its own. With such a failure a task ends over a
  step that still runs, and the contract's `TerminalTaskSettled` is false. **`TerminalStays`** needs no premise.
* **`AgentMatchesRowsHolds`**, **`ResumeAccountedHolds`**: read off the places of a driver.
* **`RunningHasExecutorHolds`**, **`ParkedIsRetryableHolds`**: `Executed` and `Parked` hold until the
  first restart or failure, and each has to be shown for every action up to then.
* **`OneShadowRunHolds`**: `Minted` says that whatever run a step, the cache or a local names is the
  one that was minted, `RunsExist` that it is in the table.

`RunEngineProofs`, for every playbook, checkpoint set, budget and set of cancellers and
operators.

* **`CopyInSyncHolds`** and **`RowFollowsMachineHolds`** rest on one invariant, `Sync`: while
  nobody has cancelled, `mem = row`, except that between `create_interrupt` and the re-read the
  row is `mem` with the state `WaitingHuman`, and that after a restart there is no copy. For
  that, `create_interrupt`'s own copy must be the paused row when it is written (`askWrite`). No run checks the first.
  `Shape` says that the two runs and the copy are runs. `TransitionKeeps` and `MovesKeep`
  treat all actions that write through `transition_to`, and all that do not write, at once.
* **`OneOpenQuestionHolds`**: `Alone` says that every question but the last is settled, and that
  the last one may be open only while the engine waits for it, is on its way to waiting, or has
  left. So the engine asks (`PutKeeps`) only when all are settled, and answers (`SettleKeeps`)
  can only help. Unlike the other two it needs no assumption on cancels and restarts. No run checks it.
* **`TypesHold`**: `Typed` is these with `Rest` and `OnStep`, the locals by control point.
* **`SettledBeforeRunHolds`**: a step behind a checkpoint runs only after a request of its own was
  put and settled. **`ApprovedBeforeRunHolds`**: with one operator (`OneOperator`), it was approved.
  The premise is needed: an answer is written whatever has become of its question since it was
  read, so a second operator's rejection may replace the approval the engine has acted on.
  `Gated` adds to `Typed` that answers are written once (`OneWrites`), to the question the engine
  faces (`Facing`), and what the engine has passed (`Clear`, `Honest`).
* **`OverrideHoldsAlways`**: `Budgeted`, an override grants what was spent when the question was put.
* **`WaitingIsAskedHolds`**: `Facts`, in which rows and copies move together until a cancel.
* **`RunEndsCleanHolds`** has no premise: for any playbook, setup and preflight, a run nobody disturbs ends
  terminal and without a worktree, or as one of the three dead ends leaves it, which the property describes to the
  row and the worktree: `Unbegun` (a failed preflight), `SetupBroke` (a failed setup), `Unfinished` (a
  playbook whose last state is not `OpeningPr`, the only one that may become `Completed`). See "known
  behaviours". The invariant `Ends` follows the position in the playbook (`Course`, `OnTheWay`): at each control
  point the row has the state of the last step entered, which is what the dead ends are recognised by.


`IntakeProofs`, for any number of runs, relations, polls and any bus.

* **`TypeCorrect`**, and from it **`AnnouncedOnceHolds`** and **`AnnouncedOnRecordHolds`**. That no resolution is
  announced twice is not inductive: `QueueInv` adds that between `Diff` and `Emit` a poll holds
  the lock (`LockedPolls`), that what it has found due was open and is fetched as closed
  (`DueTrue`), and the count (`Accounted`): announced, plus due, plus open in the snapshot, is at
  most the number of times the row became open. Each action moves one unit from one place to
  the next.
* **`TrailAlternatesHolds`**: `TrailInv` adds `NewsCarried`, that news on its way to the bus is the
  last row of its run's trail.

`ControlProofs`, for any number of requests, takeovers, closers and browsers.

* **`OneInsideHolds`** and **`AuditChainHolds`** from `Owned`: at most one request is inside a session's
  lock although locks are minted and evicted. `Guarded`: whoever is not idle holds a reference to the
  entry's present lock, so nobody can be inside an older one; and what the one inside has read of the
  owner is the owner still, so each row of the trail starts where the last one ended. `Numbered` keeps
  the events behind the trail.
* **`LeaseIsNewestHolds`**: `Leased`, leases are dealt in order.
* **`ClosedOnRecordHolds`**: `Recorded`, which for every takeover says who still owes its Closed event
  (`Told`), as long as nothing fails.

`DeliveryProofs`, for any number of ships, names, viewers, threads, comments, requests, contexts and
entries. The lemma `Parts` says that a step of `Delivery` is a step of one part and leaves the others'
state alone, so each part has an invariant of its own.

* **`CacheNotStaleHolds`**: `Fetched`, a viewer's head is no newer than what it is about to fetch.
* **`ReviewKeptHolds`**: `Reviewed`. No thread is empty whoever writes (`Grounded`, in which the check
  and the transaction of a writer are apart); while no two submissions overlap, the one at work knows
  the threads it has listed (`InTurn`), and without a failed resolve each comment is posted once.
  `Untouched` and `Quiet` say what the other requests leave a submission.
* **`BranchAgreesHolds`**: `Delivered`, with `OneRenames` (two ships cannot both be past the check of
  the artifacts, for two requests in all) and `OneByOne` (without a clash, ships follow each other). `LocalFollows`
  makes the first half hold for any number of ships one after another: the name a ship has planned is
  the one its rename gives to both. What is excluded is a third ship beside two that have met: it can take
  the old name back between their writes.
* **`OrchestratorKeptHolds`**, **`NotesKeptHolds`**, **`WishesKeptHolds`**: `Followed`, `Ledger`, `Attended`. For the pages of a
  ledger, `Walking` relates what a walk has shown to its cursor: everything that was there when the
  walk began is shown or older than the cursor. `WindowHasAll` is the lemma that needs it: a page that is
  not full holds all that is left.

* **`DefinitionsKeptHolds`**: `Defined`, for any names, shipped or configured, any requests and restarts.
  That a deleted skill is not put back needs the tombstone (`Buried`): an absent shipped skill is `Tombed`, with a
  tombstone, about to get one, or `cut`; and so is one whose row, or the row a request is about to write or drop,
  is not the shipped one. That only what is shipped is marked so needs the same of the row a patch has
  read (`Fits`). That the catalog is the table needs `Rebuilt`: while nothing
  is astray an agent's request is alone at its table (`Orderly`), its list is the table when it swaps, and the
  catalog lags only while such a request is on its way to the swap. `Unharmed` is the same of an import: as
  long as it is alone, what it has looked up is still free to write.

`SupervisorProofs`, for any set of sessions, from one invariant, `Supervised`. Sessions share the
registry and the cleanup timers only (`Attached`); what is known of one is disturbed by its own
steps and by a restart alone.

* **`StepResultKeptHolds`**: `Scanned`. A value in the scanner's channel, or put aside while the session
  waits for its end, is what the scanner makes of all that was said, because only a usable block is
  sent before the terminal closes. The property alone speaks of the end, where this is no longer visible.
* **`RegistryFollowsHolds`**: `Attached`. The map is by run, so a second session of the run takes the
  entry over, and the timer of the first removes it; the theorem says that nothing else does.
* **`SessionContractRefined`**: `OnRecord`, the row and the phases at each control point, where a lost
  write may leave the row behind. All but the writes of the row and of a phase stutter.

`ConversationProofs`, for any requests, cancels, viewers and capacity of the bus.

* **`ActiveHasTaskHolds`**: `TurnsKept`. A turn belongs to the request that made it until that request
  spawns its task (`Requests`), and a task that has closed has settled its row (`TurnKept`): an end
  is appended only after the row says so, and the stream ends only after an end.
* **`ShownInOrderHolds`**: `ViewsKept`. Of a viewer's turn, `Sent` events have gone over the bus. What waits
  in its inbox is consecutive and ends with the last one sent (a full inbox loses at the front, and
  says so), and it joins what the viewer was shown: once it listens and has not lagged, nothing that
  was sent is missing between the two. That is why it subscribes before it reads the history. `CatchesUp`
  is the step all reads of the database share, `TakesNext` the one of the bus, `ReceiveKeeps` what
  a publish does to an inbox.
* **`ConversationRefined`**: from both. A viewer's step is a `Show` of the events it adds, or a stutter
  when there are none; a publish changes nothing a reader of the contract sees.

`ProcessProofs`, for any projects, boots and deaths, and for any channel and any child.

* **`SlotSafeHolds`** (`Desktop`): `Slotted`. A server that is in the slot, or in somebody's hand, is
  past its own store (`Stored`), so none is counted twice and none is still to be spawned; a thread
  has a server in hand exactly while it stops one, never a newer one, and only a dead one is let go
  (`Thread`). From the moment the newest boot has emptied the slot nobody fills it until that boot
  stores (`Vacant`): every other boot is stale by then, and a stale one hands its child back. That
  is what the comment of `store_server` bets on. The threads share one lemma, `ThreadMoves`: what a
  boot may do to its own row, its server and the slot without disturbing another.
* **`RecordTellsTheTurnHolds`** (`Adapter`): `Told`. What was published is one stream, `Stream`: the rows,
  the event in the consumer's hand and the channel, in this order. Receiving and ingesting move
  an event along it and leave it the same, a send appends the next number, and the pump's last
  ending is the last of the stream (`EndingSent`). An ending that the pump makes up itself, of a
  cancel, a timeout or an exit, is only ever sent with the child dead (`Stopping`), and the consumer
  ends with an empty channel unless its watchdog has tripped (`Consuming`).

`HandoverRules` (in `ControlProofs`), for all rows a snapshot is built from and every handoff.

* **`FocusIsOneStep`**, **`KeyIsResumable`**: one step stands for the task, and the key is the newest that a
  session in the foreground has left. **`RunBlocksFirst`**: a stuck run is what blocks, whatever the
  task says; **`WaitingIsListed`**: everything that waits for a person is listed.
* **`FilesListedOnce`**: no path twice and none lost, by induction on the files.
* **`ProseIsMasked`**: no prose of a snapshot holds a secret the patterns know. The issue's body is cut to its
  excerpt before it is masked (`truncate_chars`), so part of a secret shows exactly if the cut falls in one
  whose rest no pattern knows. Names are not masked: the theorem says that worktree and branches go out as the
  run's row has them, and agents as the steps'. **`HandoffFits`**, **`FinalIsFinal`**: the fields
  of a handoff fit its status, and which statuses have no way out.

`QueueBuckets` (in `IntakeProofs`), for every card and any sets of issues and states.

* **`ReasonFitsQueue`**: the reason printed on an operator card speaks of the queue the card is in,
  for every run that is not terminal. **`DoneCardNamesWhatIsOpen`** says what happens for the
  others: a completed run with a pending question sits under done and prints the question.
* **`ActiveRunsAreSeen`**: trimming the queue never hides an active run. **`LaunchableIsFree`**: an
  issue offered for launch has no active run, no open blocker and waits for no approval.

`AgentRules` (in `SupervisorProofs`), for every set of names and servers and every catalog over them. The one
assumption is that a catalog is a catalog (`Catalogs`).

* Resolving. **`ResolvedHasRunner`**: whatever resolves has a runner and a billing of its own, and the
  step's executor has the last word on the mode. **`PolicyGuardsCatalog`**: an agent named in the
  catalog is authorised by the policy. **`ResumeKeepsProvider`**: a structured executor is always
  the same provider's and goes to the adapter, so a resume key meets its own CLI.
  **`DeletedAgentResolves`**: a step outlives its agent iff its own fields have a runner.
* Spawning. **`AuditIsBounded`**: the servers on record are wanted, known and for Claude only, and
  live Linear access is on record only with its server. **`AuditReachesTerminals`**: the recorded
  servers reach the command line in a terminal, and nowhere else. **`PromptGoesOneWay`**: the prompt
  is an argument or is written to the child, never both, never neither. **`OneDirective`**: at most
  one directive to a skill. **`LeanNamesWhatIsThere`**: a lean prompt names a file that exists.
* Taking over. **`BadgeIsTheChats`**: the menu's badge looks at the chat, the takeover at the snapshot first; it says
  exactly when the badge is fake (the snapshot knows Codex, or Claude without a key) and when a resume goes unannounced.

`OutcomeRules` (in `SupervisorProofs`), for every result a session can leave, every worktree and every list of agents.

* **`CleanIsEarned`**, **`OnlyTheAgentFails`**, **`CompletedIsNoFailure`**, **`HintsExplain`**: which signals
  complete a step, which end it for good, and when the transcript is blamed at all.
* **`TrackedChangesDecide`** and **`ResumeNeedsAll`**: what git is believed to say of progress, also where it
  cannot be started (counts as a change) or runs and fails (counts as none).
* **`BackgroundOutcome`**: every end of a background session, and that none is resumed; it uses
  `CleanIsEarned`. **`OwnSession`**: if its name is its own (the code names it after its step row, a
  new one per segment), the list never yields another session.

Induction. The library's theorem takes a predicate as a parameter, which the provers cannot
instantiate; where an argument is an induction over a length or a cardinality, it goes through
`WFMin` instead: the set of the lengths for which the claim fails has a least member.

Every invariant a run checks of a machine is proved. Only model-checked: the scanners of the outcome
rules (they are `RECURSIVE`), the review and definition rules, and every liveness property (fairness and `ENABLED` are out of
this prover's reach). The modules cap their counters by bounds in the guards; what is proved
holds for every value of those bounds.

## 5. Where the code and its text disagree

The violation run has a `finding` in `PROJECT.json` with the quoted line: two requests that start
a turn both find none active and both insert one (`admission`).

### Known behaviours

Met while modelling; each is in the model unless it says otherwise, and none is what a run states.
File names are those of section 1.

Launch tasks:

* a task that is Pending at a restart is never reconciled: the sweep enumerates runs and it has
  none (`handlers/launch_tasks.rs:251` says it is);
* the sweep takes a run that is inserted and not yet linked for an orphan, without the registry
  gate, under a live executor (`launch_task_executor.rs:1029`, against `launch_task_liveness.rs:12`);
* a sweep that is cut between the run's write and the task's leaves the task Running with a
  terminal run, which no later pass looks at: "abort" is therefore no fault of `recovery`;
* a cancel answered `signalled: true` is lost if the executor parks the step next
  (`launch_task_executor.rs:891-902` reads the token once);
* `terminalize_shadow_run` may write a terminal run again; `executor.cancel` on its reserved
  path writes the run (`:454`), though `run_service.rs:153` takes `cancel_run` for the sole writer;
* `set_shadow_run_state` writes the row it read at the start of the step
  (`launch_task_step_runner.rs:728`).

Playbook runs:

* the built-in playbook needs Coding → Reviewing, which `RunState` lacks (`step_engine/mod.rs:249`);
* a failed preflight leaves the run Queued for ever, since Queued cannot fail (`:172`, `:1109`);
* a failed setup command (`:222`) makes the engine return with the run in a working state and its
  worktree in place; a playbook that does not end in a pull request leaves the run at its last state: these
  and the failed preflight are the dead ends of `RunEndsClean`;
* a cancel that finds the engine at a gate makes it return by `?`, without
  `handle_cancellation` and without removing the worktree (`:1284`, `:194`);
* two answers to one question are both accepted, the later one recorded
  (`attention_service.rs:119`); a withdrawn approval request leaves the engine polling until the
  run is cancelled (`:141`);
* `abort_setup_handle` says the token is cancelled by then; on the paths from `fail_run` and
  from the gates it is not, and a setup command that hangs keeps the engine (`step_engine/mod.rs:1200`);
* `cancel_run` writes back the whole run it has read: a worktree path written meanwhile is lost
  (`run_service.rs:179`); its owning step may be stale (`:145`);
* the engine's whole-row update revives a run that `cancel_run` has made terminal
  (`step_engine/mod.rs:262`, against `core/run.rs:34`): `RowFollowsMachine` is about the time before a cancel;
* nobody resumes a playbook run after a restart (`superkick-api/src/lib.rs:505`).

Sessions and turns:

* the delayed cleanup removes by run id and takes a later session's terminal (`lifecycle.rs:438`);
  with a swarm several terminals share one entry;
* a spawn that fails leaves the row Starting with only Spawning published; on a terminal, a
  failed row update leaves the child and its registry entry for ever;
* `output_task.await` has no limit (the model lets a dead child's terminal close); a background
  stop that fails is ignored; misses and errors of polls do not reset each other;
* a Completion already published is overridden by a cancel, deadline or watchdog that comes
  before the pump leaves its loop (`claude.rs:510`, `protocol.rs:55`);
* the pump is deaf at `child.wait()` (`claude.rs:449`, `codex.rs:429`), and a watchdog's consumer and the pump may
  wait for each other on a full channel (`structured.rs:121`): the two disjuncts of `TurnSettles`, and two of `Stands`;
* the `claude` commands that poll and stop a background session have no time limit (`claude_background.rs:396`,
  `:281`) and are awaited outside the select or in its arms (`background.rs:223`, `:187`): the others of `Stands`;
* a kill reaches the direct child only.

Conversations:

* with no `Last-Event-ID` a viewer that lags or is subscribed late can miss event 0
  (`conversation_runner.rs:495`): `ShownInOrder` allows a first event 1;
* a viewer that subscribes after the turn's bus was closed has a fresh channel nobody writes;
* a cancelled turn is revived by `mark_streaming` (`sqlite/conversations.rs:372`);
* a start request dropped between insert and spawn leaves a pending turn that blocks the
  conversation until it is cancelled; a turn has no time limit (`conversation_runner.rs:622`).

Control:

* a takeover's watchdog may unregister before the opener registers: the entry stays, a ghost;
* Closed may come before Opened, and two Closed events come from two closes, or from a close and
  the watchdog (`terminal_takeover.rs:245` promises one); a close dropped after its flag records none;
* `close` leaves the child alive: reader and watchdog hold the terminal (`:242`);
* a browser that lost its lease keeps writing, its right is read once at connect (not modelled);
* a dropped ownership handler leaves its lock entry; nothing calls suspend and resume.

Intake:

* every save of an engine writes `last_heartbeat_at = NULL`, so a run with sessions can be
  reported as never dispatched (`recovery.rs:119`), and a save without a transition can make a
  stall out of a run with a recent heartbeat;
* a stale fetch announces a resolution after the relation was reopened and closed again, since the
  fetch precedes the lock; a restart between persist and emit loses an announcement;
* the guard against a second active run is check-then-insert: migration 046 dropped the index
  `runs.rs:53` still cites; launching does not check the cap the queue shows.

Delivery:

* three ships that rename there and back, two of them at once, can leave worktree and row naming different branches;
  with two ships at once a rename between `Recheck` and `Create` orphans the head of the pull request;
* a failed query of the artifacts reads as "no pull request", so the rename proceeds
  (`pull_request_service.rs:349`);
* a row made from the artifact overwrites a newer one and blanks its head (`:311`); a terminal row
  is never synced again, so a reopened pull request shows closed;
* a pull request that is created and not upserted has no row, and shipping again fails on its head;
* a comment added between the listing of a submission and the resolving of its thread is resolved
  unposted: `NothingDropped` excepts it (`unread`); two submissions at once post twice; a thread read
  while its comments go is posted with an empty body;
* files fetched after a push are cached under the older head.

Records:

* a patch that overlaps a checkpoint or another patch writes back what it had read: the pointer and
  the cursor roll back, and a completed session may be idle again (`sqlite/orchestrator_sessions.rs:127`);
  `SessionFollows` excepts it (`tangled`);
* two first requests for an issue that pass `ensure_context_for_issue` together attach two contexts, and
  the entries of the older one are hidden from then on: `LedgerKept` excepts it (`raced`);
* `sqlite/memory_entries.rs:8-10` says that an entry written between two calls "will reappear at the top
  of the next page"; the next page holds what is older than the cursor, so it shows on a fresh walk only;
* an intervention that targets a step which is over is accepted and never delivered; one whose
  delivery could not be recorded is delivered again;
* the web UI launches with the issue's identifier (`src/apps/web/src/domains/launch/components/LaunchComposer.tsx:140`),
  the runtime looks the context up by Linear's uuid (`launch_task_context.rs:121`), so a task launched
  there runs without the ledger (not modelled: an issue has one id here).

Definitions:

* a shipped agent that was deleted is back after the next start: `superkick-api/src/lib.rs:333` merges
  `config.agent_catalog()`, which has the shipped agents too, without asking the tombstones, against
  `agent_service.rs:95` ("so `seed_defaults` never re-inserts them on the next boot"); so is a deleted agent
  of `superkick.yaml`: `PutBack`;
* a delete of a shipped skill that is cut between row and tombstone, by a restart, a dropped request or an error,
  comes back at the next start (`handlers/skills.rs:79-86`, and `agent_service.rs:104-106` for agents): `cut`. The same
  name may then have been a custom one in between; deleted as such it gets no tombstone, and the shipped one is back;
* a patch may clear `is_readonly` of a shipped profile, which can then be deleted, has no tombstone, and is
  seeded again: `PutBack`;
* migration 054 says that re-creating a custom one clears the tombstone; no create does;
* an agent of `superkick.yaml` named as a shipped one is meant to override it (`config/src/model.rs:34`), but the seed
  inserts the shipped one first and the merge takes only what is absent;
* a request that lists the agents before another's write and swaps its list in after the other's, or one that ends
  between its write and its swap, leaves the catalog behind the table until the next write or start:
  `CatalogFollows` excepts these two (`late`, `astray`), and no other meeting of writes;
* an import looks all up before it stores, so a skill created meanwhile is overwritten (`clobbered` counts
  only imports that were alone);
* `core/src/skill.rs:200` says that a shipped skill cannot be deleted; the handler deletes it, with a tombstone.

Definition rules:

* the shipped planners ask for the Linear server "so a fresh install can query issues"
  (`role_router.rs:249`), but the registry gets it only for agents of the file that use the short form
  (`config/src/model.rs:418`): with the defaults nobody has it (`LinearChecked`);
* each edit of `superkick.yaml` reads and writes the whole file, so of two at once one is lost (not modelled);
* a link with another name leads into a directory the walk prunes; a file whose stem looks like a credential is
  offered and refused at the import;
* a url that ends in `.git/` keeps its `.git`.

Handover rules:

* a snapshot pairs the provider of the focus step with the newest key there is, which may be another
  provider's (`run_context_snapshot_builder.rs`);
* a failed handoff counts as terminal and may yet become escalated; no service of the repository creates
  a handoff or moves one;
* the issue's body is cut before it is masked (`run_context_snapshot_builder.rs:90-95`), so a secret at the cut may
  show in part; the paths of changed files and of the worktree, branches, agents, the issue's identifier and
  the pointer to its ledger are not masked; a snapshot's row outlives its task, for
  `run_context_snapshots` has no foreign key.

Review rules:

* a failed lookup of the viewer is cached for the life of the process, and the inbox stays empty of requests;
* an inbox item bears the project's default slug, whichever repository it comes from;
* a reviewer who is asked again is shown with the old verdict; reviewers are told apart by exact spelling,
  buckets ignore case;
* a thread over several lines is posted at its first line; a copied file reads as added;
* requests are dated by the pull request's last update;
* `run_diff.rs:24-27` says that files beyond the limit appear as metadata, they are dropped;
* a removed line that starts with `--`, or an added one with `++`, is not counted; the patch of a renamed file
  is taken by its new path alone and so shows it as wholly added.

Agent rules:

* a structured Claude of a launch task, and a background one, never get `--mcp-config`, although the
  audit names the servers and the mode "the child saw" (`agent_spawn.rs:72`): `AuditReachesTerminals`;
* their prompt is cloned before `apply_claude_backend`, so a skill or sub-agent directive never
  reaches them though the audited command says `backend=…`;
* a dynamic step resolves with `RunPolicy::allow_all` (`role_router.rs:7` speaks of roles "authorised
  by the run policy"): `PolicyGuardsCatalog` is about the other two ways;
* a workspace context block replaces the snapshot's and drops the read-only directive; a lean prompt
  drops both;
* composing checks the session policy against the executor, not the provider; a policy other than
  fresh has no effect at launch; orderings a composer edited may repeat;
* `ResolvedToolPolicy::default()` does not persist results, its doc says that is the default;
* a v1-recipe step may change provider between two segments when its agent is edited;
* the resume badge is decided from the chat alone, the takeover prefers the snapshot
  (`cli_resume.rs:78` against `:43`);
* a playbook runs a background agent in a terminal, with its prompt in the argument list.

Step outcomes:

* `GitDiffProbe` means a failing git not to count as "no diff" (`step_failure_classifier.rs:49`, `:98`). That holds
  where git cannot be started or the probe is lost (`:115-121`, `:84`: the step completes), but
  any exit code other than 1 counts as no diff; and `git diff HEAD` sees neither new files nor commits, so an
  implement step that only makes those is parked, while the snapshot of the resume gate does see
  new files: `TrackedChangesDecide`;
* a child killed by a signal has no exit code and is judged by its marker, as if it had exited with 0;
* a background session that polls cannot find or reach is failed for good, though it may be working;
* a marker block whose END lacks its newline is not scanned (`step_result_marker.rs:72`), and the
  prompt's own example block, on a screen with no other, reads as malformed: `EchoChecked`;
* `classify_spawn_error` takes any error with "not found" in it for a missing CLI.

Desktop:

* selecting a project twice boots twice, and both servers share the port file, so a boot may read
  the port of the server it is about to replace;
* a quit between spawn and store leaves the child running (`supervisor.rs:158`).

## 6. Not modelled, and the plan

Prompts and listing queries carry no state the properties read. Worktrees and the repository
cache, integrations beyond what the review rules read of GitHub, boot overrides, the CLI and the web
UI are not modelled: I/O, mirrors of other systems and screens.

What could be proved next: what `map_threads_to_comments`, `collect_run_diff` and `push_unique` keep.
