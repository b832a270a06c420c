---------------------------- MODULE HandoverRules ----------------------------
(***************************************************************************)
(* What one session leaves to the next.  The snapshot of a launch task is  *)
(* derived from its rows whenever somebody asks: where the task is, what   *)
(* blocks it, what waits for a person, which files were touched, which     *)
(* provider session may be resumed.  It is masked, capped and rendered for *)
(* a takeover.  A handoff is the typed record that moves work between      *)
(* sessions.  An optional value is a set of at most one element.           *)
(***************************************************************************)
EXTENDS Naturals, Sequences, FiniteSets

Absent == {}
OrElse(value, default) == IF value = Absent THEN default ELSE value

\* find_map from the front and, with rev(), from the back.
FirstOf(found) == {i \in found : \A j \in found : i <= j}
LastOf(found)  == {i \in found : \A j \in found : j <= i}

-----------------------------------------------------------------------------
(* Redaction.  A text is the set of its fragments.                         *)

Shapes == <<"bearer_token", "aws_access_key", "openai_api_key", "basic_auth_url", "github_pat">>
Secrets == {Shapes[k] : k \in DOMAIN Shapes}

\* The kind of the first pattern that matches; and every match masked.
scan(text)   == {Shapes[k] : k \in FirstOf({j \in DOMAIN Shapes : Shapes[j] \in text})}
redact(text) == IF text \cap Secrets = {} THEN text ELSE (text \ Secrets) \cup {"masked"}

\* The same for a text that may be missing.
Masked(text) == {redact(t) : t \in text}

\* truncate_chars: of a text in its order, the fragments before the cap and what
\* is left of the one the cap falls in.  The patterns know a whole secret; what
\* is left of one they may know (caps.known) or not.
AtCap(fragment, caps) == IF fragment \in Secrets /\ ~caps.known THEN "secret_part" ELSE fragment
truncate_chars(text, caps) ==
    {text[i] : i \in {j \in DOMAIN text : j <= caps.body}}
        \cup {AtCap(text[i], caps) : i \in {j \in DOMAIN text : j = caps.body + 1}}

-----------------------------------------------------------------------------
(* The rows.  current_step_id names a step by its place; the reason a step *)
(* failed and its summary are optional texts, the files and questions of   *)
(* its result are empty if it has none.                                    *)

RunStates == {"working", "waiting_human", "completed", "failed", "cancelled"}

\* A launch task has one shadow run, linked from its steps.
linked_run(steps) ==
    UNION {steps[i].run : i \in FirstOf({j \in DOMAIN steps : steps[j].run # Absent})}

current_step(task, steps) == task.current \cap DOMAIN steps

\* The step whose agent stands for the task: the current one, else the last one
\* that was started, else the first.
focus_step(task, steps) ==
    OrElse(current_step(task, steps),
           OrElse(LastOf({i \in DOMAIN steps : steps[i].status # "pending"}),
                  FirstOf(DOMAIN steps)))

\* The newest resume key; what a background session keeps there is none.
Keyed(sessions) == {i \in DOMAIN sessions : sessions[i].mode # "background" /\ sessions[i].key # Absent}
provider_session(sessions) == UNION {sessions[i].key : i \in LastOf(Keyed(sessions))}

\* Why it failed, why it waits: the last step that says so.
failure_reason(steps) ==
    UNION {steps[i].failure : i \in LastOf({j \in DOMAIN steps : steps[j].failure # Absent})}
needs_human_reason(steps) ==
    LET Told(i) == OrElse(steps[i].failure, steps[i].summary)
    IN  UNION {Told(i) : i \in LastOf({j \in DOMAIN steps : steps[j].status = "needs_human" /\ Told(j) # Absent})}

Blocks(kind, reason) == {[kind |-> kind, reason |-> r] : r \in Masked(reason)}

\* The run first: retrying acts on it.
BlockingRun(run, steps) ==
    IF run.state = "waiting_human"
        THEN Blocks("run_waiting_human", OrElse(run.pause_reason, OrElse(needs_human_reason(steps), {{"waiting"}})))
    ELSE IF run.state = "failed"
        THEN Blocks("run_failed", OrElse(run.error, OrElse(failure_reason(steps), {{"failed"}})))
    ELSE IF run.state = "cancelled" THEN Blocks("run_cancelled", {{"cancelled"}})
    ELSE IF run.paused THEN Blocks("run_paused", OrElse(run.pause_reason, {{"paused"}}))
    ELSE Absent

BlockingTask(task, steps) ==
    IF task.status = "needs_human"
        THEN Blocks("task_needs_human", OrElse(needs_human_reason(steps), {{"needs human"}}))
    ELSE IF task.status = "failed"
        THEN Blocks("task_failed", OrElse(failure_reason(steps), OrElse(task.summary, {{"failed"}})))
    ELSE Absent

derive_blocking(task, run, steps) ==
    OrElse(UNION {BlockingRun(r, steps) : r \in run}, BlockingTask(task, steps))

Decision(kind, step, text) == {[kind |-> kind, step |-> step, detail |-> t] : t \in Masked(text)}

RunDecisions(run) ==
    (IF run.paused THEN Decision("run_paused", Absent, OrElse(run.pause_reason, {{"paused"}})) ELSE {})
    \cup IF run.state = "waiting_human" THEN Decision("run_waiting_human", Absent, {{"waiting"}}) ELSE {}

StepDecisions(i, step) ==
    (IF step.status = "needs_human"
        THEN Decision("step_needs_human", {i},
                      OrElse(step.failure, OrElse(step.summary, {{"needs human"}}))) ELSE {})
    \cup Decision("open_question", {i}, {step.questions[q] : q \in DOMAIN step.questions})

derive_pending_decisions(task, run, steps) ==
    (IF task.status = "needs_human"
        THEN Decision("task_needs_human", Absent, OrElse(task.summary, {{"needs human"}})) ELSE {})
    \cup (UNION {StepDecisions(i, steps[i]) : i \in DOMAIN steps})
    \cup (UNION {RunDecisions(r) : r \in run})

-----------------------------------------------------------------------------
(* Pointers, with their caps                                               *)

\* first_paths: every path once, in the order they were first reported.
first_paths(files) ==
    LET Paths[n \in 0 .. Len(files)] ==
            IF n = 0 THEN <<>>
            ELSE IF \E k \in DOMAIN Paths[n - 1] : Paths[n - 1][k] = files[n] THEN Paths[n - 1]
            ELSE Append(Paths[n - 1], files[n])
    IN  Paths[Len(files)]

Firsts(s, n) == SubSeq(s, 1, IF Len(s) < n THEN Len(s) ELSE n)
Lasts(s, n)  == SubSeq(s, IF Len(s) > n THEN Len(s) - n + 1 ELSE 1, Len(s))

aggregate_changed_files(steps, cap) ==
    LET Listed[i \in 0 .. Len(steps)] == IF i = 0 THEN <<>> ELSE Listed[i - 1] \o steps[i].files
        paths == first_paths(Listed[Len(steps)])
    IN  [paths |-> Firsts(paths, cap), truncated |-> Len(paths) > cap]

-----------------------------------------------------------------------------
(* The whole projection.  db are the rows of the runs and of the issue.    *)
(* Prose is masked; names are carried as the rows have them: agents, the   *)
(* worktree with its path and branches, the paths that changed, the        *)
(* identifier of the issue and the pointer to its ledger.                  *)

build_run_context_snapshot(task, steps, db, caps) ==
    LET id  == linked_run(steps)
        run == UNION {db.runs[r] : r \in id}
        focus == focus_step(task, steps)
    IN  [run_id    |-> id,
         steps     |-> [i \in DOMAIN steps |-> [status  |-> steps[i].status,
                                                agent   |-> steps[i].agent,
                                                summary |-> Masked(steps[i].summary),
                                                failure |-> Masked(steps[i].failure)]],
         task      |-> [status |-> task.status, summary |-> Masked(task.summary),
                        objective |-> Masked(UNION {r.objective : r \in run})],
         run       |-> {[state |-> r.state, error |-> Masked(r.error)] : r \in run},
         current   |-> current_step(task, steps),
         provider  |-> UNION {steps[i].provider : i \in focus},
       agent     |-> {steps[i].agent : i \in focus},
         session   |-> UNION {provider_session(db.sessions[r]) : r \in id},
         worktree  |-> {r.worktree : r \in run},
         changed   |-> aggregate_changed_files(steps, caps.files),
         events    |-> {[k \in DOMAIN Lasts(db.events[r], caps.events) |->
                            redact(Lasts(db.events[r], caps.events)[k])] : r \in id},
         decisions |-> derive_pending_decisions(task, run, steps),
         blocking  |-> derive_blocking(task, run, steps),
         memory    |-> {c.ledger : c \in db.context},
       issue     |-> {[identifier |-> c.identifier, title |-> redact(c.title), status |-> redact(c.status),
                       body |-> redact(truncate_chars(c.body, caps))] : c \in db.context}]

\* refresh: the cache row is replaced by what was derived, or is left.
refresh_run_context_snapshot(snapshot, cached, written) == IF written THEN {snapshot} ELSE cached

\* render_for_takeover: what is listed and how many more it speaks of.
render_for_takeover(snapshot, caps) ==
    LET paths == snapshot.changed.paths IN
    [files  |-> Firsts(paths, caps.render_files),
     more   |-> IF Len(paths) > caps.render_files THEN Len(paths) - caps.render_files ELSE 0,
     plus   |-> paths # <<>> /\ snapshot.changed.truncated,
     events |-> {Lasts(e, caps.render_events) : e \in snapshot.events},
     blocked |-> snapshot.blocking, pending |-> snapshot.decisions]

\* A resumed session gets one line, a fresh one the whole block.
opening_context(snapshot, resumed, caps) ==
    {IF resumed THEN "header" ELSE render_for_takeover(s, caps) : s \in snapshot}

-----------------------------------------------------------------------------
(* Handoffs                                                                *)

HandoffEdges ==
    [pending   |-> {"delivered", "superseded"},
     delivered |-> {"accepted", "failed", "superseded"},
     accepted  |-> {"completed", "failed", "superseded"},
     failed    |-> {"escalated"},
     completed |-> {}, escalated |-> {}, superseded |-> {}]
HandoffStatus == DOMAIN HandoffEdges
is_terminal(status) == status \in {"completed", "failed", "escalated", "superseded"}

\* What the constructor refuses.
valid_payload(payload) ==
    /\ payload.kind \in {"plan", "implement", "review", "escalate"} => payload.text # ""
    /\ payload.kind = "fix" => payload.findings > 0
    /\ payload.kind = "escalate" /\ payload.attention = "decision" => payload.options > 0

\* The record, with its optional parts: the session it went to, a result, a
\* failure and in it the request it was escalated as, the two times.
Handoffs(Sessions, Requests) ==
    [status : HandoffStatus, session : SUBSET Sessions, result : BOOLEAN, failure : BOOLEAN,
     attention : SUBSET Requests, delivered : BOOLEAN, ended : BOOLEAN]

new_handoff ==
    [status |-> "pending", session |-> Absent, result |-> FALSE, failure |-> FALSE,
     attention |-> Absent, delivered |-> FALSE, ended |-> FALSE]

\* transition: along an edge, or not at all.
Moved(h, target, moved) == IF target \in HandoffEdges[h.status] THEN {moved} ELSE {}

mark_delivered(h, session) ==
    Moved(h, "delivered", [h EXCEPT !.status = "delivered", !.session = {session}, !.delivered = TRUE])
mark_accepted(h) == Moved(h, "accepted", [h EXCEPT !.status = "accepted"])
complete(h)      == Moved(h, "completed", [h EXCEPT !.status = "completed", !.result = TRUE, !.ended = TRUE])
fail(h)          == Moved(h, "failed", [h EXCEPT !.status = "failed", !.failure = TRUE, !.ended = TRUE])
escalate(h, request) ==
    Moved(h, "escalated", [h EXCEPT !.status = "escalated", !.failure = TRUE, !.attention = {request}, !.ended = TRUE])
supersede(h)     == Moved(h, "superseded", [h EXCEPT !.status = "superseded", !.ended = TRUE])
=============================================================================
