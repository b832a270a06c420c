---------------------------- MODULE OutcomeRules ----------------------------
(***************************************************************************)
(* From the end of an agent to the outcome of its step: what its transcript *)
(* and its step-result marker say, what its worktree shows, how a           *)
(* background session is found and judged, the one classification these    *)
(* signals get, and whether a step that timed out is resumed.              *)
(***************************************************************************)
EXTENDS Naturals, Sequences, FiniteSets

StepKind == {"plan", "implement", "review"}

-----------------------------------------------------------------------------
(* What the transcript says                                                *)

\* The patterns FailureHintScanner looks for, and those of a provider; Codex
\* has none yet.  Hints are the set of patterns seen.
Patterns == {"quota", "reset", "auth", "tests"}
PatternsOf(provider) == IF provider = "claude" THEN Patterns ELSE {}

\* handle_line: a line matches a set of patterns, and what was seen stays seen.
handle_line(provider, hints, line) == hints \cup (line \cap PatternsOf(provider))

\* feed and into_hints: every line, the last one without its newline included.
into_hints(provider, lines) ==
    LET hints[n \in 0 .. Len(lines)] ==
            IF n = 0 THEN {} ELSE handle_line(provider, hints[n - 1], lines[n])
    IN  hints[Len(lines)]

\* StepResultScanner: the block it is inside of, if any, and the last one that
\* was closed, each a list of lines.
Outside == [open |-> FALSE, body |-> <<>>, closed |-> FALSE, last |-> <<>>]
scan_line(s, line) ==
    IF line = "BEGIN" THEN [s EXCEPT !.open = TRUE, !.body = <<>>]
    ELSE IF ~s.open THEN s
    ELSE IF line = "END" THEN [open |-> FALSE, body |-> <<>>, closed |-> TRUE, last |-> s.body]
    ELSE [s EXCEPT !.body = Append(@, line)]

\* finish: what the lines of an agent amount to.  A last line that has no
\* newline is never scanned.
finish(lines, ended) ==
    LET scanned[n \in 0 .. Len(lines)] ==
            IF n = 0 THEN Outside ELSE scan_line(scanned[n - 1], lines[n])
        end == scanned[IF ended \/ lines = <<>> THEN Len(lines) ELSE Len(lines) - 1]
    IN  [closed |-> end.closed, last |-> end.last]

\* What its block says once parsed: one line with a status, or it is malformed.
Marker == {"completed", "needs_human", "failed", "none", "malformed"}
marker_of(found) ==
    IF ~found.closed THEN "none"
    ELSE IF found.last \in {<<s>> : s \in {"completed", "needs_human", "failed"}} THEN found.last[1]
    ELSE "malformed"

-----------------------------------------------------------------------------
(* What the worktree shows                                                 *)

\* A worktree against HEAD; the changes of an agent that commits are in HEAD.
\* runs: git can be started in its directory; repo: git finds a repository.
Worktree(Content) == [runs : BOOLEAN, repo : BOOLEAN, tracked : Content, untracked : Content]

\* The exit of `git diff --quiet HEAD`: 1 if tracked files differ, 0 if not,
\* another if git gives up; none if it cannot be started or is not awaited.
DiffQuiet(w, clean) ==
    IF ~w.runs THEN "none"
    ELSE IF ~w.repo THEN "128" ELSE IF w.tracked # clean THEN "1" ELSE "0"

\* A probe that did not run counts as a change, one that failed does not.
has_changes(w, clean) == DiffQuiet(w, clean) \in {"none", "1"}

\* probe_for: only an implement step is asked.
probe_for(kind, w, clean) == kind # "implement" \/ has_changes(w, clean)

\* compute_diff_snapshot and same_as.
Unknown == [known |-> FALSE]
compute_diff_snapshot(w) ==
    IF w.runs /\ w.repo THEN [known |-> TRUE, tracked |-> w.tracked, untracked |-> w.untracked] ELSE Unknown

same_as(a, b) == a.known /\ b.known /\ a = b

-----------------------------------------------------------------------------
(* The classification                                                      *)

\* AgentResult: the phase the session ended in, its exit code if it has one,
\* its marker, its hints, and whether it left a key to resume with.
ExitCode == {"zero", "nonzero", "none"}
AgentResults ==
    [phase : {"Completed", "Failed", "TimedOut", "Cancelled"}, exit : ExitCode, marker : Marker,
     hints : SUBSET Patterns, key : BOOLEAN]

classify_from_hints(hints, otherwise) ==
    IF "quota" \in hints THEN "quota_exceeded"
    ELSE IF "auth" \in hints THEN "auth_required"
    ELSE IF "tests" \in hints THEN "tests_failed" ELSE otherwise

classify_marker_outcome(marker, changed) ==
    IF marker = "completed" THEN (IF changed THEN "clean" ELSE "no_diff")
    ELSE IF marker = "needs_human" THEN "agent_needs_human" ELSE "agent_failed"

\* "clean" is the code's None.
classify(r, changed) ==
    IF r.phase = "TimedOut" THEN "timeout"
    ELSE IF r.exit = "nonzero" THEN classify_from_hints(r.hints, "non_zero_exit")
    ELSE IF r.marker = "malformed" THEN "malformed_marker"
    ELSE IF r.marker = "none" THEN classify_from_hints(r.hints, "missing_marker")
    ELSE classify_marker_outcome(r.marker, changed)

\* A session that never came to be: a missing binary, or anything else.
classify_spawn_error(detail) == IF detail = "missing" THEN "cli_missing" ELSE "spawn_error"

Classification ==
    {"missing_marker", "malformed_marker", "agent_completed", "agent_needs_human", "agent_failed",
     "auth_required", "quota_exceeded", "cli_missing", "timeout", "no_diff", "tests_failed",
     "spawn_error", "non_zero_exit"}

disposition(c) ==
    IF c \in {"cli_missing", "spawn_error", "agent_failed"} THEN "Failed" ELSE "NeedsHuman"

\* process_completion: the outcome the executor goes on with.
process_completion(r, kind, w, clean) ==
    LET c == classify(r, probe_for(kind, w, clean))
    IN  IF c = "clean" THEN "Completed"
        ELSE IF c = "timeout" THEN "TimedOut" ELSE disposition(c)

\* Resume, or park and why.
decide_resume(used, max, prev, snapshot, key) ==
    IF used >= max THEN "exhausted"
    ELSE IF prev # {} /\ \A p \in prev : same_as(p, snapshot) THEN "no_progress"
    ELSE IF key THEN "resume" ELSE "no_resume_key"

-----------------------------------------------------------------------------
(* Background sessions                                                     *)

\* A row of `claude agents --json --all`; an interactive one may lack an id.
Rows(Ids, Names, Cwds) ==
    [id : Ids \cup {"no_id"}, kind : {"background", "interactive"}, name : Names, cwd : Cwds]
Filters(Ids, Names, Cwds) == [id : Ids \cup {""}, name : Names, cwd : Cwds]

\* parse_agents, and select_agent over what it keeps: by id, or else the first
\* of that name in that directory.  An empty id is not known yet.
parse_agents(rows) == SelectSeq(rows, LAMBDA a : a.kind = "background" /\ a.id # "no_id")

\* The first of some of the agents, if there are any.
FirstAgent(agents, found) == {agents[i] : i \in {k \in found : \A j \in found : k <= j}}

select_agent(agents, filter) ==
    LET byId   == FirstAgent(agents, {i \in DOMAIN agents : agents[i].id = filter.id})
        byName == {i \in DOMAIN agents : agents[i].name = filter.name /\ agents[i].cwd = filter.cwd}
    IN  IF filter.id # "" /\ byId # {} THEN byId ELSE FirstAgent(agents, byName)

\* launch: the id the launcher prints, or the one the list has for the name.
launch(printed, agents, filter) ==
    IF printed # "" THEN {printed}
    ELSE {a.id : a \in select_agent(agents, [filter EXCEPT !.id = ""])}

\* from_state_str, and what a poll makes of the state.
BackgroundState == {"working", "blocked", "done", "failed", "stopped", "unknown"}
from_state_str(word) == IF word \in BackgroundState THEN word ELSE "unknown"

\* How polling ends, or "poll" if it does not: a state, too many misses or
\* errors ("lost"), the wall clock, a cancel.
Ends == {"blocked", "done", "failed", "stopped", "lost", "deadline", "cancel"}

\* What the assistant says in a transcript, whose entries have a role and lines.
transcript_assistant_text(entries) ==
    LET text[n \in 0 .. Len(entries)] ==
            IF n = 0 THEN <<>>
            ELSE IF entries[n].role = "assistant" THEN text[n - 1] \o entries[n].lines ELSE text[n - 1]
    IN  text[Len(entries)]

\* The marker of a session that is done: from its transcript, if there is one,
\* however little it says; from the logs on the screen otherwise.
scan_marker_from_transcript(entries) == marker_of(finish(transcript_assistant_text(entries), TRUE))
scan_marker_from_logs(logs) ==
    IF logs = {} THEN "none" ELSE marker_of(finish(CHOOSE l \in logs : TRUE, FALSE))

DoneMarker(transcript, logs) ==
    IF transcript = {} THEN scan_marker_from_logs(logs)
    ELSE scan_marker_from_transcript(CHOOSE t \in transcript : TRUE)

\* The AgentResult of a background session.
Verdict(end, marker) ==
    [phase  |-> IF end \in {"blocked", "done", "stopped"} THEN "Completed"
                ELSE IF end \in {"failed", "lost"} THEN "Failed"
                ELSE IF end = "deadline" THEN "TimedOut" ELSE "Cancelled",
     exit   |-> IF end \in {"blocked", "done", "stopped"} THEN "zero" ELSE "none",
     marker |-> IF end = "done" THEN marker
                ELSE IF end \in {"blocked", "stopped"} THEN "needs_human"
                ELSE IF end \in {"failed", "lost"} THEN "failed" ELSE "none",
     hints  |-> {}, key |-> FALSE]

-----------------------------------------------------------------------------
(* The logs of a background session, which are a screen, not a stream       *)

\* strip_ansi over classes of characters: what a character does to the reader
\* that is in the middle of an escape sequence, and whether it is shown.
AnsiMode == {"text", "esc", "csi", "osc", "oscEsc"}
ansi(mode, c) ==
    IF mode = "text" THEN (IF c = "ESC" THEN "esc" ELSE "text")
    ELSE IF mode = "esc" THEN (IF c = "[" THEN "csi" ELSE IF c = "]" THEN "osc" ELSE "text")
    ELSE IF mode = "csi" THEN (IF c \in {"m", "[", "]", "\\"} THEN "text" ELSE "csi")
    ELSE IF c = "BEL" \/ (mode = "oscEsc" /\ c = "\\") THEN "text"
    ELSE IF c = "ESC" THEN "oscEsc" ELSE "osc"

strip_ansi(chars) ==
    LET mode[n \in 0 .. Len(chars)] == IF n = 0 THEN "text" ELSE ansi(mode[n - 1], chars[n])
        kept[n \in 0 .. Len(chars)] ==
            IF n = 0 THEN <<>>
            ELSE IF mode[n - 1] = "text" /\ chars[n] # "ESC" THEN Append(kept[n - 1], chars[n])
            ELSE kept[n - 1]
    IN  kept[Len(chars)]

\* collapse_word_cycle: the smallest period of at most half the line.
Period(words, p) == \A i \in p + 1 .. Len(words) : words[i] = words[i - p]
collapse_word_cycle(words) ==
    LET periods == {p \in 1 .. Len(words) \div 2 : Period(words, p)}
    IN  IF Len(words) < 4 \/ periods = {} THEN words
        ELSE SubSeq(words, 1, CHOOSE p \in periods : \A q \in periods : p <= q)

\* emit_new_log_lines over the keys of the screen's lines: the first few that
\* were not seen are surfaced; a full memory is emptied afterwards.
emit_new_log_lines(screen, seen, perPoll, cap) ==
    LET at[n \in 0 .. Len(screen)] ==
            IF n = 0 THEN <<>>
            ELSE IF Len(at[n - 1]) < perPoll /\ screen[n] \notin seen
                    /\ \A i \in DOMAIN at[n - 1] : at[n - 1][i] # screen[n]
                 THEN Append(at[n - 1], screen[n]) ELSE at[n - 1]
        new == at[Len(screen)]
        all == seen \cup {new[i] : i \in DOMAIN new}
    IN  [surfaced |-> new, seen |-> IF Cardinality(all) > cap THEN {} ELSE all]
=============================================================================
