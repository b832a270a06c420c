------------------------------ MODULE MCControl ------------------------------
(* Small instances of Control for TLC, and what is handed over.             *)
EXTENDS Control, HandoverRules, TLC

\* Handlers, operators and browsers are alike; the run checks safety only.
Alike == Permutations(Requesters) \cup Permutations(Operators) \cup Permutations(Sockets)

-----------------------------------------------------------------------------
Words(S, n) == UNION {[1 .. k -> S] : k \in 0 .. n}

\* run_context_snapshot_builder.rs, aggregate_changed_files: every reported path
\* is listed once and in the order of its first report, none is made up, and what
\* the cap cuts off is owned up to.
ASSUME PathsChecked ==
    \A one, two \in Words({"a", "b", "c"}, 3), cap \in 0 .. 3 :
        LET all  == one \o two
            made == aggregate_changed_files(<<[files |-> one], [files |-> two]>>, cap)
            At(p) == CHOOSE i \in DOMAIN all : all[i] = p /\ \A j \in 1 .. i - 1 : all[j] # p
            Kept == {made.paths[k] : k \in DOMAIN made.paths}
        IN  /\ Kept \subseteq {all[i] : i \in DOMAIN all}
            /\ \A j, k \in DOMAIN made.paths : j < k => At(made.paths[j]) < At(made.paths[k])
            /\ made.truncated = (Kept # {all[i] : i \in DOMAIN all})
            /\ \A i \in DOMAIN all : all[i] \notin Kept => \A p \in Kept : At(p) < At(all[i])

\* The whole projection over a task of up to two steps: it names one blocker at
\* most, and if none, nothing of the task or the run waits; a takeover is told of
\* every listed file, by name or by number.
Caps == [files |-> 2, events |-> 1, render_files |-> 1, render_events |-> 1, body |-> 1, known |-> FALSE]
SomeSteps == [status : {"pending", "needs_human", "failed"}, run : {{}, {"r"}}, provider : {{"claude"}}, agent : {"planner"},
              failure : {{}, {{"why", "github_pat"}}}, summary : {{{"said"}}}, questions : {<<{"ask"}>>},
              files : {<<"a", "b">>}]
SomeRuns == [state : RunStates, paused : BOOLEAN, pause_reason : {{}, {{"hold"}}}, error : {{{"oops"}}},
             objective : {{}}, worktree : {{}}]
ASSUME SnapshotChecked ==
    \A steps \in Words(SomeSteps, 2), r \in SomeRuns, current \in {{}, {2}},
       status \in {"running", "needs_human", "failed"} :
        LET db == [runs |-> [x \in {"r"} |-> {r}], events |-> [x \in {"r"} |-> <<{"e"}, {"bearer_token"}>>],
                   sessions |-> [x \in {"r"} |-> <<[mode |-> "pty", key |-> {"k"}],
                                                   [mode |-> "background", key |-> {"b"}]>>],
                   context |-> {[identifier |-> "i", ledger |-> "l", title |-> {"fix"}, status |-> {"todo"},
                                 body |-> <<"basic_auth_url", "github_pat", "bearer_token">>]}]
            s == build_run_context_snapshot([status |-> status, current |-> current, summary |-> {}],
                                            steps, db, Caps)
            Unblocking == {"step_needs_human", "open_question"}
        IN  /\ Cardinality(s.blocking) <= 1
            /\ s.blocking = {} => {d.kind : d \in s.decisions} \subseteq Unblocking
            /\ s.session = IF s.run_id = {} THEN {} ELSE {"k"}
            /\ \A e \in s.events : e = <<{"masked"}>>
            /\ \A c \in s.issue : c.body = {"masked", "secret_part"}
            /\ opening_context({s}, TRUE, Caps) = {"header"}
            /\ \A text \in opening_context({s}, FALSE, Caps) :
                  Len(text.files) + text.more = Len(s.changed.paths)

\* redaction.rs: what redact leaves is clean, and clean text is left alone.
ASSUME RedactChecked ==
    \A text \in SUBSET (Secrets \cup {"word", "more"}) :
        /\ scan(redact(text)) = Absent
        /\ scan(text) = Absent <=> redact(text) = text
        /\ redact(redact(text)) = redact(text)

\* handoff.rs: wherever the moves lead, what the record holds fits its status.
HandoffMoves(h) ==
    mark_delivered(h, "s1") \cup mark_accepted(h) \cup complete(h) \cup fail(h)
        \cup escalate(h, "ask") \cup supersede(h)
Reached[n \in 0 .. 5] ==
    IF n = 0 THEN {new_handoff}
    ELSE Reached[n - 1] \cup UNION {HandoffMoves(h) : h \in Reached[n - 1]}
ASSUME HandoffsChecked ==
    /\ Reached[5] = Reached[4]
    /\ {h.status : h \in Reached[4]} = HandoffStatus
    /\ \A h \in Reached[4] :
          /\ h.ended = is_terminal(h.status) /\ h.result = (h.status = "completed")
          /\ h.failure = (h.status \in {"failed", "escalated"})
          /\ (h.attention # Absent) = (h.status = "escalated")
          /\ HandoffMoves(h) = {} <=> is_terminal(h.status) /\ h.status # "failed"
=============================================================================
