----------------------------- MODULE MCSupervisor -----------------------------
(* Small instances of Supervisor for TLC, and the rules of OutcomeRules that  *)
(* go through a transcript, against what they are meant to compute.           *)
EXTENDS Supervisor, OutcomeRules
TwoSessions == 1 .. 2

Words(Alphabet, n) == UNION {[1 .. k -> Alphabet] : k \in 0 .. n}

\* failure_hints.rs: the hints are what any line matched, in any order.
ASSUME HintsChecked ==
    \A lines \in Words(SUBSET {"quota", "auth"}, 3) :
        /\ into_hints("claude", lines) = UNION {lines[i] : i \in DOMAIN lines}
        /\ into_hints("codex", lines) = {}

\* step_result_marker.rs: the last block that was closed counts, from the last
\* BEGIN before its END, whatever was opened and left open.
Blocks(lines) ==
    {<<b, e>> \in (DOMAIN lines) \X (DOMAIN lines) :
        b < e /\ lines[b] = "BEGIN" /\ lines[e] = "END" /\ \A i \in b + 1 .. e - 1 : lines[i] = "text"}

ASSUME MarkerChecked ==
    \A lines \in Words({"BEGIN", "END", "text"}, 6) :
        LET found == finish(lines, TRUE)
        IN  IF Blocks(lines) = {} THEN ~found.closed
            ELSE \E b \in Blocks(lines) :
                    /\ \A c \in Blocks(lines) : c[2] <= b[2]
                    /\ found.closed /\ found.last = SubSeq(lines, b[1] + 1, b[2] - 1)

\* A transcript keeps the prompt, which shows the agent a block to fill in, away
\* from what the agent says; the screen does not.
Echo == <<"BEGIN", "text", "END">>
ASSUME EchoChecked ==
    \A said \in Words({"BEGIN", "END", "completed", "text"}, 4) :
        LET transcript == <<[role |-> "user", lines |-> Echo], [role |-> "assistant", lines |-> said]>>
        IN  /\ DoneMarker({transcript}, {Echo \o said}) = marker_of(finish(said, TRUE))
            /\ DoneMarker({}, {Echo \o <<"text">>}) = "malformed"

\* claude_background.rs, strip_ansi: no escape is left, text without escapes is
\* kept, and a whole colour or title sequence vanishes wherever it stands.
Escapes == {<<"ESC", "[", "0", "m">>, <<"ESC", "]", "0", "BEL">>, <<"ESC", "]", "0", "ESC", "\\">>}
ASSUME AnsiChecked ==
    /\ \A chars \in Words({"ESC", "[", "]", "BEL", "\\", "m", "0"}, 5) :
        LET shown == strip_ansi(chars)
        IN  /\ \A i \in DOMAIN shown : shown[i] # "ESC"
            /\ (\A i \in DOMAIN chars : chars[i] # "ESC") => shown = chars
    /\ \A before, after \in Words({"m", "]", "\\"}, 2), s \in Escapes :
        strip_ansi(before \o s \o after) = before \o after

\* collapse_word_cycle: what is kept, repeated, is the line.
ASSUME CycleChecked ==
    \A words \in Words({"a", "b"}, 7) :
        LET kept == collapse_word_cycle(words)
        IN  /\ \A i \in DOMAIN words : words[i] = kept[((i - 1) % Len(kept)) + 1]
            /\ Len(kept) < Len(words) => 2 * Len(kept) <= Len(words) /\ Len(words) >= 4

\* agent_supervisor/background.rs: over two polls of a screen that scrolls, no
\* line is surfaced twice unless the memory was emptied in between, and none is
\* lost that stays on the screen.
ASSUME LogsChecked ==
    \A one, two \in Words({"a", "b", "c"}, 3), cap \in 1 .. 3 :
        LET p == emit_new_log_lines(one, {}, 2, cap)
            q == emit_new_log_lines(two, p.seen, 2, cap)
            Shown(s) == {s[i] : i \in DOMAIN s}
        IN  /\ Len(p.surfaced) <= 2 /\ Cardinality(Shown(p.surfaced)) = Len(p.surfaced)
            /\ p.seen # {} => Shown(p.surfaced) \cap Shown(q.surfaced) = {}
            /\ Len(q.surfaced) < 2 => Shown(two) \subseteq p.seen \cup Shown(q.surfaced)
=============================================================================
