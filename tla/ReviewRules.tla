----------------------------- MODULE ReviewRules -----------------------------
(***************************************************************************)
(* Reviewing: what a comment may be anchored to, what of a review reaches  *)
(* GitHub and where, which bucket of the inbox a pull request is in, and   *)
(* what the diff of a run shows.  Optional values are those of             *)
(* HandoverRules.  A text has words, "" if blank, and may be padded; a     *)
(* login has a name and a spelling of it.                                  *)
(***************************************************************************)
EXTENDS HandoverRules

Blank(text)   == text.words = ""
Trimmed(text) == [text EXCEPT !.padded = FALSE]
normalize_optional_string(value) == {Trimmed(t) : t \in {u \in value : ~Blank(u)}}
normalize_author(author) == OrElse(normalize_optional_string(author), {[words |-> "operator", padded |-> FALSE]})
normalize_body(body)     == normalize_optional_string({body})

-----------------------------------------------------------------------------
(* What a review is about.  The key of a pull request leaves its head out. *)

run_subject(run) == [type |-> "run", run |-> run]
pull_request_subject(slug, number, head) ==
    [type |-> "pull_request", slug |-> slug, number |-> number, head |-> head]

storage_key(subject) ==
    IF subject.type = "run" THEN <<"run", subject.run>> ELSE <<"pr", subject.slug, subject.number>>

-----------------------------------------------------------------------------
(* Anchors and threads                                                     *)

Sides == {"old", "new", "context"}

validate_line_range(start, end) == \A e \in end : start # Absent /\ \A s \in start : s <= e

validate(anchor) ==
    /\ ~Blank(anchor.path)
    /\ 0 \notin anchor.old \cup anchor.oldEnd \cup anchor.new \cup anchor.newEnd
    /\ validate_line_range(anchor.old, anchor.oldEnd)
    /\ validate_line_range(anchor.new, anchor.newEnd)
    /\ anchor.side \in {"old", "context"} => anchor.old # Absent
    /\ anchor.side \in {"new", "context"} => anchor.new # Absent

NewComment(author, body) == {[author |-> a, body |-> b] : a \in normalize_author(author), b \in normalize_body(body)}

\* A thread starts open, with one comment, or is refused.
NewThread(anchor, author, body) ==
    IF validate(anchor)
        THEN {[anchor |-> [anchor EXCEPT !.path = Trimmed(anchor.path)], state |-> "open", comments |-> <<c>>] :
                 c \in NewComment(author, body)}
        ELSE {}

from_change(path, reviewed, reviewer) ==
    IF Blank(path) THEN {}
    ELSE {[path |-> Trimmed(path), reviewed |-> reviewed, reviewer |-> normalize_optional_string(reviewer)]}

Unresolved(threads) == {i \in DOMAIN threads : threads[i].state = "open"}

\* Thread by thread, comment by comment.
unresolved_diff_review_fix_prompt_comments(threads) ==
    LET Of(i) == IF i \in Unresolved(threads)
                     THEN [k \in DOMAIN threads[i].comments |->
                              [anchor |-> threads[i].anchor, body |-> threads[i].comments[k].body]]
                     ELSE <<>>
        Upto[i \in 0 .. Len(threads)] == IF i = 0 THEN <<>> ELSE Upto[i - 1] \o Of(i)
    IN  Upto[Len(threads)]

unresolved_comment_count(threads) ==
    LET Upto[i \in 0 .. Len(threads)] ==
            IF i = 0 THEN 0
            ELSE Upto[i - 1] + IF i \in Unresolved(threads) THEN Len(threads[i].comments) ELSE 0
    IN  Upto[Len(threads)]

\* The places the prompt of a fix names; none is "line unknown".
Span(start, end) == {IF \E e \in end : e > s THEN <<s, CHOOSE e \in end : TRUE>> ELSE <<s, s>> : s \in start}
Places(anchor) ==
    (IF anchor.side = "new" THEN {} ELSE {<<"old", p>> : p \in Span(anchor.old, anchor.oldEnd)})
    \cup (IF anchor.side = "old" THEN {} ELSE {<<"new", p>> : p \in Span(anchor.new, anchor.newEnd)})

-----------------------------------------------------------------------------
(* From a thread to a comment on GitHub.  A patch is the set of its hunk   *)
(* headers, a range has a start and mostly a count.                        *)

anchor_to_line_side(anchor) ==
    LET Right == {<<"RIGHT", l>> : l \in anchor.new}
        Left  == {<<"LEFT", l>> : l \in anchor.old}
    IN  IF anchor.side = "new" THEN Right
        ELSE IF anchor.side = "old" THEN Left
        ELSE OrElse(Right, Left)

parse_range(range) == [start |-> range[1], count |-> IF Len(range) > 1 THEN range[2] ELSE 1]

patch_covers_line(patch, side, line) ==
    \E header \in patch :
        LET r == parse_range(IF side = "LEFT" THEN header.old ELSE header.new)
        IN  r.count > 0 /\ r.start <= line /\ line < r.start + r.count

\* The place of a thread in the pull request; none if the diff does not show it.
Mapped(anchor, files) ==
    {p \in anchor_to_line_side(anchor) :
        \E i \in FirstOf({j \in DOMAIN files : files[j].path = anchor.path}) :
            \E patch \in files[i].patch : patch_covers_line(patch, p[1], p[2])}

\* Every thread becomes a comment on its line, or a line of the summary.
map_threads_to_comments(threads, files) ==
    [comments |-> UNION {{[thread |-> i, path |-> threads[i].anchor.path, place |-> p] :
                             p \in Mapped(threads[i].anchor, files)} : i \in Unresolved(threads)},
     fallback |-> {i \in Unresolved(threads) : Mapped(threads[i].anchor, files) = Absent}]

compose_body(summary, fallback) == [summary |-> Trimmed(summary), unanchored |-> fallback]
EmptyBody(body) == Blank(body.summary) /\ body.unanchored = {}

submit(threads, files, event, summary) ==
    LET mapped == map_threads_to_comments(threads, files)
        body   == compose_body(summary, mapped.fallback)
    IN  IF event # "approve" /\ EmptyBody(body) /\ mapped.comments = {} THEN {}
        ELSE {[event |-> event, body |-> body, comments |-> mapped.comments, resolves |-> Unresolved(threads)]}
-----------------------------------------------------------------------------
(* What GitHub says of a pull request                                      *)

\* As the REST call puts it, and as gh lists it.
state_from_details(state, draft, merged) ==
    IF merged THEN "merged"
    ELSE IF state = "closed" THEN "closed"
    ELSE IF state = "open" /\ draft THEN "draft"
    ELSE "open"
pr_state_from_list(state, draft) ==
    IF state = "MERGED" THEN "merged"
    ELSE IF state = "CLOSED" THEN "closed"
    ELSE IF state = "OPEN" /\ draft THEN "draft"
    ELSE "open"

diff_status_from_github(status) ==
    IF status \in {"added", "modified", "removed", "renamed", "unchanged"} THEN status ELSE "changed"

\* A check run has a status and a conclusion, a status context only a state.
classify_check(check) ==
    IF check.status # Absent
        THEN IF check.status # {"COMPLETED"} \/ check.conclusion \in {Absent, {""}} THEN "pending"
             ELSE IF check.conclusion \subseteq {"SUCCESS", "NEUTRAL", "SKIPPED"} THEN "passing"
             ELSE "failing"
    ELSE IF check.state = {"SUCCESS"} THEN "passing"
    ELSE IF check.state \in {{"FAILURE"}, {"ERROR"}} THEN "failing"
    ELSE "pending"

from_counts(passing, failing, pending) ==
    LET total == passing + failing + pending
        state == IF failing > 0 THEN "failing" ELSE IF pending > 0 THEN "pending" ELSE "passing"
    IN  IF total = 0 THEN Absent ELSE {[state |-> state, total |-> total]}

aggregate_checks(checks) ==
    LET Count(outcome) == Cardinality({i \in DOMAIN checks : classify_check(checks[i]) = outcome})
    IN  from_counts(Count("passing"), Count("failing"), Count("pending"))

\* The path of a URL after github.com, without query and fragment; some words
\* are numbers.
parse_github_pr_url(url, Numbers) ==
    IF url.github /\ Len(url.path) >= 4 /\ url.path[3] = "pull" /\ url.path[4] \in Numbers
        THEN {[repo |-> <<url.path[1], url.path[2]>>, number |-> url.path[4]]} ELSE {}

\* The number at the very end of any other host's .../pull/<number>.
parse_pr_number(url, Numbers) ==
    LET n == Len(url.path)
    IN  IF parse_github_pr_url(url, Numbers) # {} THEN {r.number : r \in parse_github_pr_url(url, Numbers)}
        ELSE IF n >= 2 /\ url.path[n - 1] = "pull" /\ url.path[n] \in Numbers /\ ~url.query THEN {url.path[n]}
        ELSE {}

\* search: of what GitHub found, this repository's pull requests it can load.
search_prs_by_issue_identifier(repo, urls, Numbers, details) ==
    UNION {{details[r] : r \in {x \in parse_github_pr_url(u, Numbers) : x.repo = repo /\ x \in DOMAIN details}}
              : u \in urls}

-----------------------------------------------------------------------------
(* The inbox                                                               *)

\* Asked once: what the first call gave, a failure too, is what every later one
\* is told.  The cache is an optional login that is itself optional.
viewer(cache, fetched) ==
    [login |-> UNION OrElse(cache, {fetched}), cache |-> OrElse(cache, {fetched})]

SameLogin(a, b) == a.name = b.name
IsAuthor(pr, login)    == \E v \in login : SameLogin(v, pr.author)
IsRequested(pr, login) == \E v \in login : \E r \in pr.requested : SameLogin(v, r)

classify_review_bucket(pr, login) ==
    IF pr.state \in {"merged", "closed"} THEN "completed"
    ELSE IF pr.draft THEN "drafts"
    ELSE IF IsRequested(pr, login) /\ ~IsAuthor(pr, login) THEN "needs_your_review"
    ELSE IF pr.decision = {"changes_requested"} THEN "changes_requested"
    ELSE IF pr.decision = {"approved"} THEN "ready_to_merge"
    ELSE IF IsAuthor(pr, login) THEN "created_by_you"
    ELSE "waiting_for_review"

\* Who reviewed, with the verdict; then who was asked and has not.  A login is
\* compared as it is spelled here.
merge_reviewers(pr) ==
    {[login |-> r.login, verdict |-> {r.verdict}] : r \in pr.latest}
        \cup {[login |-> q, verdict |-> {}] : q \in pr.requested \ {r.login : r \in pr.latest}}

inbox_item(slug, pr, login) ==
    [slug |-> slug, number |-> pr.number, state |-> pr.state, bucket |-> classify_review_bucket(pr, login),
     reviewers |-> merge_reviewers(pr)]

\* The three lists one after the other; a number is listed where it came first.
inbox(slug, open, merged, closed, login) ==
    LET all == open \o merged \o closed
        Kept == {i \in DOMAIN all : \A j \in DOMAIN all : all[j].number = all[i].number => i <= j}
    IN  [i \in Kept |-> inbox_item(slug, all[i], login)]

\* activity: what could not be loaded is left out, a review that was not
\* submitted too.
activity(pr, reviews, comments, remarks) ==
    {[kind |-> "opened", actor |-> pr.author, at |-> pr.created]}
    \cup {[kind |-> "review_requested", actor |-> r, at |-> pr.updated] : r \in pr.requested}
    \cup (UNION {{[kind |-> "review_submitted", actor |-> r.author, at |-> t] : t \in r.submitted} : r \in UNION reviews})
    \cup {[kind |-> "commented", actor |-> c.author, at |-> c.at] : c \in (UNION comments) \cup (UNION remarks)}

-----------------------------------------------------------------------------
(* The diff of a run.  A line of a patch has a sign, and is tripled when   *)
(* it starts with three of them; a raw patch has its lines, a length in    *)
(* bytes, and may name binary files.                                       *)

Lesser(a, b) == IF a <= b THEN a ELSE b

\* base holds what git resolves of the remote branch, the local one and HEAD~1.
resolve_base_ref(base) ==
    OrElse(base.remote, OrElse(base.local, OrElse(base.parent, {"empty_tree"})))

\* A copy is shown as an added file, with where it comes from.
parse_name_status_line(line) ==
    LET TwoPaths == [R |-> "renamed", C |-> "added"]
        OnePath == [A |-> "added", M |-> "modified", D |-> "deleted", T |-> "type_change"]
    IN  IF line.letter \in DOMAIN TwoPaths
            THEN IF Len(line.paths) < 2 THEN {}
                 ELSE {[status |-> TwoPaths[line.letter], path |-> line.paths[2], old_path |-> {line.paths[1]}]}
        ELSE IF line.letter \in DOMAIN OnePath /\ line.paths # <<>>
            THEN {[status |-> OnePath[line.letter], path |-> line.paths[1], old_path |-> {}]}
        ELSE {}

Shape(patch, binary, truncated) == [patch |-> patch, binary |-> binary, truncated |-> truncated]

shape_patch(raw, MAX_PATCH_BYTES) ==
    LET Hunks == {i \in DOMAIN raw.lines : raw.lines[i].sign = "@"}
    IN  IF raw.bytes = 0 THEN Shape({}, FALSE, FALSE)
        ELSE IF Hunks = {} /\ raw.marker THEN Shape({}, TRUE, FALSE)
        ELSE IF raw.bytes > MAX_PATCH_BYTES THEN Shape({}, FALSE, TRUE)
        ELSE Shape({raw.lines}, FALSE, FALSE)

\* The headers of a file are told by their three signs.
count_changes(lines) ==
    LET Signed(sign) == Cardinality({i \in DOMAIN lines : lines[i].sign = sign /\ ~lines[i].tripled})
    IN  [additions |-> Signed("+"), deletions |-> Signed("-")]

\* The file as a patch that adds all of it, in header bytes, those of its lines
\* and a sign for each.
synthesize_added_patch(file, header, MAX_PATCH_BYTES) ==
    IF ~file.readable THEN [shape |-> Shape({}, FALSE, FALSE), additions |-> 0]
    ELSE IF file.nul THEN [shape |-> Shape({}, TRUE, FALSE), additions |-> 0]
    ELSE IF file.bytes > MAX_PATCH_BYTES THEN [shape |-> Shape({}, FALSE, TRUE), additions |-> 0]
    ELSE IF ~file.utf8 THEN [shape |-> Shape({}, TRUE, FALSE), additions |-> 0]
    ELSE IF header + file.text + file.lines > MAX_PATCH_BYTES
        THEN [shape |-> Shape({}, FALSE, TRUE), additions |-> file.lines]
    ELSE [shape |-> Shape({[i \in 1 .. file.lines |-> [sign |-> "+", tripled |-> FALSE]]}, FALSE, FALSE),
          additions |-> file.lines]

TrackedDiff(entry, raw, MAX_PATCH_BYTES) ==
    [path |-> entry.path, status |-> entry.status, old_path |-> entry.old_path,
     changes |-> count_changes(raw.lines), shape |-> shape_patch(raw, MAX_PATCH_BYTES)]

UntrackedDiff(path, file, header, MAX_PATCH_BYTES) ==
    LET added == synthesize_added_patch(file, header, MAX_PATCH_BYTES)
    IN  [path |-> path, status |-> "untracked", old_path |-> {},
         changes |-> [additions |-> added.additions, deletions |-> 0], shape |-> added.shape]

\* tree is what git and the disk hold of a worktree, if there is one: the
\* entries that differ from base, the untracked paths, patches and files.
collect_run_diff(tree, header, MAX_FILES, MAX_PATCH_BYTES) ==
    {LET shown   == Lesser(Len(t.entries), MAX_FILES)
         more    == Lesser(Len(t.untracked), MAX_FILES - shown)
         Tracked == [i \in 1 .. shown |->
                        TrackedDiff(t.entries[i], t.raw[t.entries[i].path], MAX_PATCH_BYTES)]
         Rest    == [i \in 1 .. more |->
                        UntrackedDiff(t.untracked[i], t.file[t.untracked[i]], header, MAX_PATCH_BYTES)]
         total   == Len(t.entries) + Len(t.untracked)
     IN  [base_ref |-> resolve_base_ref(t.base), files |-> Tracked \o Rest,
          file_count |-> total, overflow |-> total > MAX_FILES] :
        t \in {u \in tree : \A i \in 1 .. Lesser(Len(u.entries), MAX_FILES) : u.entries[i].path \in DOMAIN u.raw}}
=============================================================================
