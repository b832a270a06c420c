----------------------------- MODULE MCDelivery -----------------------------
(* Small instances of Delivery for TLC, and the rules of reviewing.         *)
EXTENDS Delivery, TLC

\* Names, ships, writers and submissions are interchangeable; threads and
\* comments are not, they come to be in their order.
\* Only one part moves in a behaviour, so the parts share the names of their
\* actors: the permutations are few.
Alike == Permutations(Branches) \cup Permutations(Ships) \cup Permutations(Submits)

-----------------------------------------------------------------------------
Rules == INSTANCE ReviewRules

Words(S, n)   == UNION {[1 .. k -> S] : k \in 0 .. n}
Optional(S)   == {{}} \cup {{x} : x \in S}
Text(word)    == [words |-> word, padded |-> FALSE]

\* diff_review.rs, validate: an anchor that is let through has a line, the line
\* GitHub is given is the first one the prompt of a fix names, and no span ends
\* before it starts.
Anchors == [path : {Text(""), [words |-> "f", padded |-> TRUE]}, side : Rules!Sides,
            old : Optional(0 .. 2), oldEnd : Optional(0 .. 2), new : Optional(0 .. 2), newEnd : Optional(0 .. 2)]
ASSUME AnchorsChecked ==
    \A anchor \in {a \in Anchors : Rules!validate(a)} :
        /\ Rules!anchor_to_line_side(anchor) # {}
        /\ \A p \in Rules!anchor_to_line_side(anchor) :
              \E place \in Rules!Places(anchor) : p = <<IF place[1] = "old" THEN "LEFT" ELSE "RIGHT", place[2][1]>>
        /\ \A place \in Rules!Places(anchor) : 0 < place[2][1] /\ place[2][1] <= place[2][2]
        /\ \A started \in Rules!NewThread(anchor, {Text("")}, Text("hm")) :
              Rules!validate(started.anchor) /\ started.comments[1].author = Text("operator")

\* diff_review.rs, storage_key: a push to the pull request leaves its review
\* where it is, and no two subjects share one.
Subjects == {Rules!run_subject(r) : r \in {"r", "s"}}
                \cup {Rules!pull_request_subject(slug, n, sha) : slug \in {"o", "p"}, n \in {1, 2}, sha \in {"x", "y"}}
ASSUME KeysChecked ==
    /\ \A s, t \in Subjects : Rules!storage_key(s) = Rules!storage_key(t)
          <=> s = t \/ (s.type = t.type /\ s.type # "run" /\ s.slug = t.slug /\ s.number = t.number)
    /\ \A who \in Optional({Text(""), [words |-> "me", padded |-> TRUE]}), path \in {Text(""), Text("f")} :
          \A file \in Rules!from_change(path, TRUE, who) :
              file.path = Text("f") /\ file.reviewer \subseteq {Text("me")}

\* pr_review_service.rs, submit: an open thread is one comment, on a line the
\* diff shows, or one line of the summary; nothing else is posted; and the
\* prompt of a fix has every comment that is counted.
Marked(side, l) == [path |-> Text("f"), side |-> side, old |-> {l}, oldEnd |-> {}, new |-> {l}, newEnd |-> {3}]
SomeThreads == [anchor : {Marked(side, l) : side \in {"old", "context"}, l \in {1, 2}}, state : {"open", "resolved"},
                comments : {<<[author |-> Text("a"), body |-> Text("x")]>>,
                            <<[author |-> Text("a"), body |-> Text("x")], [author |-> Text("a"), body |-> Text("y")]>>}]
Hunk(old, new) == {[old |-> old, new |-> new]}
SomeFiles == {<<>>, <<[path |-> Text("f"), patch |-> {}]>>,
              <<[path |-> Text("g"), patch |-> {Hunk(<<1, 2>>, <<1>>)}], [path |-> Text("f"), patch |-> {Hunk(<<2, 0>>, <<2>>)}],
                [path |-> Text("f"), patch |-> {Hunk(<<1>>, <<1>>)}]>>,
              <<[path |-> Text("f"), patch |-> {Hunk(<<1>>, <<1, 0>>) \cup Hunk(<<9>>, <<2>>)}]>>}
ASSUME SubmissionsChecked ==
    \A threads \in Words(SomeThreads, 2), files \in SomeFiles :
        LET open   == Rules!Unresolved(threads)
            mapped == Rules!map_threads_to_comments(threads, files)
            By(i)  == {c \in mapped.comments : c.thread = i}
        IN  /\ \A c \in mapped.comments :
                  /\ c.thread \in open
                  /\ \E k \in DOMAIN files : \E diff \in files[k].patch :
                        files[k].path = c.path /\ Rules!patch_covers_line(diff, c.place[1], c.place[2])
            /\ mapped.fallback \subseteq open
            /\ \A i \in open : Cardinality(By(i)) = IF i \in mapped.fallback THEN 0 ELSE 1
            /\ \A event \in {"approve", "comment"}, said \in {Text(""), Text("fine")} :
                  Rules!submit(threads, files, event, said) = {}
                      <=> event = "comment" /\ open = {} /\ said = Text("")
            /\ Len(Rules!unresolved_diff_review_fix_prompt_comments(threads)) = Rules!unresolved_comment_count(threads)

\* patch_covers_line: a hunk covers as many lines of a side as its header counts.
ASSUME HunksChecked ==
    \A first \in 1 .. 2, count \in 0 .. 2 :
        /\ {l \in 0 .. 5 : Rules!patch_covers_line(Hunk(<<first, count>>, <<first>>), "LEFT", l)}
              = first .. first + count - 1
        /\ {l \in 0 .. 5 : Rules!patch_covers_line(Hunk(<<first, count>>, <<first>>), "RIGHT", l)} = {first}

\* github/mod.rs, pull_request.rs: the call for one pull request and the list
\* agree on its state; the checks roll up to failing as soon as one fails, to
\* passing when all of them pass; a link leads back to the number it shows.
Conclusions == {"SUCCESS", "SKIPPED", "FAILURE", "CANCELLED", ""}
SomeChecks  == [status : {{"COMPLETED"}}, conclusion : Optional(Conclusions), state : {{}}]
                   \cup [status : {{"QUEUED"}}, conclusion : {{}}, state : {{}}]
                   \cup [status : {{}}, conclusion : {{}}, state : Optional({"SUCCESS", "FAILURE", "ERROR", "PENDING"})]
SomeUrls == [github : BOOLEAN, path : Words({"o", "pull", "7"}, 4), query : BOOLEAN]
ASSUME PullRequestsChecked ==
    /\ \A draft \in BOOLEAN :
          /\ Rules!state_from_details("open", draft, FALSE) = Rules!pr_state_from_list("OPEN", draft)
          /\ Rules!state_from_details("closed", draft, FALSE) = Rules!pr_state_from_list("CLOSED", draft)
          /\ Rules!state_from_details("closed", draft, TRUE) = Rules!pr_state_from_list("MERGED", draft)
    /\ \A checks \in Words(SomeChecks, 2) :
          LET outcomes == {Rules!classify_check(checks[i]) : i \in DOMAIN checks}
          IN  Rules!aggregate_checks(checks) =
                  IF checks = <<>> THEN {}
                  ELSE {[total |-> Len(checks),
                         state |-> IF "failing" \in outcomes THEN "failing"
                                   ELSE IF outcomes = {"passing"} THEN "passing" ELSE "pending"]}
    /\ \A url \in SomeUrls :
          LET numbers == Rules!parse_pr_number(url, {"7"})
          IN  /\ numbers # {} => \E i \in DOMAIN url.path \ {1} : url.path[i] = "7" /\ url.path[i - 1] = "pull"
              /\ Rules!search_prs_by_issue_identifier(<<"o", "o">>, {url}, {"7"},
                    [r \in {[repo |-> <<"o", "o">>, number |-> "7"]} |-> "it"])
                    = IF url.github /\ Len(url.path) = 4 /\ url.path = <<"o", "o", "pull", "7">> THEN {"it"} ELSE {}
    /\ \A letter \in {"added", "removed", "renamed", "unchanged", "copied"} :
          Rules!diff_status_from_github(letter) # letter <=> letter = "copied"

\* pr_review_service.rs, inbox: a number is listed once, whatever lists it is
\* in, and under "yours" only what is asked of a viewer that is known.
Login(n, spelling) == [name |-> n, spelling |-> spelling]
SomePulls == [number : {1, 2}, state : {"open", "merged"}, draft : BOOLEAN,
              decision : Optional({"approved", "changes_requested"}), author : {Login("a", 1), Login("b", 1)},
              requested : {{}, {Login("a", 2)}}, latest : {{[login |-> Login("a", 1), verdict |-> "approved"]}}]
ASSUME InboxChecked ==
    \A open \in Words(SomePulls, 1), merged \in Words(SomePulls, 1), login \in Optional({Login("a", 1)}) :
        LET items == Rules!inbox("here", open, merged, <<>>, login)
        IN  /\ {items[i].number : i \in DOMAIN items} = {(open \o merged)[i].number : i \in 1 .. Len(open) + Len(merged)}
            /\ \A i, j \in DOMAIN items : items[i].number = items[j].number => i = j
            /\ \A i \in DOMAIN items :
                  /\ items[i].bucket = "completed" <=> items[i].state = "merged"
                  /\ items[i].bucket \in {"needs_your_review", "created_by_you"} => login # {}
                  /\ items[i].bucket = "needs_your_review" =>
                        (open \o merged)[i].author = Login("b", 1) /\ Login("a", 2) \in (open \o merged)[i].requested
ASSUME ViewerChecked ==
    \A first, second \in Optional({"me"}) :
        LET once == Rules!viewer({}, first)
        IN  once.login = first /\ Rules!viewer(once.cache, second) = once
ASSUME ActivityChecked ==
    LET pr == [author |-> "a", created |-> 1, updated |-> 2, requested |-> {"b"}]
    IN  \A reviews \in {{}, {{[author |-> "c", submitted |-> {3}], [author |-> "d", submitted |-> {}]}}},
           remarks \in {{}, {{[author |-> "e", at |-> 4]}}} :
            {e.actor : e \in Rules!activity(pr, reviews, {}, remarks)}
                = {"a", "b"} \cup (IF reviews = {} THEN {} ELSE {"c"}) \cup (IF remarks = {} THEN {} ELSE {"e"})

\* run_diff.rs, collect_run_diff: it never shows more files or longer patches
\* than the caps, says so when files are missing, and a file with a patch is
\* neither binary nor truncated.
Signed(sign, tripled) == [sign |-> sign, tripled |-> tripled]
SomePatches == [lines : {<<>>, <<Signed("@", FALSE), Signed("+", FALSE), Signed("-", TRUE)>>, <<Signed(" ", FALSE)>>},
                bytes : {0, 3, 9}, marker : BOOLEAN]
SomeContents == [readable : BOOLEAN, nul : BOOLEAN, utf8 : BOOLEAN, bytes : {1, 9}, text : {1, 2}, lines : {1, 4}]
SomeLines == [letter : {"M", "D", "R", "C", "X"}, paths : {<<>>, <<"p">>, <<"p", "q">>}]
ASSUME RunDiffChecked ==
    /\ \A lines \in Words(SomeLines, 2) : \A i \in DOMAIN lines : \A entry \in Rules!parse_name_status_line(lines[i]) :
          entry.old_path # {} <=> lines[i].letter \in {"R", "C"}
    /\ \A n \in 0 .. 3, untracked \in Words({"u"}, 3), raw \in SomePatches, content \in SomeContents :
          LET entry == [status |-> "modified", path |-> "p", old_path |-> {}]
              tree  == [base |-> [remote |-> {}, local |-> {}, parent |-> {}], entries |-> [i \in 1 .. n |-> entry],
                        untracked |-> untracked, raw |-> [p \in {"p"} |-> raw], file |-> [u \in {"u"} |-> content]]
          IN  \A diff \in Rules!collect_run_diff({tree}, 2, 2, 5) :
                /\ Len(diff.files) <= 2 /\ diff.overflow = (Len(diff.files) < diff.file_count)
                /\ \A i \in DOMAIN diff.files :
                      LET shape == diff.files[i].shape
                      IN  /\ shape.patch # {} => ~shape.binary /\ ~shape.truncated
                          /\ ~(shape.binary /\ shape.truncated)
                          /\ shape.patch # {} /\ i > n => \A lines \in shape.patch : 2 + Len(lines) <= 5
                          /\ \A lines \in shape.patch :
                                diff.files[i].changes.additions = Rules!count_changes(lines).additions

-----------------------------------------------------------------------------
Defs == INSTANCE DefinitionRules

Members(seq) == {seq[i] : i \in DOMAIN seq}

\* skill_import.rs, slugify: what it makes of a name is a safe slug and stays
\* what it is, so a second import meets the row of the first.
ASSUME SlugsChecked ==
    \A name \in Words({"a", "A", "-", " ", "_"}, 4) :
        LET slugs == Defs!slugify(name)
        IN  /\ slugs = {} <=> Members(name) \cap {"a", "A"} = {}
            /\ \A slug \in slugs : Defs!is_safe_slug(slug) /\ Defs!slugify(slug) = {slug}

\* skill_import.rs, parse_frontmatter: a name is taken from between the fences
\* only, and no line of the body is lost.
SomeDocLines == [fence : {"exact", "blanks"}, key : {""}, value : {<<>>}]
                   \cup [fence : {"no"}, key : {"name", ""}, value : {<<" ">>, <<" ", "\"", "a", "\"">>, <<"$">>}]
ASSUME FrontmatterChecked ==
    \A lines \in Words(SomeDocLines, 4) :
        LET parsed == Defs!parse_frontmatter(lines)
        IN  /\ parsed.name \in {{}, {<<"a">>}, {<<"$">>}}
            /\ parsed.name # {} =>
                  \E i, j \in DOMAIN lines : 1 < i /\ i < j /\ lines[1].fence = "exact" /\ lines[j].fence # "no"
                                               /\ \A k \in 2 .. j - 1 : lines[k].fence = "no"
            /\ \E n \in 0 .. Len(lines) : parsed.body = SubSeq(lines, n + 1, Len(lines))
                                            /\ (n > 0 => lines[n].fence # "no" /\ lines[1].fence = "exact")

\* skill_import.rs, scan_import_dirs: what is offered is what lies within six
\* directories of the root, on a way that leaves it by no link and enters no
\* pruned name, whatever cycles links make; each id once, the root's first.  And
\* what is offered can be imported, but for a file whose own name looks like a
\* credential.
Doc(path, name, body) ==
    [path |-> path, readable |-> TRUE, bytes |-> 1,
     lines |-> <<[fence |-> "exact", key |-> "", value |-> <<>>], [fence |-> "no", key |-> "name", value |-> name],
                 [fence |-> "blanks", key |-> "", value |-> <<>>], [fence |-> "no", key |-> "", value |-> body]>>]
SomeDocs(path) == {Doc(path, <<"A", " ", "b">>, <<"b">>), Doc(path, <<>>, <<"b">>), Doc(path, <<"a">>, <<"$">>),
                   [Doc(path, <<"a">>, <<"b">>) EXCEPT !.bytes = 65]}
FileAt(doc, stem, link, inside) ==
    [file |-> doc, stem |-> stem, link |-> link, within_root |-> inside, is_file |-> TRUE, markdown |-> TRUE]
DirAt(node, name, link, inside) ==
    [node |-> node, name |-> name, stem |-> <<"1">>, dotted |-> name \in {".git", ".claude"}, link |-> link,
     within_root |-> inside, tilde |-> FALSE]
SomeChildren == {<<>>, <<DirAt(1, "commands", FALSE, TRUE)>>,
                 <<DirAt(0, "loop", TRUE, TRUE), DirAt(1, ".git", FALSE, TRUE), DirAt(2, "x", TRUE, FALSE)>>,
                 <<DirAt(2, ".claude", FALSE, TRUE), DirAt(2, "dist", FALSE, TRUE)>>}
SomeTrees == {[n \in 0 .. 2 |->
                  IF n = 0 THEN [skill_md |-> {FileAt(top, <<"1">>, TRUE, inside)}, docs |-> <<>>, dirs |-> kids]
                  ELSE IF n = 1 THEN [skill_md |-> {}, dirs |-> below,
                                      docs |-> <<FileAt(first, <<"1">>, FALSE, TRUE), FileAt(second, <<"$", "b">>, FALSE, TRUE)>>]
                  ELSE [skill_md |-> {FileAt(Doc(9, <<>>, <<"b">>), <<"1">>, FALSE, TRUE)}, docs |-> <<>>, dirs |-> <<>>]] :
                  top \in SomeDocs(1), inside \in BOOLEAN, kids \in SomeChildren, below \in SomeChildren,
                  first \in {Doc(2, <<"a">>, <<"b">>), Doc(2, <<>>, <<"$">>)}, second \in {Doc(3, <<>>, <<"b">>)}}
\* The ways down from the root: the entries that are followed.
Ways(tree, root) ==
    LET Down(ways) == UNION {{Append(way, e) : e \in {e \in Members(tree[way[Len(way)].node].dirs) :
                                  e.name \notin {"dist", ".git"} /\ (e.link => e.within_root)}} : way \in ways}
        down[n \in 0 .. 6] == IF n = 0 THEN {<<root>>} ELSE Down(down[n - 1])
    IN  {way[Len(way)] : way \in UNION {down[n] : n \in 0 .. 6}}
Offered(tree, root) ==
    UNION {UNION {Defs!candidate_from_file(e.file, at.stem, "skill") :
                      e \in {e \in tree[at.node].skill_md : e.link => e.within_root}}
           \cup (IF at.name = "commands"
                 THEN UNION {Defs!candidate_from_file(e.file, e.stem, "command") : e \in Members(tree[at.node].docs)} ELSE {})
           : at \in Ways(tree, root)}
ASSUME ScanChecked ==
    \A tree \in SomeTrees :
        LET root    == DirAt(0, "repo", FALSE, TRUE)
            top     == {e.file : e \in {e \in tree[0].skill_md : e.within_root}}
            offered == Defs!scan_import_dirs(tree, <<root, [root EXCEPT !.tilde = TRUE]>>, {})
        IN  /\ offered \subseteq Offered(tree, root)
            /\ {c.id : c \in offered} = {c.id : c \in Offered(tree, root)}
            /\ Cardinality(offered) = Cardinality({c.id : c \in offered})
            /\ UNION {Defs!candidate_from_file(file, root.stem, "skill") : file \in top} \subseteq offered
            /\ \A c \in offered : /\ Defs!SkillValid(Defs!candidate_to_skill(c))
                                  /\ Defs!reject_credential_like(c) <=> c.label = <<"$", "b">>
ASSUME DepthChecked ==
    \A depth \in 0 .. 8 :
        LET Empty == [skill_md |-> {}, docs |-> <<>>, dirs |-> <<>>]
            tree  == [n \in 0 .. 8 |->
                        IF n = depth THEN [Empty EXCEPT !.skill_md = {FileAt(Doc(1, <<"a">>, <<>>), <<>>, FALSE, TRUE)}]
                        ELSE [Empty EXCEPT !.dirs = <<DirAt(n + 1, "x", FALSE, TRUE)>>]]
        IN  Defs!scan_import_dirs([tree EXCEPT ![8].dirs = <<>>], <<DirAt(0, "repo", FALSE, TRUE)>>, {}) # {} <=> depth <= 6

\* launch_profiles.rs, group_usages: a profile is listed once, with all its steps.
ASSUME UsagesChecked ==
    \A steps \in {steps \in Words([profile : {"p", "q"}, label : {"k", "l"}], 4) :
                    \A i, j, k \in DOMAIN steps : i < j /\ j < k /\ steps[i].profile = steps[k].profile
                                                   => steps[j].profile = steps[i].profile} :
        LET out == Defs!group_usages(steps)
        IN  /\ \A i, j \in DOMAIN out : out[i].id = out[j].id => i = j
            /\ \A i \in DOMAIN out :
                  out[i].steps = LET own == SelectSeq(steps, LAMBDA use : use.profile = out[i].id)
                                 IN  [k \in DOMAIN own |-> own[k].label]
            /\ {steps[i].profile : i \in DOMAIN steps} = {out[i].id : i \in DOMAIN out}

\* validate.rs against model.rs: a configuration that is let through names in
\* its playbook only agents that its catalog has and its policy allows, and each
\* type of a step once; what ships is let through.
Yaml(provider, backend, linear, mcp, tools, policy) ==
    [provider |-> provider, backend |-> backend, linear_context |-> linear, mcp |-> mcp, tools |-> tools, tool_policy |-> policy]
SomeYaml == [provider : {"claude", "codex"}, backend : Optional({"requires_claude"}), tools : {{}},
             linear_context : {"snapshot", "snapshot_plus_mcp"}, mcp : Optional({[mode |-> "none", servers |-> <<"fs">>]}),
             tool_policy : {{}}]
SomePlaybooks == Words([type : {"plan", "pr"}, agents : {<<"mine">>, <<"codex-plan">>}, run : {<<>>},
                        findings_threshold : {1}], 2)
                   \cup Words([type : {"review_swarm", "commands"}, agents : {<<>>, <<"codex-plan", "mine">>},
                               run : {<<>>, <<"make">>}, findings_threshold : {0, 1}], 1)
SomeConfigs == [version : {1}, max_parallel_agents : {0, 3}, max_concurrent_active_runs : {3},
                agents : {<<>>} \cup {[n \in {"mine"} |-> y] : y \in SomeYaml},
                mcp_servers : {<<>>, [n \in {"linear"} |-> "own"]}, steps : SomePlaybooks,
                allowed_agents : {{}, {{"mine"}}, {{"mine", "codex-plan"}}},
                runner : {Defs!DefaultRunner}, auto_transition_in_progress : {TRUE}]
ASSUME ConfigChecked ==
    /\ Defs!validate(Defs!bootstrap)
    /\ \A config \in {config \in SomeConfigs : Defs!validate(config)} :
          LET agents == Defs!agent_catalog(config)
          IN  /\ \A i \in DOMAIN config.steps :
                    config.steps[i].type \in {"plan", "code", "review_swarm"} =>
                        \A name \in Members(config.steps[i].agents) :
                            name \in DOMAIN agents /\ Defs!base_run_policy(config, name)
              /\ Cardinality({config.steps[i].type : i \in DOMAIN config.steps}) = Len(config.steps)

\* resolve_mcp_policy against effective_mcp_servers: who is given Linear's server
\* by its entry finds it in the registry, and an entry of the registry is the
\* operator's.  The planners that ship find it only if an entry asks for it.
ASSUME LinearChecked ==
    /\ \A config \in SomeConfigs :
          LET agents == Defs!agent_catalog(config)  servers == Defs!effective_mcp_servers(config)
          IN  /\ \A name \in DOMAIN config.agents :
                    config.agents[name].linear_context = "snapshot_plus_mcp" =>
                        /\ agents[name].mcp_policy.mode = "servers" /\ "linear" \in DOMAIN servers
                        /\ Cardinality({i \in DOMAIN agents[name].mcp_policy.servers :
                                            agents[name].mcp_policy.servers[i] = "linear"}) = 1
              /\ \A name \in DOMAIN config.mcp_servers : servers[name] = config.mcp_servers[name]
    /\ "linear" \in Members(Defs!agent_catalog(Defs!bootstrap)["codex-plan"].mcp_policy.servers)
    /\ "linear" \notin DOMAIN Defs!effective_mcp_servers(Defs!bootstrap)

\* resolve_tool_policy: what a role is denied stays denied, and it is unrestricted
\* only if neither list of tools says otherwise.
ASSUME ToolsChecked ==
    \A tools \in Optional({"edit"}), allow \in Optional({"read"}), deny \in Optional({"bash"}), some \in BOOLEAN :
        LET policy == [Defs!NoRestrictions EXCEPT !.allow = allow, !.deny = deny]
            result   == Defs!resolve_tool_policy(Yaml("claude", {}, "none", {}, tools, IF some THEN {policy} ELSE {}))
        IN  /\ result.deny = IF some THEN deny ELSE {}
            /\ result.allow = {} <=> tools = {} /\ (some => allow = {})
            /\ some /\ allow # {} => result.allow = allow

\* runner_patch.rs, launch_profile_patch.rs: an edit of one section keeps the
\* rest, what it writes is read again, and one after another both are kept; an
\* edit that is refused, or of a file that is not valid, writes nothing.
SomeEdits == [worktree_prefix : Words({"a", ".", " ", "A"}, 3), base_branch : {<<" ">>, <<"b", " ">>},
                setup_commands : Words({<<" ">>, <<"b", " ">>}, 2)]
SomeYamlFiles == {{}, {[Defs!bootstrap EXCEPT !.steps = <<Defs!Playbook("plan", <<"codex-plan">>)>>]},
               {[Defs!bootstrap EXCEPT !.max_parallel_agents = 0]}}
ASSUME EditsChecked ==
    \A file \in SomeYamlFiles, change \in SomeEdits, flag \in BOOLEAN :
        LET written == Defs!update_runner_config(file, change)
        IN  /\ written = {} <=> Defs!load_or_bootstrap(file) = {} \/ ~Defs!validate_patch(Defs!normalize(change))
            /\ \A config \in written : \A old \in Defs!load_or_bootstrap(file) :
                  /\ config = [old EXCEPT !.runner = config.runner]
                  /\ Defs!is_safe_slug(SelectSeq(config.runner.worktree_prefix, LAMBDA c : c # "."))
                  /\ \A i \in DOMAIN config.runner.setup_commands : config.runner.setup_commands[i] = <<"b">>
            /\ Defs!load_or_bootstrap(written) = IF written = {} THEN {Defs!bootstrap} ELSE written
            /\ written # {} => Defs!update_launch_profile_config(written, flag)
                                = Defs!update_runner_config(Defs!update_launch_profile_config(file, flag), change)
            /\ Defs!update_runner_config(written, change) = written \/ written = {}

\* repo_slug.rs: a slug has two parts; a slash after ".git" keeps it.
ASSUME ReposChecked ==
    \A path \in Words({"o", "r", "/", ".git"}, 5) :
        LET slug == Defs!parse_repo_slug([host |-> "https://github.com/", path |-> path])
        IN  /\ \A s \in slug : /\ Cardinality({i \in DOMAIN s : s[i] = "/"}) = 1
                               /\ s[1] # "/" /\ s[Len(s)] # "/"
            /\ path \in {<<"o", "/", "r">>, <<"o", "/", "r", ".git">>, <<"o", "/", "r", "/">>} => slug = {<<"o", "/", "r">>}
            /\ path = <<"o", "/", "r", ".git", "/">> => slug = {<<"o", "/", "r", ".git">>}

\* provider_settings.rs: nobody writes what was detected, or another provider's
\* row; what a start seeds leaves what is there.
ASSUME ProvidersChecked ==
    \A provider, other \in {"codex", "claude", "gpt"} :
        LET forged == [Defs!base(other) EXCEPT !.detected = [Defs!Undetected EXCEPT !.availability = "available"]]
            seeded == Defs!seed_providers(<<>>)
        IN  \A patched \in Defs!patch_provider_settings(seeded, provider, forged) :
                /\ \A p \in DOMAIN patched : patched[p].provider = p /\ patched[p].detected = Defs!Undetected
                /\ \A p \in DOMAIN patched \ {provider} : patched[p] = seeded[p]
                /\ Defs!seed_providers(patched) = patched

\* model.rs: the minutes of a budget do not wrap, and a state without a
\* threshold of its own has the product's.
ASSUME DefaultsChecked ==
    /\ \A m \in 0 .. 5 :
          Defs!run_budget_snapshot([duration_mins_per_run |-> {m}, retries_max_per_run |-> {}, token_ceiling |-> {}], 200)
              .duration_secs = {IF m <= 3 THEN m * 60 ELSE 200}
    /\ \A own \in {<<>>, [s \in {"coding"} |-> 7]}, every \in Optional({1}) :
          LET result == Defs!to_recovery_config([tick_interval_secs |-> every, thresholds_secs |-> own],
                                              [tick_interval |-> 30, thresholds |-> [s \in {"coding", "planning"} |-> 90]])
          IN  result.thresholds["planning"] = 90 /\ result.thresholds["coding"] = IF own = <<>> THEN 90 ELSE 7
=============================================================================
