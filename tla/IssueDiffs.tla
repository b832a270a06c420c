----------------------------- MODULE IssueDiffs -----------------------------
(***************************************************************************)
(* The pull request an issue is linked to: the row that mirrors GitHub and *)
(* the files of its diff, cached under the head they were asked for.  A    *)
(* head is the number of pushes behind it, files are the head they show.   *)
(***************************************************************************)
EXTENDS Integers

CONSTANTS
    Readers,   \* requests for the diff at work at once
    Syncs,     \* syncs of the issue at work at once
    MaxHead    \* bound: pushes

ASSUME HeadAssumption == MaxHead \in Nat \ {0}

Heads  == 1 .. MaxHead
Absent == -1   \* no row
NoSha  == 0    \* the row of a link GitHub said nothing about; no files

VARIABLES
    head,     \* the head on GitHub
    issueRow, \* issue_pull_requests: head_sha
    cache,    \* issue_pull_request_files, by head_sha
    reader,   \* diff_files: control point, its head, the files it fetched
    sync      \* sync_issue_prs: control point and what it will write

diffVars == <<head, issueRow, cache, reader, sync>>

NoRead == [pc |-> "idle", sha |-> NoSha, files |-> NoSha]
NoSync == [pc |-> "idle", sha |-> NoSha]

DiffInit ==
    /\ head = 1 /\ issueRow = Absent /\ cache = [h \in Heads |-> NoSha]
    /\ reader = [r \in Readers |-> NoRead] /\ sync = [y \in Syncs |-> NoSync]

PushHead == head < MaxHead /\ head' = head + 1 /\ UNCHANGED <<issueRow, cache, reader, sync>>

-----------------------------------------------------------------------------
(* sync_issue_prs, of a linked reference or of a row that is stale         *)

\* fetch_pr_details; where it fails only a link without a row leaves one.
FetchDetails(y) ==
    /\ sync[y].pc = "idle"
    /\ \E sha \in {head} \cup IF issueRow = Absent THEN {NoSha} ELSE {} :
          sync' = [sync EXCEPT ![y] = [pc |-> "save", sha |-> sha]]
    /\ UNCHANGED <<head, issueRow, cache, reader>>

SaveDetails(y) ==
    /\ sync[y].pc = "save" /\ sync' = [sync EXCEPT ![y] = NoSync]
    /\ issueRow' \in {sync[y].sha, issueRow}   \* a failed write is logged
    /\ UNCHANGED <<head, cache, reader>>

-----------------------------------------------------------------------------
(* diff_files                                                              *)

Reads(r, read) == reader' = [reader EXCEPT ![r] = read]

Find(r) ==
    /\ reader[r].pc = "idle" /\ issueRow # Absent
    /\ Reads(r, [pc |-> "details", sha |-> issueRow, files |-> NoSha])
    /\ UNCHANGED <<head, issueRow, cache, sync>>

\* Where it fails the row's head is used, and must be known.
Details(r) ==
    /\ reader[r].pc = "details"
    /\ \/ Reads(r, [reader[r] EXCEPT !.pc = "upsert", !.sha = head])
       \/ Reads(r, IF reader[r].sha = NoSha THEN NoRead ELSE [reader[r] EXCEPT !.pc = "list"])
    /\ UNCHANGED <<head, issueRow, cache, sync>>

SaveRow(r) ==
    /\ reader[r].pc = "upsert" /\ issueRow' = reader[r].sha
    /\ Reads(r, [reader[r] EXCEPT !.pc = "list"])
    /\ UNCHANGED <<head, cache, sync>>

\* list_diff_files: what is cached is the answer.
Lookup(r) ==
    /\ reader[r].pc = "list"
    /\ Reads(r, IF cache[reader[r].sha] # NoSha THEN NoRead ELSE [reader[r] EXCEPT !.pc = "fetch"])
    /\ UNCHANGED <<head, issueRow, cache, sync>>

FetchFiles(r) ==
    /\ reader[r].pc = "fetch" /\ Reads(r, [reader[r] EXCEPT !.pc = "store", !.files = head])
    /\ UNCHANGED <<head, issueRow, cache, sync>>

\* Mutant: the files go with the head the row has by then.
ReplaceFilesByRow(r) ==
    /\ reader[r].pc = "store" /\ issueRow \in Heads
    /\ cache' = [cache EXCEPT ![issueRow] = reader[r].files]
    /\ Reads(r, NoRead) /\ UNCHANGED <<head, issueRow, sync>>

ReplaceFiles(r) ==
    /\ reader[r].pc = "store" /\ cache' = [cache EXCEPT ![reader[r].sha] = reader[r].files]
    /\ Reads(r, NoRead) /\ UNCHANGED <<head, issueRow, sync>>

\* A failed query or gh, or a dropped connection.
ReadFails(r) ==
    /\ reader[r].pc # "idle" /\ Reads(r, NoRead) /\ UNCHANGED <<head, issueRow, cache, sync>>

DiffNext ==
    \/ PushHead
    \/ \E y \in Syncs : FetchDetails(y) \/ SaveDetails(y)
    \/ \E r \in Readers : Find(r) \/ Details(r) \/ SaveRow(r) \/ Lookup(r) \/ FetchFiles(r)
                          \/ ReplaceFiles(r) \/ ReadFails(r)
=============================================================================
