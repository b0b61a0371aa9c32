----------------------------- MODULE Workspaces -----------------------------
(***************************************************************************)
(* Workspaces: one git worktree and branch per agent session, as kept by   *)
(* server/lib/workspaces.ts for one parent repository and driven by        *)
(* server/routes/workspaces.ts.  Requests to create and to finish a        *)
(* workspace interleave at every await; agents write in the worktrees and  *)
(* people work in the parent repository; the server may crash between any  *)
(* two steps and reconciles workspaces.json when it boots, before the      *)
(* routes are registered.                                                  *)
(*                                                                         *)
(* A workspace is its slug: the directory, the branch agent/<slug> and the *)
(* record all follow from it.  What a worktree holds beyond its commits is *)
(* one file of each kind git status tells apart, with a version of its     *)
(* content.  One git command is one step.                                  *)
(***************************************************************************)
EXTENDS Naturals, FiniteSets, TLC

CONSTANTS
    Slug,       \* names that create() may draw
    NoSlug,
    Request,    \* concurrent HTTP requests
    MaxWrites,  \* bound on the files agents write
    MaxCrashes  \* bound on the crashes of the server

ASSUME WorkspacesAssumption ==
    /\ NoSlug \notin Slug
    /\ MaxWrites \in Nat
    /\ MaxCrashes \in Nat

VARIABLES
    records,   \* workspaces.json
    tree,      \* per slug: no worktree, one, or one whose directory was deleted
    files,     \* per slug and kind: version of the uncommitted file, 0 if none
    leftovers, \* per slug and kind: version in <project>/.seshmux/leftovers
    branch,    \* per slug: no branch, nothing to merge, commits to merge
    parent,    \* the parent repository: clean, or in whose conflicted merge
    faulty,    \* workspaces.json may be unreadable or unwritable, and reconcile
               \* may fail or pass a worktree over
    server,    \* down or serving
    job,       \* per request: where it is and what it has read
    writes,    \* number of files written so far
    crashes,   \* number of crashes so far
    destroyed, \* history: mode of a finish that deleted a file it was not told
               \* to delete, and whether its status had seen it
    unaware    \* history: requests past their check of MERGE_HEAD that did not
               \* see the merge a person has open

repo == <<tree, files, leftovers, branch, parent>>
rest == <<faulty, writes, crashes, destroyed, unaware>>
vars == <<records, repo, server, job, rest>>

Kind == {"tracked", "untracked", "ignored"}
Mode == {"merge", "keep", "discard"}
None == [k \in Kind |-> 0]

FinishAt == {"status", "ahead", "midmerge", "merge", "abort", "preserve",
             "remove", "branchD", "forget"}
CreateAt == {"add", "record"}

Job == [at : {"idle"} \cup CreateAt \cup FinishAt, slug : Slug \cup {NoSlug},
        mode : Mode, force : BOOLEAN, seen : [Kind -> 0 .. MaxWrites], mid : BOOLEAN]
Idle == [at |-> "idle", slug |-> NoSlug, mode |-> "keep", force |-> FALSE,
         seen |-> None, mid |-> FALSE]

TypeOK ==
    /\ records \subseteq Slug
    /\ tree \in [Slug -> {"none", "there", "lost"}]
    /\ files \in [Slug -> [Kind -> 0 .. MaxWrites]]
    /\ leftovers \in [Slug -> [Kind -> 0 .. MaxWrites]]
    /\ branch \in [Slug -> {"none", "even", "ahead"}]
    /\ parent \in {"clean", "ours", "theirs"}
    /\ server \in {"down", "serving"}
    /\ job \in [Request -> Job]
    /\ \A q \in Request : job[q].at # "idle" => job[q].slug \in Slug
    /\ writes \in 0 .. MaxWrites
    /\ crashes \in 0 .. MaxCrashes
    /\ faulty \in BOOLEAN
    /\ destroyed \subseteq Mode \X {"seen", "unseen"}
    /\ unaware \subseteq Request
    \* A worktree checks its branch out; a missing directory holds no file.
    /\ \A s \in Slug : tree[s] # "none" => branch[s] # "none"
    /\ \A s \in Slug : tree[s] # "there" => files[s] = None
    \* No two requests are making a workspace of the same name.
    /\ \A p, q \in Request :
          job[p].at \in CreateAt /\ job[q].at \in CreateAt
             /\ job[p].slug = job[q].slug => p = q

Init ==
    /\ records = {}
    /\ tree = [s \in Slug |-> "none"]
    /\ files = [s \in Slug |-> None]
    /\ leftovers = [s \in Slug |-> None]
    /\ branch = [s \in Slug |-> "none"]
    /\ parent = "clean"
    /\ faulty \in BOOLEAN
    /\ server = "serving"
    /\ job = [q \in Request |-> Idle]
    /\ writes = 0
    /\ crashes = 0
    /\ destroyed = {}
    /\ unaware = {}

At(q, at) == server = "serving" /\ job[q].at = at
Go(q, j) == job' = [job EXCEPT ![q] = j]
Move(q, at) == Go(q, [job[q] EXCEPT !.at = at])

\* What update() may read: the records, or nothing if the read fails.
Readable == IF faulty THEN {records, {}} ELSE {records}

\* The directories that worktrees have on disk.
There == {s \in Slug : tree[s] = "there"}

-----------------------------------------------------------------------------
(* Create: POST /api/workspaces *)

\* A slip: creates are not queued.
QueueIgnored == TRUE

\* The createQueue lets one createOne() run at a time.
QueueFree == \A q \in Request : job[q].at \notin CreateAt

\* A name is taken by a record, by a branch that git still has, or by a
\* directory (the admin data of a deleted one keeps its branch).
Free(s) ==
    /\ \E known \in Readable : s \notin known
    /\ branch[s] = "none"
    /\ s \notin There

ScanNames(q) ==
    /\ At(q, "idle")
    /\ QueueFree
    /\ \E s \in Slug : Free(s) /\ Go(q, [Idle EXCEPT !.at = "add", !.slug = s])
    /\ UNCHANGED <<records, repo, server, rest>>

\* git worktree add <dir> -b <branch> <default branch>
AddWorktree(q) ==
    /\ At(q, "add")
    /\ LET s == job[q].slug IN
       /\ tree[s] = "none" /\ branch[s] = "none"
       /\ tree' = [tree EXCEPT ![s] = "there"]
       /\ branch' = [branch EXCEPT ![s] = "even"]
    /\ Move(q, "record")
    /\ UNCHANGED <<records, files, leftovers, parent, server, rest>>

\* update(): the record is added to what is read of the file now.  The realpath
\* before it or the write may fail; the worktree is there all the same.
Record(q) ==
    /\ At(q, "record")
    /\ \/ \E known \in Readable : records' = known \cup {job[q].slug}
       \/ faulty /\ records' = records
    /\ Go(q, Idle)
    /\ UNCHANGED <<repo, server, rest>>

-----------------------------------------------------------------------------
(* Finish: DELETE /api/workspaces *)

\* A slug without a record is an unknown workspace, which remove() refuses.
FirstStep(m, force) == IF m = "discard" /\ force THEN "remove" ELSE "status"

Finish(q) ==
    /\ At(q, "idle")
    /\ \E s \in records, m \in Mode, force \in BOOLEAN :
          /\ m # "discard" => ~force
          /\ Go(q, [Idle EXCEPT !.at = FirstStep(m, force), !.slug = s,
                               !.mode = m, !.force = force])
    /\ UNCHANGED <<records, repo, server, rest>>

\* worktreeState(): the kinds of files there are; none if the directory is gone.
Held(s) == {k \in Kind : files[s][k] # 0}

\* The kinds that a status lists.
Listed(seen) == {k \in Kind : seen[k] # 0}

\* The dirty guards: a merge refuses tracked edits, an unforced discard
\* anything that is not ignored.
Dirty(m, seen) ==
    \/ m = "merge" /\ seen["tracked"] # 0
    \/ m = "discard" /\ Listed(seen) \cap {"tracked", "untracked"} # {}

AfterStatus(m) == CASE m = "merge" -> "ahead"
                    [] m = "keep" -> "preserve"
                    [] m = "discard" -> "remove"

ReadStatus(q) ==
    /\ At(q, "status")
    /\ LET j == job[q]
           seen == files[j.slug]
       IN IF Dirty(j.mode, seen)
          THEN Go(q, Idle)
          ELSE Go(q, [j EXCEPT !.at = AfterStatus(j.mode), !.seen = seen])
    /\ UNCHANGED <<records, repo, server, rest>>

\* commitsAhead() = 0: nothing committed to merge, so the merge is refused.
CountAhead(q) ==
    /\ At(q, "ahead")
    /\ IF branch[job[q].slug] = "ahead" THEN Move(q, "midmerge") ELSE Go(q, Idle)
    /\ UNCHANGED <<records, repo, server, rest>>

\* Is MERGE_HEAD set before this finish has touched the parent?  Any failure
\* of git reads as no.
ReadMergeHead(q) ==
    /\ At(q, "midmerge")
    /\ \E mid \in {parent # "clean", FALSE} :
          /\ Go(q, [job[q] EXCEPT !.at = "merge", !.mid = mid])
          /\ unaware' = IF parent = "theirs" /\ ~mid THEN unaware \cup {q} ELSE unaware
    /\ UNCHANGED <<records, repo, server, writes, crashes, destroyed, faulty>>

\* git merge --no-ff <branch>: lands in a clean parent, or stops in a conflict,
\* or does not even start, because a merge is open or anything else is wrong.
Merge(q) ==
    /\ At(q, "merge")
    /\ \/ /\ parent = "clean" /\ branch[job[q].slug] # "none"
          /\ branch' = [branch EXCEPT ![job[q].slug] = "even"]
          /\ parent' = parent
          /\ Move(q, "preserve")
       \/ /\ \/ parent' = parent
             \/ parent = "clean" /\ branch[job[q].slug] = "ahead" /\ parent' = "ours"
          /\ branch' = branch
          /\ Move(q, "abort")
    /\ UNCHANGED <<records, tree, files, leftovers, server, rest>>

\* A slip: the merge that fails is always aborted.
MayAbortAlways(j) == TRUE

\* Only a merge that was not open before is aborted.
MayAbort(j) == ~j.mid

\* git merge --abort, whose failure is ignored; then the error goes to the route.
AbortMerge(q) ==
    /\ At(q, "abort")
    /\ parent' = parent \/ (MayAbort(job[q]) /\ parent' = "clean")
    /\ unaware' = unaware \ {q}
    /\ Go(q, Idle)
    /\ UNCHANGED <<records, tree, files, leftovers, branch, server, writes, crashes, destroyed, faulty>>

\* A slip: only ignored files are carried away before a forced remove.
RescuedIgnored(m, seen) == Listed(seen) \cap {"ignored"}

\* What a finish carries to the leftovers: all that the remove would delete.
Rescued(m, seen) == IF m = "merge" THEN Listed(seen) \cap {"ignored", "untracked"}
                                   ELSE Listed(seen) \cap {"ignored"}

\* preserveIgnoredFiles(): each file is renamed into the leftovers, or copied
\* when they are on another volume; one that fails leaves the others where
\* they went and aborts the finish.
Preserve(q) ==
    /\ At(q, "preserve")
    /\ LET s == job[q].slug
           want == Rescued(job[q].mode, job[q].seen)
       IN \E done \in SUBSET (want \cap Held(s)), copied \in BOOLEAN :
             /\ leftovers' = [leftovers EXCEPT ![s] =
                   [k \in Kind |-> IF k \in done THEN files[s][k] ELSE @[k]]]
             /\ files' = [files EXCEPT ![s] =
                   [k \in Kind |-> IF k \in done /\ ~copied THEN 0 ELSE @[k]]]
             /\ IF done = want THEN Move(q, "remove") ELSE Go(q, Idle)
    /\ UNCHANGED <<records, tree, branch, parent, server, rest>>

\* git worktree remove refuses tracked and untracked files without --force.
GitRefuses(m, s) == m = "keep" /\ Held(s) \cap {"tracked", "untracked"} # {}

\* What the request told seshmux to throw away: an unforced discard, too,
\* removes ignored files without a word.
Waived(j) == IF j.mode # "discard" THEN {}
             ELSE IF j.force THEN Kind ELSE {"ignored"}

Unsaved(j) ==
    {k \in Held(j.slug) \ Waived(j) : leftovers[j.slug][k] # files[j.slug][k]}

\* git worktree remove [--force] <dir>; it also clears the admin data of a
\* directory that is gone, and fails when git knows no such worktree.
RemoveWorktree(q) ==
    /\ At(q, "remove")
    /\ LET j == job[q]
           s == j.slug
       IN /\ tree[s] # "none"
          /\ ~GitRefuses(j.mode, s)
          /\ tree' = [tree EXCEPT ![s] = "none"]
          /\ files' = [files EXCEPT ![s] = None]
          /\ destroyed' = destroyed \cup
                {<<j.mode, IF files[s][k] = j.seen[k] THEN "seen" ELSE "unseen">> :
                    k \in Unsaved(j)}
          /\ Move(q, IF j.mode = "discard" THEN "branchD" ELSE "forget")
    /\ UNCHANGED <<records, leftovers, branch, parent, server, writes, crashes, faulty, unaware>>

\* git branch -D <branch>, refused while some worktree has it checked out.
DeleteBranch(q) ==
    /\ At(q, "branchD")
    /\ LET s == job[q].slug IN
       /\ tree[s] = "none" /\ branch[s] # "none"
       /\ branch' = [branch EXCEPT ![s] = "none"]
    /\ Move(q, "forget")
    /\ UNCHANGED <<records, tree, files, leftovers, parent, server, rest>>

Forget(q) ==
    /\ At(q, "forget")
    /\ \/ \E known \in Readable : records' = known \ {job[q].slug}
       \/ faulty /\ records' = records
    /\ Go(q, Idle)
    /\ UNCHANGED <<repo, server, rest>>

\* A git command that fails rejects the request where it stands; the check of
\* MERGE_HEAD, the merge and its abort have ways of their own to fail.
GitFails(q) ==
    /\ \E at \in {"add", "status", "ahead", "remove", "branchD"} : At(q, at)
    /\ Go(q, Idle)
    /\ UNCHANGED <<records, repo, server, rest>>

-----------------------------------------------------------------------------
(* The server's life *)

Crash ==
    /\ server = "serving"
    /\ crashes < MaxCrashes
    /\ crashes' = crashes + 1
    /\ server' = "down"
    /\ job' = [q \in Request |-> Idle]
    /\ unaware' = {}
    /\ UNCHANGED <<records, repo, faulty, writes, destroyed>>

\* A slip: reconcile() only prunes.
AdoptedNone(kept) == {}

\* findOrphanWorktrees(): directories under the worktrees root that git lists
\* and that no kept record names.
Adopted(kept) == There \ kept

\* reconcile(): records are kept if their directory is there and git lists it,
\* and dropped when git cannot be asked in the parent repository.  When things
\* go wrong it fails, which the server ignores, or passes over a worktree that
\* it cannot read, that git does not answer for or whose branch is not agent/.
Boot ==
    /\ server = "down"
    /\ \/ \E unreachable \in SUBSET records :
             LET kept == (records \ unreachable) \cap There
             IN records' = kept \cup Adopted(kept)
       \/ faulty /\ records' \in SUBSET (records \cup There)
    /\ server' = "serving"
    /\ UNCHANGED <<repo, job, rest>>

-----------------------------------------------------------------------------
(* Agents and people *)

AgentWrites(s, k) ==
    /\ tree[s] = "there"
    /\ writes < MaxWrites
    /\ writes' = writes + 1
    /\ files' = [files EXCEPT ![s][k] = writes + 1]
    /\ UNCHANGED <<records, tree, leftovers, branch, parent, server, job, crashes, destroyed, faulty, unaware>>

AgentCommits(s) ==
    /\ Held(s) \cap {"tracked", "untracked"} # {}
    /\ files' = [files EXCEPT ![s] = [None EXCEPT !["ignored"] = files[s]["ignored"]]]
    /\ branch' = [branch EXCEPT ![s] = "ahead"]
    /\ UNCHANGED <<records, tree, leftovers, parent, server, job, rest>>

DirDeleted(s) ==
    /\ tree[s] = "there"
    /\ tree' = [tree EXCEPT ![s] = "lost"]
    /\ files' = [files EXCEPT ![s] = None]
    /\ UNCHANGED <<records, leftovers, branch, parent, server, job, rest>>

BranchDeleted(s) ==
    /\ tree[s] = "none" /\ branch[s] # "none"
    /\ branch' = [branch EXCEPT ![s] = "none"]
    /\ UNCHANGED <<records, tree, files, leftovers, parent, server, job, rest>>

PersonMerges ==
    /\ parent = "clean"
    /\ parent' = "theirs"
    /\ unaware' = {q \in Request : job[q].at \in {"merge", "abort"}}
    /\ UNCHANGED <<records, tree, files, leftovers, branch, server, job, writes, crashes, destroyed, faulty>>

\* A person concludes or aborts a merge, also one that a crash left open.
PersonConcludes ==
    /\ parent # "clean"
    /\ parent' = "clean"
    /\ unaware' = {}
    /\ UNCHANGED <<records, tree, files, leftovers, branch, server, job, writes, crashes, destroyed, faulty>>

-----------------------------------------------------------------------------
CreateStep(q) == ScanNames(q) \/ AddWorktree(q) \/ Record(q)

FinishStep(q) ==
    \/ Finish(q) \/ ReadStatus(q) \/ CountAhead(q) \/ ReadMergeHead(q) \/ Merge(q)
    \/ AbortMerge(q) \/ Preserve(q) \/ RemoveWorktree(q) \/ DeleteBranch(q) \/ Forget(q)

Outside ==
    \/ \E s \in Slug :
          \/ \E k \in Kind : AgentWrites(s, k)
          \/ AgentCommits(s) \/ DirDeleted(s) \/ BranchDeleted(s)
    \/ PersonMerges \/ PersonConcludes

Next ==
    \/ \E q \in Request : CreateStep(q) \/ FinishStep(q) \/ GitFails(q)
    \/ Crash \/ Boot
    \/ Outside

Spec == Init /\ [][Next]_vars

-----------------------------------------------------------------------------
(* Properties *)

\* workspaces.ts:519-525, 536-606.  No finish deletes a file that its request
\* did not give up and that its git status had found: when the worktree is
\* removed such a file is in the leftovers with the same content, or has been
\* written again since.  This whatever other requests, agents, people, failing
\* commands and crashes do in between.
NothingDestroyed == \A d \in destroyed : d[2] = "unseen"

\* workspaces.ts:537.  "Merge is the mode users pick to KEEP work, so it must
\* never destroy any": a merge deletes no file that is not in the leftovers.
MergeDestroysNothing == \A d \in destroyed : d[1] # "merge"

\* workspaces.ts:690-695.  Unless files or reconcile fail, a worktree in
\* seshmux's directory has a record while the server serves, so that it can be
\* seen and finished: concurrent requests and crashes between git and the file
\* cost none, and the request that makes it is about to write the record.
Recorded ==
    ~faulty /\ server = "serving" =>
        \A s \in There :
            \/ s \in records
            \/ \E q \in Request : job[q].at = "record" /\ job[q].slug = s

\* workspaces.ts:560-575.  A merge that a person has open in the parent
\* repository is ended by nobody else, except that a finish whose check of
\* MERGE_HEAD failed, or came before that merge was begun, may abort it.
TheirMergeStays ==
    [][parent = "theirs" /\ parent' # "theirs" =>
          PersonConcludes \/ \E q \in unaware : AbortMerge(q)]_vars
=============================================================================
