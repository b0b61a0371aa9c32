-------------------------- MODULE WorkspacesProofs --------------------------
(***************************************************************************)
(* Proofs that, for any number of names, requests, writes and crashes, and *)
(* whoever works in the repository meanwhile, a finish deletes nothing     *)
(* that its status found, a person's merge is ended only by a finish that  *)
(* could not know of it, and while files and git can be read no worktree   *)
(* goes without a record.                                                  *)
(***************************************************************************)
EXTENDS Workspaces, TLAPS

\* A request that has removed the worktree of a name is the only one, and the
\* name is not free before it has dropped the record.
Leaving(q) == job[q].at \in {"branchD", "forget"}
Making(q, s) == job[q].at = "record" /\ job[q].slug = s
Known(s) == s \in records \/ \E q \in Request : Making(q, s)

NamesInv ==
    /\ \A q \in Request : Leaving(q) => tree[job[q].slug] = "none"
    /\ \A q \in Request : job[q].at \in FinishAt =>
          (Leaving(q) \/ tree[job[q].slug] # "none" => Known(job[q].slug))
    /\ \A p, q \in Request : Leaving(p) /\ Leaving(q) /\ job[p].slug = job[q].slug => p = q
    /\ \A q \in Request : job[q].at = "add" =>
          /\ job[q].slug \notin records
          /\ tree[job[q].slug] = "none"
          /\ \A p \in Request : Leaving(p) => job[p].slug # job[q].slug
    /\ \A p, q \in Request : job[p].at \in CreateAt /\ job[q].at \in CreateAt => p = q
    /\ server = "down" => \A q \in Request : job[q] = Idle

\* A finish that goes by its status has not refused what it saw there, and
\* before the remove each file as it saw it is in the leftovers, if it rescues
\* such files at all.
Decided == {"ahead", "midmerge", "merge", "preserve", "remove"}

SeenFor(q) ==
    job[q].at \in Decided /\ ~(job[q].mode = "discard" /\ job[q].force) =>
        /\ ~Dirty(job[q].mode, job[q].seen)
        /\ job[q].at = "remove" /\ job[q].mode # "discard" =>
              \A k \in Rescued(job[q].mode, job[q].seen) :
                 files[job[q].slug][k] = job[q].seen[k] =>
                     leftovers[job[q].slug][k] = job[q].seen[k]

SeenInv == \A q \in Request : SeenFor(q)

\* No file and no status is newer than the last write.
VersionInv ==
    /\ \A s \in Slug, k \in Kind : files[s][k] <= writes
    /\ \A q \in Request, k \in Kind : job[q].seen[k] <= writes

-----------------------------------------------------------------------------
\* What a step of request q does to the jobs.
LEMMA GoFacts ==
  ASSUME job \in [Request -> Job], NEW q \in Request, NEW j \in Job, Go(q, j)
  PROVE /\ job' \in [Request -> Job]
        /\ job'[q] = j
        /\ \A p \in Request \ {q} : job'[p] = job[p]
  BY DEF Go

LEMMA MoveFacts ==
  ASSUME job \in [Request -> Job], NEW q \in Request,
         NEW at \in {"idle"} \cup CreateAt \cup FinishAt, Move(q, at)
  PROVE /\ job' \in [Request -> Job]
        /\ job'[q].at = at
        /\ job'[q].slug = job[q].slug
        /\ job'[q].mode = job[q].mode
        /\ job'[q].force = job[q].force
        /\ job'[q].seen = job[q].seen
        /\ job'[q].mid = job[q].mid
        /\ \A p \in Request \ {q} : job'[p] = job[p]
<1> DEFINE j == [job[q] EXCEPT !.at = at]
<1>1. /\ j \in Job
      /\ j.at = at
      /\ j.slug = job[q].slug
      /\ j.mode = job[q].mode
      /\ j.force = job[q].force
      /\ j.seen = job[q].seen
      /\ j.mid = job[q].mid
  BY DEF Job
<1>2. Go(q, j)
  BY DEF Move
<1> HIDE DEF j
<1> QED BY <1>1, <1>2, GoFacts

LEMMA IdleFacts ==
    /\ Idle \in Job
    /\ Idle.at = "idle"
    /\ Idle.seen = None
  BY WorkspacesAssumption DEF Idle, Job, Mode, None

LEMMA StatusFacts ==
  ASSUME TypeOK, NEW q \in Request, ReadStatus(q)
  PROVE \/ Go(q, Idle)
        \/ \E j \in Job : 
             /\ Go(q, j)
             /\ j.at = AfterStatus(job[q].mode)
             /\ j.seen = files[job[q].slug]
             /\ j.mode = job[q].mode
             /\ j.slug = job[q].slug
             /\ j.force = job[q].force
             /\ ~Dirty(j.mode, j.seen)
<1> DEFINE j == [job[q] EXCEPT !.at = AfterStatus(job[q].mode), !.seen = files[job[q].slug]]
<1>1. CASE Go(q, Idle)
  BY <1>1
<1>2. CASE Go(q, j) /\ ~Dirty(job[q].mode, files[job[q].slug])
  <2>1. job[q] \in Job /\ AfterStatus(job[q].mode) \in FinishAt
        /\ files[job[q].slug] \in [Kind -> 0 .. MaxWrites]
    BY <1>2 DEF TypeOK, Job, AfterStatus, FinishAt, Mode, ReadStatus, At
  <2>2. /\ j \in Job
        /\ j.at = AfterStatus(job[q].mode)
        /\ j.slug = job[q].slug
        /\ j.mode = job[q].mode
        /\ j.force = job[q].force
        /\ j.seen = files[job[q].slug]
    BY <2>1 DEF Job
  <2> HIDE DEF j
  <2> QED BY <1>2, <2>2
<1> QED BY <1>1, <1>2 DEF ReadStatus

LEMMA FinishFacts ==
  ASSUME TypeOK, NEW q \in Request, Finish(q)
  PROVE \E j \in Job, s \in records :
          /\ Go(q, j)
          /\ j.slug = s
          /\ j.at = FirstStep(j.mode, j.force)
          /\ j.seen = None
<1>1. PICK s \in records, m \in Mode, force \in BOOLEAN :
         Go(q, [Idle EXCEPT !.at = FirstStep(m, force), !.slug = s, !.mode = m, !.force = force])
  BY DEF Finish
<1> DEFINE j == [Idle EXCEPT !.at = FirstStep(m, force), !.slug = s, !.mode = m, !.force = force]
<1>2. j \in Job /\ j.slug = s /\ j.mode = m /\ j.force = force /\ j.at = FirstStep(m, force)
      /\ j.seen = None
  BY IdleFacts DEF Job, FirstStep, FinishAt, TypeOK, Idle
<1> HIDE DEF j
<1> QED BY <1>1, <1>2 DEF j

LEMMA ScanFacts ==
  ASSUME TypeOK, NEW q \in Request, ScanNames(q)
  PROVE \E j \in Job, s \in Slug :
          /\ Go(q, j)
          /\ Free(s)
          /\ j.slug = s
          /\ j.at = "add"
          /\ j.seen = None
<1>1. PICK s \in Slug : Free(s) /\ Go(q, [Idle EXCEPT !.at = "add", !.slug = s])
  BY DEF ScanNames
<1> DEFINE j == [Idle EXCEPT !.at = "add", !.slug = s]
<1>2. j \in Job /\ j.slug = s /\ j.at = "add" /\ j.seen = None
  BY IdleFacts DEF Job, CreateAt
<1> HIDE DEF j
<1> QED BY <1>1, <1>2 DEF j

LEMMA MergeHeadFacts ==
  ASSUME TypeOK, NEW q \in Request, ReadMergeHead(q)
  PROVE \E j \in Job :
          /\ Go(q, j)
          /\ j.at = "merge"
          /\ j.slug = job[q].slug
          /\ j.mode = job[q].mode
          /\ j.force = job[q].force
          /\ j.seen = job[q].seen
          /\ parent = "theirs" /\ ~j.mid => q \in unaware'
          /\ unaware \subseteq unaware'
<1>1. PICK mid \in BOOLEAN :
         /\ Go(q, [job[q] EXCEPT !.at = "merge", !.mid = mid])
         /\ unaware' = IF parent = "theirs" /\ ~mid THEN unaware \cup {q} ELSE unaware
  BY DEF ReadMergeHead
<1> DEFINE j == [job[q] EXCEPT !.at = "merge", !.mid = mid]
<1>2. job[q] \in Job
  BY DEF TypeOK
<1>3. /\ j \in Job
      /\ j.at = "merge"
      /\ j.slug = job[q].slug
      /\ j.mode = job[q].mode
      /\ j.force = job[q].force
      /\ j.seen = job[q].seen
      /\ j.mid = mid
  BY <1>2 DEF Job, FinishAt
<1>4. Go(q, j)
  BY <1>1
<1> HIDE DEF j
<1> QED BY <1>1, <1>3, <1>4

-----------------------------------------------------------------------------
\* The two halves of TypeOK: the jobs, and all else.
JobsOK ==
    /\ job \in [Request -> Job]
    /\ \A q \in Request : job[q].at # "idle" => job[q].slug \in Slug
    /\ \A p, q \in Request :
          job[p].at \in CreateAt /\ job[q].at \in CreateAt
             /\ job[p].slug = job[q].slug => p = q

StoreOK ==
    /\ records \subseteq Slug
    /\ tree \in [Slug -> {"none", "there", "lost"}]
    /\ files \in [Slug -> [Kind -> 0 .. MaxWrites]]
    /\ leftovers \in [Slug -> [Kind -> 0 .. MaxWrites]]
    /\ branch \in [Slug -> {"none", "even", "ahead"}]
    /\ parent \in {"clean", "ours", "theirs"}
    /\ server \in {"down", "serving"}
    /\ writes \in 0 .. MaxWrites
    /\ crashes \in 0 .. MaxCrashes
    /\ faulty \in BOOLEAN
    /\ destroyed \subseteq Mode \X {"seen", "unseen"}
    /\ unaware \subseteq Request
    /\ \A s \in Slug : tree[s] # "none" => branch[s] # "none"
    /\ \A s \in Slug : tree[s] # "there" => files[s] = None

LEMMA TypeSplit == TypeOK <=> StoreOK /\ JobsOK
  BY DEF TypeOK, StoreOK, JobsOK

\* A request that goes idle, or moves on with its name and is not making a
\* workspace unless it was, keeps the jobs well formed.
LEMMA JobsStep ==
  ASSUME JobsOK, NEW q \in Request,
         job' \in [Request -> Job],
         \A p \in Request \ {q} : job'[p] = job[p],
         \/ job'[q].at = "idle"
         \/ /\ job'[q].slug \in Slug
            /\ job'[q].at \in CreateAt =>
                  \/ job[q].at \in CreateAt /\ job'[q].slug = job[q].slug
                  \/ \A p \in Request : job[p].at \notin CreateAt
  PROVE JobsOK'
  BY DEF JobsOK, CreateAt

LEMMA JobsInductive == TypeOK /\ [Next]_vars => JobsOK'
<1> SUFFICES ASSUME TypeOK, [Next]_vars PROVE JobsOK'
  OBVIOUS
<1>0. JobsOK /\ StoreOK
  BY TypeSplit
<1>1. job \in [Request -> Job]
  BY <1>0 DEF JobsOK
<1>a. ASSUME NEW q \in Request, Go(q, Idle) PROVE JobsOK'
  BY <1>0, <1>1, <1>a, IdleFacts, GoFacts, JobsStep
<1>b. ASSUME NEW q \in Request, NEW at \in CreateAt \cup FinishAt, Move(q, at),
             job[q].at # "idle", at \in CreateAt => job[q].at \in CreateAt
      PROVE JobsOK'
  <2>1. job[q].slug \in Slug
    BY <1>0, <1>b DEF JobsOK
  <2>2. /\ job' \in [Request -> Job]
        /\ job'[q].at = at
        /\ job'[q].slug = job[q].slug
        /\ \A p \in Request \ {q} : job'[p] = job[p]
    BY <1>1, <1>b, MoveFacts
  <2> QED BY <1>0, <1>b, <2>1, <2>2, JobsStep
<1>2. ASSUME NEW q \in Request, ScanNames(q) PROVE JobsOK'
  <2>1. PICK j \in Job, s \in Slug : Go(q, j) /\ j.slug = s /\ j.at = "add"
    BY <1>2, ScanFacts
  <2>2. QueueFree
    BY <1>2 DEF ScanNames
  <2> QED BY <1>0, <1>1, <2>1, <2>2, GoFacts, JobsStep DEF QueueFree
<1>3. ASSUME NEW q \in Request, Finish(q) PROVE JobsOK'
  <2>1. PICK j \in Job, s \in records :
           Go(q, j) /\ j.slug = s /\ j.at = FirstStep(j.mode, j.force)
    BY <1>3, FinishFacts
  <2> QED BY <1>0, <1>1, <2>1, GoFacts, JobsStep DEF FirstStep, CreateAt, StoreOK
<1>4. ASSUME NEW q \in Request, ReadStatus(q) PROVE JobsOK'
  <2>1. CASE Go(q, Idle)
    BY <1>a, <2>1
  <2>2. ASSUME NEW j \in Job, Go(q, j), j.at = AfterStatus(job[q].mode), j.slug = job[q].slug
        PROVE JobsOK'
    <3>1. job[q].slug \in Slug /\ job[q].mode \in Mode
      BY <1>0, <1>1, <1>4 DEF ReadStatus, At, JobsOK, Job
    <3> QED BY <1>0, <1>1, <2>2, <3>1, GoFacts, JobsStep DEF AfterStatus, CreateAt, Mode
  <2> QED BY <1>4, <2>1, <2>2, StatusFacts
<1>5. ASSUME NEW q \in Request, ReadMergeHead(q) PROVE JobsOK'
  <2>1. PICK j \in Job : Go(q, j) /\ j.at = "merge" /\ j.slug = job[q].slug
    BY <1>5, MergeHeadFacts
  <2>2. job[q].slug \in Slug
    BY <1>0, <1>5 DEF ReadMergeHead, At, JobsOK
  <2> QED BY <1>0, <1>1, <2>1, <2>2, GoFacts, JobsStep DEF CreateAt
<1>6. ASSUME NEW q \in Request, AddWorktree(q) PROVE JobsOK'
  BY <1>6, <1>b DEF AddWorktree, At, CreateAt
<1>7. ASSUME NEW q \in Request, CountAhead(q) PROVE JobsOK'
  BY <1>7, <1>a, <1>b DEF CountAhead, At, CreateAt, FinishAt
<1>8. ASSUME NEW q \in Request, Merge(q) PROVE JobsOK'
  BY <1>8, <1>b DEF Merge, At, CreateAt, FinishAt
<1>9. ASSUME NEW q \in Request, Preserve(q) PROVE JobsOK'
  BY <1>9, <1>a, <1>b DEF Preserve, At, CreateAt, FinishAt
<1>10. ASSUME NEW q \in Request, RemoveWorktree(q) PROVE JobsOK'
  BY <1>10, <1>b DEF RemoveWorktree, At, CreateAt, FinishAt
<1>11. ASSUME NEW q \in Request, DeleteBranch(q) PROVE JobsOK'
  BY <1>11, <1>b DEF DeleteBranch, At, CreateAt, FinishAt
<1>12. ASSUME NEW q \in Request, Record(q) \/ AbortMerge(q) \/ Forget(q) \/ GitFails(q)
       PROVE JobsOK'
  BY <1>12, <1>a DEF Record, AbortMerge, Forget, GitFails
<1>13. CASE Crash
  BY <1>13, IdleFacts DEF Crash, JobsOK, CreateAt
<1>14. CASE Boot \/ Outside \/ UNCHANGED vars
  BY <1>0, <1>14 DEF Boot, Outside, AgentWrites, AgentCommits, DirDeleted, BranchDeleted,
     PersonMerges, PersonConcludes, vars, JobsOK
<1> QED
  BY <1>2, <1>3, <1>4, <1>5, <1>6, <1>7, <1>8, <1>9, <1>10, <1>11, <1>12, <1>13, <1>14
     DEF Next, CreateStep, FinishStep

LEMMA StoreInductive == TypeOK /\ [Next]_vars => StoreOK'
<1> SUFFICES ASSUME TypeOK, [Next]_vars PROVE StoreOK'
  OBVIOUS
<1>0. /\ JobsOK /\ StoreOK
      /\ \A q \in Request : job[q].at # "idle" => job[q].slug \in Slug
  BY TypeSplit DEF JobsOK
<1> USE <1>0, WorkspacesAssumption DEF At
<1>1. ASSUME NEW q \in Request,
             ScanNames(q) \/ Finish(q) \/ ReadStatus(q) \/ CountAhead(q) \/ ReadMergeHead(q) \/ GitFails(q)
      PROVE StoreOK'
  BY <1>1 DEF ScanNames, Finish, ReadStatus, CountAhead, ReadMergeHead, GitFails, StoreOK, repo, rest
<1>2. ASSUME NEW q \in Request, AddWorktree(q) PROVE StoreOK'
  BY <1>2 DEF AddWorktree, StoreOK, rest
<1>3. ASSUME NEW q \in Request, Record(q) \/ Forget(q) PROVE StoreOK'
  BY <1>3 DEF Record, Forget, StoreOK, repo, rest, Readable
<1>4. ASSUME NEW q \in Request, Merge(q) PROVE StoreOK'
  BY <1>4 DEF Merge, StoreOK, rest
<1>5. ASSUME NEW q \in Request, AbortMerge(q) PROVE StoreOK'
  BY <1>5 DEF AbortMerge, StoreOK
<1>6. ASSUME NEW q \in Request, Preserve(q) PROVE StoreOK'
  <2> DEFINE s == job[q].slug
  <2>1. PICK done \in SUBSET (Rescued(job[q].mode, job[q].seen) \cap Held(s)), copied \in BOOLEAN :
           /\ leftovers' = [leftovers EXCEPT ![s] =
                [k \in Kind |-> IF k \in done THEN files[s][k] ELSE @[k]]]
           /\ files' = [files EXCEPT ![s] =
                [k \in Kind |-> IF k \in done /\ ~copied THEN 0 ELSE @[k]]]
    BY <1>6 DEF Preserve
  <2>2. s \in Slug /\ UNCHANGED <<records, tree, branch, parent, server, rest>>
    BY <1>6 DEF Preserve
  <2>3. files' \in [Slug -> [Kind -> 0 .. MaxWrites]] /\ leftovers' \in [Slug -> [Kind -> 0 .. MaxWrites]]
    BY <2>1, <2>2 DEF StoreOK
  <2>4. ASSUME NEW t \in Slug, tree[t] # "there" PROVE files'[t] = None
    <3>1. files[t] = None
      BY <2>4 DEF StoreOK
    <3>2. CASE t = s
      BY <2>1, <2>2, <3>1, <3>2 DEF None, StoreOK
    <3> QED BY <2>1, <2>2, <3>1, <3>2 DEF StoreOK
  <2> QED BY <2>2, <2>3, <2>4 DEF StoreOK, rest
<1>7. ASSUME NEW q \in Request, RemoveWorktree(q) PROVE StoreOK'
  <2>1. job[q].mode \in Mode
    BY DEF JobsOK, Job
  <2> QED BY <1>7, <2>1 DEF RemoveWorktree, StoreOK, None, rest
<1>8. ASSUME NEW q \in Request, DeleteBranch(q) PROVE StoreOK'
  BY <1>8 DEF DeleteBranch, StoreOK, rest
<1>9. CASE Crash \/ Boot
  BY <1>9 DEF Crash, Boot, Adopted, There, StoreOK, repo, rest
<1>10. ASSUME NEW s \in Slug, NEW k \in Kind, AgentWrites(s, k) PROVE StoreOK'
  BY <1>10 DEF AgentWrites, StoreOK
<1>11. ASSUME NEW s \in Slug, AgentCommits(s) PROVE StoreOK'
  <2>1. files[s] \in [Kind -> 0 .. MaxWrites] /\ files[s] # None
    BY <1>11 DEF AgentCommits, Held, StoreOK, None
  <2>2. [None EXCEPT !["ignored"] = files[s]["ignored"]] \in [Kind -> 0 .. MaxWrites]
    BY <2>1 DEF None, Kind
  <2> QED BY <1>11, <2>1, <2>2 DEF AgentCommits, StoreOK, rest
<1>12. ASSUME NEW s \in Slug, DirDeleted(s) PROVE StoreOK'
  BY <1>12 DEF DirDeleted, StoreOK, None, rest
<1>13. ASSUME NEW s \in Slug, BranchDeleted(s) PROVE StoreOK'
  BY <1>13 DEF BranchDeleted, StoreOK, rest
<1>14. CASE PersonMerges \/ PersonConcludes \/ UNCHANGED vars
  BY <1>14 DEF PersonMerges, PersonConcludes, StoreOK, vars, repo, rest
<1> QED
  BY <1>1, <1>2, <1>3, <1>4, <1>5, <1>6, <1>7, <1>8, <1>9, <1>10, <1>11, <1>12, <1>13, <1>14
     DEF Next, CreateStep, FinishStep, Outside

LEMMA TypeOKInductive == TypeOK /\ [Next]_vars => TypeOK'
<1> SUFFICES ASSUME TypeOK, [Next]_vars PROVE TypeOK'
  OBVIOUS
<1>1. JobsOK' /\ StoreOK'
  BY JobsInductive, StoreInductive
<1> QED BY <1>1 DEF TypeOK, StoreOK, JobsOK

LEMMA TypeOKInit == Init => TypeOK
<1> SUFFICES ASSUME Init PROVE TypeOK
  OBVIOUS
<1>1. JobsOK
  BY IdleFacts DEF Init, JobsOK, CreateAt
<1>2. StoreOK
  BY WorkspacesAssumption DEF Init, StoreOK, None
<1> QED BY <1>1, <1>2, TypeSplit

\* The state of the workspaces is well typed, and no two requests are making a
\* workspace of the same name (workspaces.ts:306-325).
THEOREM WorkspacesTypeOK == Spec => []TypeOK
  BY TypeOKInit, TypeOKInductive, PTL DEF Spec

-----------------------------------------------------------------------------
NamesOK == NamesInv /\ Recorded

\* A step of a request that touches neither the records nor the worktrees, and
\* neither begins nor ends the making or the leaving of a workspace.
LEMMA QuietStep ==
  ASSUME ~faulty, NamesOK, NEW q \in Request, server = "serving",
         UNCHANGED <<records, tree, server>>,
         \A p \in Request \ {q} : job'[p] = job[p],
         job[q].at # "record",
         \/ job'[q].at = "idle"
         \/ /\ job[q].at \in FinishAt /\ job'[q].at \in FinishAt
            /\ Leaving(q)' <=> Leaving(q)
            /\ job'[q].slug = job[q].slug
  PROVE NamesOK'
<1>1. \A s : Known(s) <=> Known(s)'
  BY DEF Known, Making, FinishAt
<1>2. Recorded'
  BY <1>1 DEF NamesOK, Recorded, There, Known, Making
<1>3. NamesInv'
  BY <1>1 DEF NamesOK, NamesInv, Leaving, FinishAt, CreateAt
<1> QED BY <1>2, <1>3 DEF NamesOK

LEMMA NamesInductive ==
  ASSUME ~faulty, TypeOK, NamesOK, [Next]_vars
  PROVE NamesOK'
<1>0. /\ JobsOK /\ StoreOK
      /\ job \in [Request -> Job]
      /\ \A q \in Request : job[q].at # "idle" => job[q].slug \in Slug
  BY TypeSplit DEF JobsOK
<1>a. ASSUME NEW q \in Request, Go(q, Idle), At(q, job[q].at), job[q].at # "record",
             UNCHANGED <<records, tree, server>>
      PROVE NamesOK'
  <2>1. job'[q].at = "idle" /\ \A p \in Request \ {q} : job'[p] = job[p]
    BY <1>0, <1>a, IdleFacts, GoFacts
  <2> QED BY <1>a, <2>1, QuietStep DEF At
<1>b. ASSUME NEW q \in Request, NEW at \in FinishAt, Move(q, at), At(q, job[q].at),
             job[q].at \in FinishAt, at \in {"branchD", "forget"} <=> Leaving(q),
             UNCHANGED <<records, tree, server>>
      PROVE NamesOK'
  <2>1. /\ job'[q].at = at
        /\ job'[q].slug = job[q].slug
        /\ \A p \in Request \ {q} : job'[p] = job[p]
    BY <1>0, <1>b, MoveFacts
  <2>2. job[q].at # "record" /\ job'[q].at \in FinishAt /\ (Leaving(q)' <=> Leaving(q))
    BY <1>b, <2>1 DEF FinishAt, Leaving
  <2> QED BY <1>b, <2>1, <2>2, QuietStep DEF At
<1>1. ASSUME NEW q \in Request, ScanNames(q) PROVE NamesOK'
  <2>1. PICK j \in Job, s \in Slug : Go(q, j) /\ Free(s) /\ j.slug = s /\ j.at = "add"
    BY <1>1, ScanFacts
  <2>2. job'[q] = j /\ \A p \in Request \ {q} : job'[p] = job[p]
    BY <1>0, <2>1, GoFacts
  <2>3. /\ At(q, "idle") /\ \A p \in Request : job[p].at \notin CreateAt
        /\ UNCHANGED <<records, tree, server>>
    BY <1>1 DEF ScanNames, QueueFree, repo
  <2>4. s \notin records /\ tree[s] = "none"
    BY <2>1 DEF Free, Readable, There, StoreOK, TypeOK
  <2>5. \A p \in Request : Leaving(p) => job[p].slug # s
    BY <2>3, <2>4 DEF NamesOK, NamesInv, Known, Making, CreateAt, Leaving, FinishAt
  <2>6. \A t : Known(t) <=> Known(t)'
    BY <2>1, <2>2, <2>3 DEF Known, Making, At, CreateAt
  <2>7. Recorded'
    BY <2>3, <2>6 DEF NamesOK, Recorded, There, Known, Making
  <2>8. NamesInv'
    BY <2>1, <2>2, <2>3, <2>4, <2>5, <2>6 DEF NamesOK, NamesInv, Leaving, FinishAt, CreateAt, At
  <2> QED BY <2>7, <2>8 DEF NamesOK
<1>2. ASSUME NEW q \in Request, AddWorktree(q) PROVE NamesOK'
  <2>0. PICK s \in Slug : s = job[q].slug
    BY <1>0, <1>2 DEF AddWorktree, At
  <2>1. /\ job'[q].at = "record"
        /\ job'[q].slug = s
        /\ \A p \in Request \ {q} : job'[p] = job[p]
    BY <1>0, <1>2, <2>0, MoveFacts DEF AddWorktree, CreateAt
  <2>2. /\ At(q, "add") /\ s \in Slug
        /\ tree' = [tree EXCEPT ![s] = "there"]
        /\ UNCHANGED <<records, server>>
    BY <1>0, <1>2, <2>0 DEF AddWorktree, At
  <2>3. \A t : Known(t) => Known(t)'
    BY <2>0, <2>1, <2>2 DEF Known, Making, At
  <2>4. Known(s)'
    BY <2>0, <2>1 DEF Known, Making
  <2>a. \A t \in Slug : t # s => tree'[t] = tree[t]
    BY <1>0, <2>2 DEF StoreOK
  <2>b. tree'[s] = "there"
    BY <1>0, <2>2 DEF StoreOK
  <2>5. Recorded'
    <3> SUFFICES ASSUME NEW t \in Slug, server = "serving", tree'[t] = "there" PROVE Known(t)'
      BY <2>2 DEF Recorded, There, Known, Making
    <3>1. CASE t = s
      BY <2>4, <3>1 DEF Known, Making
    <3>2. CASE t # s
      BY <2>3, <2>a, <3>2 DEF NamesOK, Recorded, There, Known, Making
    <3> QED BY <3>1, <3>2
  <2>6. NamesInv'
    <3>1. \A p \in Request : Leaving(p)' => Leaving(p) /\ p # q /\ job[p].slug # s
      BY <2>0, <2>1, <2>2 DEF NamesOK, NamesInv, Leaving, At
    <3>2. \A p \in Request : job'[p].at = "add" => FALSE
      BY <2>0, <2>1, <2>2 DEF NamesOK, NamesInv, CreateAt, At
    <3>3. \A p \in Request : job'[p].at \in FinishAt => p # q
      BY <2>1 DEF FinishAt
    <3>4. \A p \in Request : Leaving(p)' => tree'[job'[p].slug] = "none"
      BY <1>0, <2>0, <2>1, <2>a, <3>1 DEF NamesOK, NamesInv, Leaving
    <3>5. ASSUME NEW p \in Request, job'[p].at \in FinishAt,
                 Leaving(p)' \/ tree'[job'[p].slug] # "none"
          PROVE Known(job[p].slug)'
      <4>1. job'[p] = job[p] /\ job[p].slug \in Slug
        BY <1>0, <2>0, <2>1, <3>3, <3>5 DEF FinishAt
      <4>2. CASE job[p].slug = s
        BY <2>4, <4>1, <4>2 DEF Known, Making
      <4>3. CASE job[p].slug # s
        BY <2>3, <2>a, <3>1, <3>5, <4>1, <4>3 DEF NamesOK, NamesInv, Known, Making, Leaving
      <4> QED BY <4>2, <4>3
    <3>6. \A p, r \in Request : Leaving(p)' /\ Leaving(r)' /\ job'[p].slug = job'[r].slug => p = r
      BY <2>1, <3>1 DEF NamesOK, NamesInv
    <3>7. \A p, r \in Request : job'[p].at \in CreateAt /\ job'[r].at \in CreateAt => p = r
      BY <2>0, <2>1, <2>2 DEF NamesOK, NamesInv, CreateAt, At
    <3> QED BY <2>2, <3>2, <3>4, <3>5, <3>6, <3>7 DEF NamesInv, At
  <2> QED BY <2>5, <2>6 DEF NamesOK
<1>3. ASSUME NEW q \in Request, Record(q) PROVE NamesOK'
  <2>0. PICK s \in Slug : s = job[q].slug
    BY <1>0, <1>3 DEF Record, At
  <2>1. job'[q].at = "idle" /\ \A p \in Request \ {q} : job'[p] = job[p]
    BY <1>0, <1>3, <2>0, IdleFacts, GoFacts DEF Record
  <2>2. At(q, "record") /\ records' = records \cup {s} /\ UNCHANGED <<tree, server>>
    BY <1>3, <2>0 DEF Record, Readable, repo
  <2>3. \A t : Known(t) => Known(t)'
    BY <2>0, <2>1, <2>2 DEF Known, Making
  <2>4. Recorded'
    BY <2>2, <2>3 DEF NamesOK, Recorded, There, Known, Making
  <2>5. NamesInv'
    BY <2>0, <2>1, <2>2, <2>3 DEF NamesOK, NamesInv, Leaving, FinishAt, CreateAt, At
  <2> QED BY <2>4, <2>5 DEF NamesOK
<1>4. ASSUME NEW q \in Request, Finish(q) PROVE NamesOK'
  <2>1. PICK j \in Job, s \in records :
           Go(q, j) /\ j.slug = s /\ j.at = FirstStep(j.mode, j.force)
    BY <1>4, FinishFacts
  <2>2. /\ job'[q] = j /\ j.at \in {"remove", "status"}
        /\ \A p \in Request \ {q} : job'[p] = job[p]
    BY <1>0, <2>1, GoFacts DEF FirstStep
  <2>3. At(q, "idle") /\ UNCHANGED <<records, tree, server>>
    BY <1>4 DEF Finish, repo
  <2>4. \A t : Known(t) <=> Known(t)'
    BY <2>2, <2>3 DEF Known, Making, At
  <2>5. Recorded'
    BY <2>3, <2>4 DEF NamesOK, Recorded, There, Known, Making
  <2>6. Known(s)
    BY DEF Known
  <2>7. NamesInv'
    BY <2>1, <2>2, <2>3, <2>4, <2>6 DEF NamesOK, NamesInv, Leaving, FinishAt, CreateAt, At
  <2> QED BY <2>5, <2>7 DEF NamesOK
<1>5. ASSUME NEW q \in Request, ReadStatus(q) PROVE NamesOK'
  <2>1. At(q, "status") /\ UNCHANGED <<records, tree, server>>
    BY <1>5 DEF ReadStatus, repo
  <2>2. CASE Go(q, Idle)
    BY <1>a, <2>1, <2>2 DEF At
  <2>3. ASSUME NEW j \in Job, Go(q, j), j.at = AfterStatus(job[q].mode), j.slug = job[q].slug
        PROVE NamesOK'
    <3>1. job'[q] = j /\ \A p \in Request \ {q} : job'[p] = job[p]
      BY <1>0, <2>3, GoFacts
    <3>2. j.at \in {"ahead", "preserve", "remove"}
      BY <1>0, <2>3 DEF AfterStatus, Job, Mode
    <3> QED BY <2>1, <2>3, <3>1, <3>2, QuietStep DEF At, FinishAt, Leaving
  <2> QED BY <1>5, <2>2, <2>3, StatusFacts
<1>6. ASSUME NEW q \in Request, ReadMergeHead(q) PROVE NamesOK'
  <2>1. PICK j \in Job : Go(q, j) /\ j.at = "merge" /\ j.slug = job[q].slug
    BY <1>6, MergeHeadFacts
  <2>2. job'[q] = j /\ \A p \in Request \ {q} : job'[p] = job[p]
    BY <1>0, <2>1, GoFacts
  <2>3. At(q, "midmerge") /\ UNCHANGED <<records, tree, server>>
    BY <1>6 DEF ReadMergeHead, repo
  <2> QED BY <2>1, <2>2, <2>3, QuietStep DEF At, FinishAt, Leaving
<1>7. ASSUME NEW q \in Request, CountAhead(q) PROVE NamesOK'
  BY <1>7, <1>a, <1>b DEF CountAhead, At, FinishAt, Leaving, repo
<1>8. ASSUME NEW q \in Request, Merge(q) PROVE NamesOK'
  BY <1>8, <1>b DEF Merge, At, FinishAt, Leaving
<1>9. ASSUME NEW q \in Request, Preserve(q) PROVE NamesOK'
  BY <1>9, <1>a, <1>b DEF Preserve, At, FinishAt, Leaving
<1>10. ASSUME NEW q \in Request, DeleteBranch(q) PROVE NamesOK'
  BY <1>10, <1>b DEF DeleteBranch, At, FinishAt, Leaving
<1>11. ASSUME NEW q \in Request, AbortMerge(q) PROVE NamesOK'
  BY <1>11, <1>a DEF AbortMerge, At
<1>12. ASSUME NEW q \in Request, GitFails(q) PROVE NamesOK'
  BY <1>12, <1>a DEF GitFails, At, repo
<1>13. ASSUME NEW q \in Request, RemoveWorktree(q) PROVE NamesOK'
  <2>0. PICK s \in Slug : s = job[q].slug
    BY <1>0, <1>13 DEF RemoveWorktree, At
  <2> DEFINE at == IF job[q].mode = "discard" THEN "branchD" ELSE "forget"
  <2>1. /\ job'[q].at = at
        /\ job'[q].slug = s
        /\ \A p \in Request \ {q} : job'[p] = job[p]
    BY <1>0, <1>13, <2>0, MoveFacts DEF RemoveWorktree, FinishAt
  <2>2. /\ At(q, "remove") /\ s \in Slug
        /\ tree[s] # "none"
        /\ tree' = [tree EXCEPT ![s] = "none"]
        /\ UNCHANGED <<records, server>>
    BY <1>0, <1>13, <2>0 DEF RemoveWorktree, At
  <2>3. at \in {"branchD", "forget"} 
    OBVIOUS
  <2> HIDE DEF at
  <2>4. \A t : Known(t) <=> Known(t)'
    BY <2>0, <2>1, <2>2, <2>3 DEF Known, Making, At
  <2>5. Known(s)
    BY <2>0, <2>2 DEF NamesOK, NamesInv, At, FinishAt
  <2>6. Recorded'
    BY <2>2, <2>4 DEF NamesOK, Recorded, There, Known, Making, StoreOK, TypeOK
  <2>7. \A p \in Request \ {q} : Leaving(p) => job[p].slug # s
    BY <2>0, <2>2 DEF NamesOK, NamesInv
  <2>8. \A p \in Request : job[p].at = "add" => job[p].slug # s
    BY <2>0, <2>2 DEF NamesOK, NamesInv
  <2>9. NamesInv'
    <3>1. \A t \in Slug : tree'[t] = IF t = s THEN "none" ELSE tree[t]
      BY <1>0, <2>2 DEF StoreOK
    <3>2. \A p \in Request : Leaving(p)' => p = q \/ (Leaving(p) /\ job[p].slug # s)
      BY <2>0, <2>1, <2>7 DEF Leaving
    <3>3. \A p \in Request : Leaving(p)' => tree'[job'[p].slug] = "none"
      BY <1>0, <2>0, <2>1, <2>2, <3>1, <3>2 DEF NamesOK, NamesInv, Leaving
    <3>4. ASSUME NEW p \in Request, job'[p].at \in FinishAt,
                 Leaving(p)' \/ tree'[job'[p].slug] # "none"
          PROVE Known(job[p].slug)'
      <4>1. CASE p = q
        BY <2>0, <2>1, <2>4, <2>5, <4>1 DEF Known, Making
      <4>2. CASE p # q
        <5>1. job'[p] = job[p] /\ job[p].slug \in Slug
          BY <1>0, <2>0, <2>1, <3>4, <4>2 DEF FinishAt
        <5>2. Leaving(p) \/ tree[job[p].slug] # "none"
          BY <3>1, <3>2, <3>4, <4>2, <5>1
        <5> QED BY <2>4, <3>4, <5>1, <5>2 DEF NamesOK, NamesInv, Known, Making
      <4> QED BY <4>1, <4>2
    <3>5. \A p, r \in Request : Leaving(p)' /\ Leaving(r)' /\ job'[p].slug = job'[r].slug => p = r
      BY <2>1, <3>2 DEF NamesOK, NamesInv
    <3>6. \A p \in Request : job'[p].at = "add" =>
            /\ job'[p].slug \notin records'
            /\ tree'[job'[p].slug] = "none"
            /\ \A r \in Request : Leaving(r)' => job'[r].slug # job'[p].slug
      <4> SUFFICES ASSUME NEW p \in Request, job'[p].at = "add"
                   PROVE /\ job'[p].slug \notin records'
                         /\ tree'[job'[p].slug] = "none"
                         /\ \A r \in Request : Leaving(r)' => job'[r].slug # job'[p].slug
        OBVIOUS
      <4>1. p # q /\ job'[p] = job[p] /\ job[p].slug \in Slug
        BY <1>0, <2>0, <2>1, <2>3
      <4> QED BY <2>1, <2>2, <2>8, <3>1, <3>2, <4>1 DEF NamesOK, NamesInv
    <3>7. \A p, r \in Request : job'[p].at \in CreateAt /\ job'[r].at \in CreateAt => p = r
      BY <2>1, <2>3 DEF NamesOK, NamesInv, CreateAt
    <3> QED BY <2>2, <3>3, <3>4, <3>5, <3>6, <3>7 DEF NamesInv, At
  <2> QED BY <2>6, <2>9 DEF NamesOK
<1>14. ASSUME NEW q \in Request, Forget(q) PROVE NamesOK'
  <2>0. PICK s \in Slug : s = job[q].slug
    BY <1>0, <1>14 DEF Forget, At
  <2>1. job'[q].at = "idle" /\ \A p \in Request \ {q} : job'[p] = job[p]
    BY <1>0, <1>14, <2>0, IdleFacts, GoFacts DEF Forget
  <2>2. /\ At(q, "forget") /\ s \in Slug
        /\ records' = records \ {s} /\ UNCHANGED <<tree, server>>
    BY <1>0, <1>14, <2>0 DEF Forget, Readable, At, repo
  <2>3. tree[s] = "none" /\ \A p \in Request \ {q} : Leaving(p) => job[p].slug # s
    BY <2>0, <2>2 DEF NamesOK, NamesInv, Leaving, At
  <2>4. \A t : t # s => (Known(t) <=> Known(t)')
    BY <2>0, <2>1, <2>2 DEF Known, Making, At
  <2>5. Recorded'
    BY <2>2, <2>3, <2>4 DEF NamesOK, Recorded, There, Known, Making
  <2>6. NamesInv'
    BY <2>1, <2>2, <2>3, <2>4 DEF NamesOK, NamesInv, Leaving, FinishAt, CreateAt, At
  <2> QED BY <2>5, <2>6 DEF NamesOK
<1>15. CASE Crash
  BY <1>15, IdleFacts DEF Crash, NamesOK, NamesInv, Recorded, There, Leaving, FinishAt, CreateAt, Idle
<1>16. CASE Boot
  <2>1. \A q \in Request : job'[q].at = "idle" 
    BY <1>16, IdleFacts DEF Boot, NamesOK, NamesInv
  <2>2. Recorded'
    BY <1>16 DEF Boot, Adopted, There, Recorded, repo
  <2> QED BY <1>16, <2>1, <2>2 DEF Boot, NamesOK, NamesInv, Leaving, FinishAt, CreateAt
<1>17. ASSUME NEW s \in Slug, DirDeleted(s) PROVE NamesOK'
  <2>1. /\ tree[s] = "there" /\ tree' = [tree EXCEPT ![s] = "lost"]
        /\ UNCHANGED <<records, server, job>>
    BY <1>17 DEF DirDeleted
  <2>2. \A t : Known(t) <=> Known(t)'
    BY <2>1 DEF Known, Making
  <2> QED BY <1>0, <2>1, <2>2 DEF NamesOK, NamesInv, Recorded, There, Known, Making, Leaving, StoreOK, FinishAt
<1>18. ASSUME UNCHANGED <<records, tree, server, job>> PROVE NamesOK'
  BY <1>18 DEF NamesOK, NamesInv, Recorded, There, Known, Making, Leaving
<1> QED
  BY <1>1, <1>2, <1>3, <1>4, <1>5, <1>6, <1>7, <1>8, <1>9, <1>10, <1>11, <1>12, <1>13, <1>14,
     <1>15, <1>16, <1>17, <1>18
     DEF Next, CreateStep, FinishStep, Outside, AgentWrites, AgentCommits, BranchDeleted,
         PersonMerges, PersonConcludes, vars, repo

\* Unless workspaces.json or reconcile fails, every worktree has a record while
\* the server serves, or a request that is about to write it, whatever crashes,
\* whoever works and whichever git commands of a request fail
\* (workspaces.ts:690-695).
THEOREM WorktreesAreRecorded == Spec => []Recorded
<1>1. Init => (~faulty => NamesOK)
  BY IdleFacts DEF Init, NamesOK, NamesInv, Recorded, There, Leaving, FinishAt, CreateAt
<1>2. TypeOK /\ (~faulty => NamesOK) /\ [Next]_vars => (~faulty => NamesOK)'
  <2>1. [Next]_vars => faulty' = faulty
    BY DEF Next, CreateStep, FinishStep, Outside, ScanNames, AddWorktree, Record, Finish,
       ReadStatus, CountAhead, ReadMergeHead, Merge, AbortMerge, Preserve, RemoveWorktree,
       DeleteBranch, Forget, GitFails, Crash, Boot, AgentWrites, AgentCommits, DirDeleted,
       BranchDeleted, PersonMerges, PersonConcludes, vars, rest
  <2> QED BY <2>1, NamesInductive
<1>3. (~faulty => NamesOK) => Recorded
  BY DEF NamesOK, Recorded
<1> QED
  BY <1>1, <1>2, <1>3, WorkspacesTypeOK, PTL DEF Spec

-----------------------------------------------------------------------------
\* A file is gone, or as it was and perhaps copied to the leftovers, or written
\* anew.
Ages ==
    \A s \in Slug, k \in Kind :
        \/ files'[s][k] \in {0, writes + 1}
        \/ /\ files'[s][k] = files[s][k]
           /\ leftovers'[s][k] \in {leftovers[s][k], files[s][k]}

\* What holds of a request goes on holding while it makes no step.
LEMMA SeenRests ==
  ASSUME StoreOK, JobsOK, VersionInv, Ages,
         NEW p \in Request, SeenFor(p), job'[p] = job[p]
  PROVE SeenFor(p)'
<1>1. SeenFor(p) /\ job'[p] = job[p]
  OBVIOUS
<1> SUFFICES ASSUME job[p].at \in Decided, ~(job[p].mode = "discard" /\ job[p].force)
             PROVE SeenFor(p)'
  BY <1>1 DEF SeenFor
<1>2. job[p].slug \in Slug /\ job[p].seen \in [Kind -> 0 .. MaxWrites]
  BY DEF JobsOK, Job, Decided
<1>3. ASSUME job[p].at = "remove", job[p].mode # "discard",
             NEW k \in Rescued(job[p].mode, job[p].seen),
             files'[job[p].slug][k] = job[p].seen[k]
      PROVE leftovers'[job[p].slug][k] = job[p].seen[k]
  <2>1. k \in Kind /\ job[p].seen[k] # 0
    BY <1>2 DEF Rescued, Listed, Kind
  <2>2. job[p].seen[k] <= writes /\ writes \in Nat
    BY <2>1, WorkspacesAssumption DEF VersionInv, StoreOK
  <2>3. job[p].seen[k] \notin {0, writes + 1}
    BY <1>2, <2>1, <2>2
  <2>4. /\ files'[job[p].slug][k] = files[job[p].slug][k]
        /\ leftovers'[job[p].slug][k] \in {leftovers[job[p].slug][k], files[job[p].slug][k]}
    BY <1>2, <1>3, <2>1, <2>3 DEF Ages
  <2>5. leftovers[job[p].slug][k] = job[p].seen[k]
    BY <1>1, <1>3, <2>4 DEF SeenFor
  <2> QED BY <1>3, <2>4, <2>5
<1> QED BY <1>1, <1>3 DEF SeenFor

LEMMA SeenStep ==
  ASSUME StoreOK, JobsOK, SeenInv, VersionInv, Ages, NEW q \in Request, SeenFor(q)',
         \A p \in Request \ {q} : job'[p] = job[p]
  PROVE SeenInv'
  BY SeenRests DEF SeenInv

\* No step makes a file or a status newer than the writes.
LEMMA VersionInductive ==
  ASSUME TypeOK, VersionInv, [Next]_vars
  PROVE VersionInv'
<1>0. /\ JobsOK /\ StoreOK
      /\ job \in [Request -> Job]
      /\ writes \in Nat
      /\ \A q \in Request : job[q].at # "idle" => job[q].slug \in Slug
  BY TypeSplit, WorkspacesAssumption DEF JobsOK, StoreOK
<1> DEFINE Old(j) == \A k \in Kind : j.seen[k] <= writes
<1>a. ASSUME NEW q \in Request, NEW j \in Job, Go(q, j), Old(j), UNCHANGED <<files, writes>>
      PROVE VersionInv'
  BY <1>0, <1>a, GoFacts DEF VersionInv
<1>b. ASSUME NEW q \in Request, NEW at \in {"idle"} \cup CreateAt \cup FinishAt, Move(q, at),
             UNCHANGED <<files, writes>>
      PROVE VersionInv'
  BY <1>0, <1>b, MoveFacts DEF VersionInv
<1>c. Idle \in Job /\ Old(Idle) /\ \A j \in Job : j.seen = None => Old(j)
  BY <1>0, IdleFacts DEF None
<1> HIDE DEF Old
<1>1. ASSUME NEW q \in Request, ScanNames(q) \/ Finish(q) PROVE VersionInv'
  <2>1. PICK j \in Job : Go(q, j) /\ j.seen = None
    BY <1>1, ScanFacts, FinishFacts
  <2> QED BY <1>1, <1>a, <1>c, <2>1 DEF ScanNames, Finish, repo, rest
<1>2. ASSUME NEW q \in Request, ReadStatus(q) PROVE VersionInv'
  <2>1. UNCHANGED <<files, writes>> /\ job[q].slug \in Slug
    BY <1>0, <1>2 DEF ReadStatus, At, repo, rest
  <2>2. ASSUME NEW j \in Job, Go(q, j), j.seen = files[job[q].slug] PROVE VersionInv'
    BY <1>a, <2>1, <2>2 DEF VersionInv, Old
  <2> QED BY <1>2, <1>a, <1>c, <2>1, <2>2, StatusFacts
<1>3. ASSUME NEW q \in Request, ReadMergeHead(q) PROVE VersionInv'
  <2>1. PICK j \in Job : Go(q, j) /\ j.seen = job[q].seen
    BY <1>3, MergeHeadFacts
  <2> QED BY <1>3, <1>a, <2>1 DEF ReadMergeHead, repo, VersionInv, Old
<1>4. ASSUME NEW q \in Request,
             \/ AddWorktree(q) \/ CountAhead(q) \/ Merge(q) \/ DeleteBranch(q)
             \/ Record(q) \/ AbortMerge(q) \/ Forget(q) \/ GitFails(q)
      PROVE VersionInv'
  <2>1. UNCHANGED <<files, writes>>
    BY <1>4 DEF AddWorktree, CountAhead, Merge, DeleteBranch, Record, AbortMerge, Forget,
       GitFails, repo, rest
  <2>2. Go(q, Idle) \/ \E at \in CreateAt \cup FinishAt : Move(q, at)
    BY <1>4 DEF AddWorktree, CountAhead, Merge, DeleteBranch, Record, AbortMerge, Forget,
       GitFails, CreateAt, FinishAt
  <2> QED BY <1>a, <1>b, <1>c, <2>1, <2>2
<1>5. ASSUME NEW q \in Request, Preserve(q) \/ RemoveWorktree(q) PROVE VersionInv'
  <2>0. PICK s \in Slug : s = job[q].slug
    BY <1>0, <1>5 DEF Preserve, RemoveWorktree, At
  <2>1. writes' = writes /\ \A t \in Slug, k \in Kind : files'[t][k] \in {0, files[t][k]}
    <3>1. CASE Preserve(q)
      <4>1. PICK done \in SUBSET (Rescued(job[q].mode, job[q].seen) \cap Held(s)),
                 copied \in BOOLEAN :
               /\ leftovers' = [leftovers EXCEPT ![s] =
                    [k \in Kind |-> IF k \in done THEN files[s][k] ELSE @[k]]]
               /\ files' = [files EXCEPT ![s] =
                    [k \in Kind |-> IF k \in done /\ ~copied THEN 0 ELSE @[k]]]
               /\ IF done = Rescued(job[q].mode, job[q].seen)
                     THEN Move(q, "remove") ELSE Go(q, Idle)
        BY <2>0, <3>1 DEF Preserve
      <4> QED BY <1>0, <3>1, <4>1 DEF Preserve, StoreOK, rest
    <3>2. CASE RemoveWorktree(q)
      BY <1>0, <2>0, <3>2 DEF RemoveWorktree, StoreOK, None
    <3> QED BY <1>5, <3>1, <3>2
  <2>2. \A t \in Slug, k \in Kind : files'[t][k] <= writes'
    BY <1>0, <2>1 DEF VersionInv
  <2>3. Go(q, Idle) \/ \E at \in FinishAt : Move(q, at)
    BY <1>5 DEF Preserve, RemoveWorktree, FinishAt
  <2>4. \A p \in Request : job'[p].seen \in {job[p].seen, None}
    BY <1>0, <2>3, IdleFacts, GoFacts, MoveFacts
  <2>5. \A k \in Kind : None[k] <= writes
    BY <1>0 DEF None
  <2>6. \A p \in Request, k \in Kind : job'[p].seen[k] <= writes'
    BY <2>1, <2>4, <2>5 DEF VersionInv
  <2> QED BY <2>2, <2>6 DEF VersionInv
<1>6. CASE Crash
  BY <1>0, <1>6, IdleFacts DEF Crash, VersionInv, None, repo
<1>7. ASSUME NEW s \in Slug, NEW k \in Kind, AgentWrites(s, k) PROVE VersionInv'
  <2>1. /\ writes' = writes + 1 /\ job' = job
        /\ \A t \in Slug, m \in Kind : files'[t][m] \in {files[t][m], writes + 1}
    BY <1>0, <1>7 DEF AgentWrites, StoreOK
  <2>2. \A t \in Slug, m \in Kind : files'[t][m] <= writes'
    <3> SUFFICES ASSUME NEW t \in Slug, NEW m \in Kind PROVE files'[t][m] <= writes'
      OBVIOUS
    <3>1. files[t][m] \in Nat /\ files[t][m] <= writes
      BY <1>0, WorkspacesAssumption DEF VersionInv, StoreOK
    <3> QED BY <1>0, <2>1, <3>1
  <2>3. \A q \in Request, m \in Kind : job'[q].seen[m] <= writes'
    <3> SUFFICES ASSUME NEW q \in Request, NEW m \in Kind PROVE job'[q].seen[m] <= writes'
      OBVIOUS
    <3>1. job[q].seen[m] \in Nat /\ job[q].seen[m] <= writes
      BY <1>0, WorkspacesAssumption DEF VersionInv, Job
    <3> QED BY <1>0, <2>1, <3>1
  <2> QED BY <2>2, <2>3 DEF VersionInv
<1>8. ASSUME NEW s \in Slug, AgentCommits(s) \/ DirDeleted(s) PROVE VersionInv'
  <2>1. /\ writes' = writes /\ job' = job
        /\ \A t \in Slug, k \in Kind : files'[t][k] \in {0, files[t][k]}
    BY <1>0, <1>8 DEF AgentCommits, DirDeleted, StoreOK, None, Kind, rest
  <2> QED BY <1>0, <2>1 DEF VersionInv
<1>9. CASE Boot \/ (\E s \in Slug : BranchDeleted(s)) \/ PersonMerges \/ PersonConcludes
           \/ UNCHANGED vars
  BY <1>9 DEF Boot, BranchDeleted, PersonMerges, PersonConcludes, vars, repo, rest, VersionInv
<1> QED
  BY <1>1, <1>2, <1>3, <1>4, <1>5, <1>6, <1>7, <1>8, <1>9
     DEF Next, CreateStep, FinishStep, Outside

LEMMA SeenInductive ==
  ASSUME TypeOK, VersionInv, SeenInv, NothingDestroyed, [Next]_vars
  PROVE SeenInv' /\ NothingDestroyed'
<1>0. /\ JobsOK /\ StoreOK
      /\ job \in [Request -> Job]
      /\ \A q \in Request : job[q].at # "idle" => job[q].slug \in Slug
  BY TypeSplit DEF JobsOK
<1>a. ASSUME NEW q \in Request, Go(q, Idle), Ages, destroyed' = destroyed
      PROVE SeenInv' /\ NothingDestroyed'
  <2>1. job'[q].at = "idle" /\ \A p \in Request \ {q} : job'[p] = job[p]
    BY <1>0, <1>a, IdleFacts, GoFacts
  <2>2. SeenFor(q)'
    BY <2>1 DEF SeenFor, Decided
  <2> QED BY <1>0, <1>a, <2>1, <2>2, SeenStep DEF NothingDestroyed
<1>b. ASSUME NEW q \in Request, Ages, destroyed' = destroyed,
             \A p \in Request \ {q} : job'[p] = job[p],
             job[q].at \in Decided, job'[q].at \in {"midmerge", "merge", "preserve"},
             job'[q].slug = job[q].slug, job'[q].mode = job[q].mode,
             job'[q].force = job[q].force, job'[q].seen = job[q].seen
      PROVE SeenInv' /\ NothingDestroyed'
  <2>1. SeenFor(q)'
    BY <1>b DEF SeenInv, SeenFor, Decided
  <2> QED BY <1>0, <1>b, <2>1, SeenStep DEF NothingDestroyed
<1>c. ASSUME NEW q \in Request, Ages, destroyed' = destroyed,
             \A p \in Request \ {q} : job'[p] = job[p],
             job'[q].at \notin Decided
      PROVE SeenInv' /\ NothingDestroyed'
  BY <1>0, <1>c, SeenStep DEF SeenFor, NothingDestroyed
<1>d. UNCHANGED <<files, leftovers>> => Ages
  BY DEF Ages
<1>1. ASSUME NEW q \in Request, ScanNames(q) PROVE SeenInv' /\ NothingDestroyed'
  <2>1. PICK j \in Job : Go(q, j) /\ j.at = "add"
    BY <1>1, ScanFacts
  <2>2. UNCHANGED <<files, leftovers, destroyed>>
    BY <1>1 DEF ScanNames, repo, rest
  <2> QED BY <1>0, <1>c, <1>d, <2>1, <2>2, GoFacts DEF Decided
<1>2. ASSUME NEW q \in Request, AddWorktree(q) PROVE SeenInv' /\ NothingDestroyed'
  <2>1. Move(q, "record") /\ UNCHANGED <<files, leftovers, destroyed>>
    BY <1>2 DEF AddWorktree, rest
  <2> QED BY <1>0, <1>c, <1>d, <2>1, MoveFacts DEF Decided, CreateAt
<1>3. ASSUME NEW q \in Request, Record(q) \/ AbortMerge(q) \/ Forget(q) \/ GitFails(q)
      PROVE SeenInv' /\ NothingDestroyed'
  BY <1>3, <1>a, <1>d DEF Record, AbortMerge, Forget, GitFails, repo, rest
<1>4. ASSUME NEW q \in Request, Finish(q) PROVE SeenInv' /\ NothingDestroyed'
  <2>1. PICK j \in Job : /\ Go(q, j) /\ j.at = FirstStep(j.mode, j.force)
    BY <1>4, FinishFacts
  <2>2. UNCHANGED <<files, leftovers, destroyed>>
    BY <1>4 DEF Finish, repo, rest
  <2>3. job'[q] = j /\ \A p \in Request \ {q} : job'[p] = job[p]
    BY <1>0, <2>1, GoFacts
  <2>4. SeenFor(q)'
    BY <2>1, <2>3 DEF SeenFor, FirstStep, Decided
  <2> QED BY <1>0, <1>d, <2>2, <2>3, <2>4, SeenStep DEF NothingDestroyed
<1>5. ASSUME NEW q \in Request, ReadStatus(q) PROVE SeenInv' /\ NothingDestroyed'
  <2>1. UNCHANGED <<files, leftovers, destroyed>>
    BY <1>5 DEF ReadStatus, repo, rest
  <2>2. CASE Go(q, Idle)
    BY <1>a, <1>d, <2>1, <2>2
  <2>3. ASSUME NEW j \in Job, Go(q, j), j.at = AfterStatus(job[q].mode),
               j.mode = job[q].mode, ~Dirty(j.mode, j.seen)
        PROVE SeenInv' /\ NothingDestroyed'
    <3>1. job'[q] = j /\ \A p \in Request \ {q} : job'[p] = job[p]
      BY <1>0, <2>3, GoFacts
    <3>2. j.at = "remove" => j.mode = "discard"
      BY <2>3 DEF AfterStatus, Job, Mode
    <3>3. SeenFor(q)'
      BY <2>3, <3>1, <3>2 DEF SeenFor
    <3> QED BY <1>0, <1>d, <2>1, <3>1, <3>3, SeenStep DEF NothingDestroyed
  <2> QED BY <1>5, <2>2, <2>3, StatusFacts
<1>6. ASSUME NEW q \in Request, CountAhead(q) PROVE SeenInv' /\ NothingDestroyed'
  <2>1. UNCHANGED <<files, leftovers, destroyed>> /\ job[q].at = "ahead"
    BY <1>6 DEF CountAhead, repo, At, rest
  <2>2. CASE Go(q, Idle)
    BY <1>a, <1>d, <2>1, <2>2
  <2>3. CASE Move(q, "midmerge")
    BY <1>0, <1>b, <1>d, <2>1, <2>3, MoveFacts DEF Decided, FinishAt
  <2> QED BY <1>6, <2>2, <2>3 DEF CountAhead
<1>7. ASSUME NEW q \in Request, ReadMergeHead(q) PROVE SeenInv' /\ NothingDestroyed'
  <2>1. PICK j \in Job :
          /\ Go(q, j)
          /\ j.at = "merge"
          /\ j.slug = job[q].slug
          /\ j.mode = job[q].mode
          /\ j.force = job[q].force
          /\ j.seen = job[q].seen
    BY <1>7, MergeHeadFacts
  <2>2. UNCHANGED <<files, leftovers, destroyed>> /\ job[q].at = "midmerge"
    BY <1>7 DEF ReadMergeHead, repo, At
  <2> QED BY <1>0, <1>b, <1>d, <2>1, <2>2, GoFacts DEF Decided
<1>8. ASSUME NEW q \in Request, Merge(q) PROVE SeenInv' /\ NothingDestroyed'
  <2>1. UNCHANGED <<files, leftovers, destroyed>> /\ job[q].at = "merge"
    BY <1>8 DEF Merge, At, rest
  <2>2. CASE Move(q, "preserve")
    BY <1>0, <1>b, <1>d, <2>1, <2>2, MoveFacts DEF Decided, FinishAt
  <2>3. CASE Move(q, "abort")
    BY <1>0, <1>c, <1>d, <2>1, <2>3, MoveFacts DEF Decided, FinishAt
  <2> QED BY <1>8, <2>2, <2>3 DEF Merge
<1>9. ASSUME NEW q \in Request, Preserve(q) PROVE SeenInv' /\ NothingDestroyed'
  <2>0. PICK s \in Slug : s = job[q].slug
    BY <1>0, <1>9 DEF Preserve, At
  <2> DEFINE want == Rescued(job[q].mode, job[q].seen)
  <2>1. PICK done \in SUBSET (want \cap Held(s)), copied \in BOOLEAN :
           /\ leftovers' = [leftovers EXCEPT ![s] =
                [k \in Kind |-> IF k \in done THEN files[s][k] ELSE @[k]]]
           /\ files' = [files EXCEPT ![s] =
                [k \in Kind |-> IF k \in done /\ ~copied THEN 0 ELSE @[k]]]
           /\ IF done = want THEN Move(q, "remove") ELSE Go(q, Idle)
    BY <1>9, <2>0 DEF Preserve
  <2>2. destroyed' = destroyed /\ job[q].at = "preserve"
    BY <1>9 DEF Preserve, At, rest
  <2>3. /\ \A k \in Kind : /\ files'[s][k] \in {0, files[s][k]}
                           /\ leftovers'[s][k] = IF k \in done THEN files[s][k] ELSE leftovers[s][k]
        /\ \A t \in Slug : t # s => files'[t] = files[t] /\ leftovers'[t] = leftovers[t]
    BY <1>0, <2>1 DEF StoreOK
  <2>4. Ages
    BY <2>3 DEF Ages
  <2>5. CASE done = want /\ Move(q, "remove")
    <3>1. /\ job'[q].at = "remove"
          /\ job'[q].slug = s
          /\ job'[q].mode = job[q].mode
          /\ job'[q].force = job[q].force
          /\ job'[q].seen = job[q].seen
          /\ \A p \in Request \ {q} : job'[p] = job[p]
      BY <1>0, <2>0, <2>5, MoveFacts DEF FinishAt
    <3>2. ASSUME NEW k \in Rescued(job[q].mode, job[q].seen), files'[s][k] = job[q].seen[k]
          PROVE leftovers'[s][k] = job[q].seen[k]
      <4>1. k \in Kind /\ job[q].seen[k] # 0 /\ k \in done
        BY <2>5, <3>2 DEF Rescued, Listed, Kind
      <4> QED BY <2>3, <3>2, <4>1
    <3>3. SeenFor(q)'
      <4>1. CASE ~(job[q].mode = "discard" /\ job[q].force)
        <5>1. ~Dirty(job'[q].mode, job'[q].seen)
          BY <2>2, <3>1, <4>1 DEF SeenInv, SeenFor, Decided
        <5> QED BY <3>1, <3>2, <5>1 DEF SeenFor
      <4>2. CASE job[q].mode = "discard" /\ job[q].force
        BY <3>1, <4>2 DEF SeenFor
      <4> QED BY <4>1, <4>2
    <3> QED BY <1>0, <2>2, <2>4, <3>1, <3>3, SeenStep DEF NothingDestroyed
  <2>6. CASE Go(q, Idle)
    BY <1>a, <2>2, <2>4, <2>6
  <2> QED BY <2>1, <2>5, <2>6
<1>10. ASSUME NEW q \in Request, RemoveWorktree(q) PROVE SeenInv' /\ NothingDestroyed'
  <2>0. PICK s \in Slug : s = job[q].slug
    BY <1>0, <1>10 DEF RemoveWorktree, At
  <2>1. /\ job[q].at = "remove"
        /\ ~GitRefuses(job[q].mode, s)
        /\ files' = [files EXCEPT ![s] = None]
        /\ destroyed' = destroyed \cup
              {<<job[q].mode, IF files[s][k] = job[q].seen[k] THEN "seen" ELSE "unseen">> :
                  k \in Unsaved(job[q])}
        /\ leftovers' = leftovers
        /\ Move(q, IF job[q].mode = "discard" THEN "branchD" ELSE "forget")
    BY <1>10, <2>0 DEF RemoveWorktree, At
  <2>2. Ages
    BY <1>0, <2>1 DEF Ages, StoreOK, None
  <2>3. job'[q].at \notin Decided /\ \A p \in Request \ {q} : job'[p] = job[p]
    BY <1>0, <2>1, MoveFacts DEF Decided, FinishAt
  <2>4. SeenInv'
    BY <1>0, <2>2, <2>3, SeenStep DEF SeenFor
  <2>5. ASSUME NEW k \in Unsaved(job[q]) PROVE files[s][k] # job[q].seen[k]
    <3>1. /\ k \in Kind /\ files[s][k] # 0 /\ leftovers[s][k] # files[s][k]
          /\ k \notin Waived(job[q]) /\ job[q].mode \in Mode
      BY <1>0, <2>0, <2>5 DEF Unsaved, Held, Job
    <3>2. ~(job[q].mode = "discard" /\ job[q].force)
      BY <3>1 DEF Waived
    <3>3. /\ ~Dirty(job[q].mode, job[q].seen)
          /\ job[q].mode # "discard" =>
                \A m \in Rescued(job[q].mode, job[q].seen) :
                   files[s][m] = job[q].seen[m] => leftovers[s][m] = job[q].seen[m]
      BY <2>0, <2>1, <3>2 DEF SeenInv, SeenFor, Decided
    <3> SUFFICES ASSUME files[s][k] = job[q].seen[k] PROVE FALSE
      OBVIOUS
    <3>4. k \in Listed(job[q].seen) /\ k \in Held(s)
      BY <3>1 DEF Listed, Held
    <3>5. job[q].mode # "discard"
      BY <3>1, <3>2, <3>3, <3>4 DEF Waived, Dirty, Kind
    <3>6. k \in Rescued(job[q].mode, job[q].seen)
      BY <2>1, <3>1, <3>3, <3>4, <3>5 DEF Rescued, Dirty, GitRefuses, Listed, Kind, Mode
    <3> QED BY <3>1, <3>3, <3>5, <3>6
  <2>6. \A d \in destroyed' : d \in destroyed \/ d[2] = "unseen"
    BY <2>1, <2>5
  <2>7. NothingDestroyed'
    BY <2>6 DEF NothingDestroyed
  <2> QED BY <2>4, <2>7
<1>11. ASSUME NEW q \in Request, DeleteBranch(q) PROVE SeenInv' /\ NothingDestroyed'
  <2>1. Move(q, "forget") /\ UNCHANGED <<files, leftovers, destroyed>>
    BY <1>11 DEF DeleteBranch, rest
  <2> QED BY <1>0, <1>c, <1>d, <2>1, MoveFacts DEF Decided, FinishAt
<1>12. CASE Crash
  BY <1>12, IdleFacts DEF Crash, SeenInv, SeenFor, Decided, NothingDestroyed
<1>13. CASE Boot \/ UNCHANGED vars
  BY <1>13 DEF Boot, vars, repo, rest, SeenInv, SeenFor, NothingDestroyed
<1>14. CASE Outside
  <2>1. Ages
    <3>1. ASSUME NEW s \in Slug, NEW k \in Kind, AgentWrites(s, k) PROVE Ages
      BY <1>0, <3>1 DEF Ages, AgentWrites, StoreOK
    <3>2. ASSUME NEW s \in Slug, AgentCommits(s) \/ DirDeleted(s) PROVE Ages
      <4>1. /\ leftovers' = leftovers
            /\ \A t \in Slug, k \in Kind : files'[t][k] \in {0, files[t][k]}
        BY <1>0, <3>2 DEF AgentCommits, DirDeleted, StoreOK, None, Kind
      <4> QED BY <4>1 DEF Ages
    <3>3. CASE UNCHANGED <<files, leftovers>>
      BY <3>3 DEF Ages
    <3> QED BY <1>14, <3>1, <3>2, <3>3 DEF Outside, BranchDeleted, PersonMerges, PersonConcludes
  <2>2. UNCHANGED <<job, destroyed>>
    BY <1>14 DEF Outside, AgentWrites, AgentCommits, DirDeleted, BranchDeleted,
       PersonMerges, PersonConcludes, rest
  <2>3. SeenInv'
    BY <1>0, <2>1, <2>2, SeenRests DEF SeenInv
  <2> QED BY <2>2, <2>3 DEF NothingDestroyed
<1> QED
  BY <1>1, <1>2, <1>3, <1>4, <1>5, <1>6, <1>7, <1>8, <1>9, <1>10, <1>11, <1>12, <1>13, <1>14
     DEF Next, CreateStep, FinishStep

\* Finishing deletes no file that its git status found and that it was not told
\* to give up, whatever requests, agents and people do meanwhile and whichever
\* git commands and copies fail (workspaces.ts:519-525, 536-606).
THEOREM FinishDestroysNothing == Spec => []NothingDestroyed
<1>1. Init => VersionInv /\ SeenInv /\ NothingDestroyed
  BY IdleFacts DEF Init, VersionInv, SeenInv, SeenFor, Decided, NothingDestroyed, None
<1>2. TypeOK /\ VersionInv /\ SeenInv /\ NothingDestroyed /\ [Next]_vars
         => VersionInv' /\ SeenInv' /\ NothingDestroyed'
  BY VersionInductive, SeenInductive
<1> QED
  BY <1>1, <1>2, WorkspacesTypeOK, PTL DEF Spec

-----------------------------------------------------------------------------
\* A finish that may abort the merge a person has open could not know of it.
MergeAt == {"merge", "abort"}

MergeInv ==
    \A q \in Request :
       job[q].at \in MergeAt /\ ~job[q].mid /\ parent = "theirs" => q \in unaware

MergeStays ==
    parent = "theirs" /\ parent' # "theirs" =>
        PersonConcludes \/ \E q \in unaware : AbortMerge(q)

\* A step of one request that is not about to merge, or keeps what it knows.
LEMMA MergeStep ==
  ASSUME MergeInv, NEW q \in Request,
         \A p \in Request \ {q} : job'[p] = job[p],
         parent' = "theirs" => parent = "theirs",
         unaware \ {q} \subseteq unaware',
         job'[q].at \in MergeAt /\ ~job'[q].mid /\ parent' = "theirs" => q \in unaware'
  PROVE MergeInv'
  BY DEF MergeInv

LEMMA MergeInductive ==
  ASSUME TypeOK, MergeInv, [Next]_vars
  PROVE MergeInv' /\ MergeStays
<1>0. job \in [Request -> Job]
  BY DEF TypeOK
<1>a. ASSUME NEW q \in Request, NEW j \in Job, Go(q, j), j.at \notin MergeAt,
             UNCHANGED <<parent, unaware>>
      PROVE MergeInv' /\ MergeStays
  <2>1. job'[q] = j /\ \A p \in Request \ {q} : job'[p] = job[p]
    BY <1>0, <1>a, GoFacts
  <2> QED BY <1>a, <2>1, MergeStep DEF MergeStays
<1>b. ASSUME NEW q \in Request, NEW at \in {"idle"} \cup CreateAt \cup FinishAt,
             Move(q, at), at \notin MergeAt, UNCHANGED <<parent, unaware>>
      PROVE MergeInv' /\ MergeStays
  <2>1. job'[q].at = at /\ \A p \in Request \ {q} : job'[p] = job[p]
    BY <1>0, <1>b, MoveFacts
  <2> QED BY <1>b, <2>1, MergeStep DEF MergeStays
<1>c. Idle \in Job /\ Idle.at \notin MergeAt
  BY IdleFacts DEF MergeAt
<1>1. ASSUME NEW q \in Request, ScanNames(q) PROVE MergeInv' /\ MergeStays
  <2>1. PICK j \in Job : Go(q, j) /\ j.at = "add"
    BY <1>1, ScanFacts
  <2>2. UNCHANGED <<parent, unaware>>
    BY <1>1 DEF ScanNames, repo, rest
  <2> QED BY <1>a, <2>1, <2>2 DEF MergeAt
<1>2. ASSUME NEW q \in Request, AddWorktree(q) PROVE MergeInv' /\ MergeStays
  <2>1. Move(q, "record") /\ UNCHANGED <<parent, unaware>>
    BY <1>2 DEF AddWorktree, rest
  <2> QED BY <1>b, <2>1 DEF MergeAt, CreateAt
<1>3. ASSUME NEW q \in Request, Record(q) \/ GitFails(q) \/ Forget(q) PROVE MergeInv' /\ MergeStays
  <2>1. Go(q, Idle) /\ UNCHANGED <<parent, unaware>>
    BY <1>3 DEF Record, GitFails, Forget, repo, rest
  <2> QED BY <1>a, <1>c, <2>1
<1>4. ASSUME NEW q \in Request, Finish(q) PROVE MergeInv' /\ MergeStays
  <2>1. PICK j \in Job : Go(q, j) /\ j.at = FirstStep(j.mode, j.force)
    BY <1>4, FinishFacts
  <2>2. UNCHANGED <<parent, unaware>>
    BY <1>4 DEF Finish, repo, rest
  <2>3. j.at \notin MergeAt
    BY <2>1 DEF FirstStep, MergeAt
  <2> QED BY <1>a, <2>1, <2>2, <2>3
<1>5. ASSUME NEW q \in Request, ReadStatus(q) PROVE MergeInv' /\ MergeStays
  <2>1. UNCHANGED <<parent, unaware>>
    BY <1>5 DEF ReadStatus, repo, rest
  <2>2. job[q].mode \in Mode
    BY <1>0 DEF Job
  <2>3. AfterStatus(job[q].mode) \notin MergeAt
    BY <2>2 DEF AfterStatus, Mode, MergeAt
  <2>4. CASE Go(q, Idle)
    BY <1>a, <1>c, <2>1, <2>4
  <2>5. ASSUME NEW j \in Job, Go(q, j), j.at = AfterStatus(job[q].mode)
        PROVE MergeInv' /\ MergeStays
    BY <1>a, <2>1, <2>3, <2>5
  <2> QED BY <1>5, StatusFacts, <2>4, <2>5
<1>6. ASSUME NEW q \in Request, CountAhead(q) PROVE MergeInv' /\ MergeStays
  <2>1. (Move(q, "midmerge") \/ Go(q, Idle)) /\ UNCHANGED <<parent, unaware>>
    BY <1>6 DEF CountAhead, repo, rest
  <2> QED BY <1>a, <1>b, <1>c, <2>1 DEF MergeAt, FinishAt
<1>7. ASSUME NEW q \in Request, ReadMergeHead(q) PROVE MergeInv' /\ MergeStays
  <2>1. PICK j \in Job :
          /\ Go(q, j)
          /\ parent = "theirs" /\ ~j.mid => q \in unaware'
          /\ unaware \subseteq unaware'
    BY <1>7, MergeHeadFacts
  <2>2. job'[q] = j /\ \A p \in Request \ {q} : job'[p] = job[p]
    BY <1>0, <2>1, GoFacts
  <2>3. parent' = parent
    BY <1>7 DEF ReadMergeHead, repo
  <2> QED BY <2>1, <2>2, <2>3, MergeStep DEF MergeStays
<1>8. ASSUME NEW q \in Request, Merge(q) PROVE MergeInv' /\ MergeStays
  <2>1. PICK at \in {"preserve", "abort"} : Move(q, at)
    BY <1>8 DEF Merge
  <2>2. /\ parent' = parent \/ (parent = "clean" /\ parent' = "ours")
        /\ unaware' = unaware /\ job[q].at = "merge"
    BY <1>8 DEF Merge, At, rest
  <2>3. job'[q].mid = job[q].mid /\ \A p \in Request \ {q} : job'[p] = job[p]
    BY <1>0, <2>1, MoveFacts DEF FinishAt
  <2>4. ~job'[q].mid /\ parent' = "theirs" => q \in unaware'
    BY <2>2, <2>3 DEF MergeInv, MergeAt
  <2> QED BY <2>2, <2>3, <2>4, MergeStep DEF MergeStays
<1>9. ASSUME NEW q \in Request, AbortMerge(q) PROVE MergeInv' /\ MergeStays
  <2>1. /\ Go(q, Idle) /\ job[q].at = "abort"
        /\ parent' = parent \/ (~job[q].mid /\ parent' = "clean")
        /\ unaware' = unaware \ {q}
    BY <1>9 DEF AbortMerge, At, MayAbort
  <2>2. job'[q] = Idle /\ \A p \in Request \ {q} : job'[p] = job[p]
    BY <1>0, <1>c, <2>1, GoFacts
  <2>3. MergeInv'
    BY <1>c, <2>1, <2>2, MergeStep
  <2>4. parent = "theirs" /\ parent' # "theirs" => q \in unaware
    BY <2>1 DEF MergeInv, MergeAt
  <2> QED BY <1>9, <2>3, <2>4 DEF MergeStays
<1>10. ASSUME NEW q \in Request, Preserve(q) PROVE MergeInv' /\ MergeStays
  <2>1. (Move(q, "remove") \/ Go(q, Idle)) /\ UNCHANGED <<parent, unaware>>
    BY <1>10 DEF Preserve, rest
  <2> QED BY <1>a, <1>b, <1>c, <2>1 DEF MergeAt, FinishAt
<1>11. ASSUME NEW q \in Request, RemoveWorktree(q) \/ DeleteBranch(q) PROVE MergeInv' /\ MergeStays
  <2>1. (Move(q, "branchD") \/ Move(q, "forget")) /\ UNCHANGED <<parent, unaware>>
    BY <1>11 DEF RemoveWorktree, DeleteBranch, rest
  <2> QED BY <1>b, <2>1 DEF MergeAt, FinishAt
<1>12. CASE Crash
  BY <1>12, IdleFacts DEF Crash, repo, MergeInv, MergeAt, MergeStays
<1>13. CASE Boot \/ UNCHANGED vars
  BY <1>13 DEF Boot, vars, repo, rest, MergeInv, MergeStays
<1>14. CASE Outside
  <2>1. CASE PersonMerges
    BY <2>1 DEF PersonMerges, MergeInv, MergeStays, MergeAt
  <2>2. CASE PersonConcludes
    BY <2>2 DEF PersonConcludes, MergeInv, MergeStays
  <2>3. CASE UNCHANGED <<job, parent, unaware>>
    BY <2>3 DEF MergeInv, MergeStays
  <2> QED BY <1>14, <2>1, <2>2, <2>3 DEF Outside, AgentWrites, AgentCommits, DirDeleted,
       BranchDeleted, rest
<1> QED
  BY <1>1, <1>2, <1>3, <1>4, <1>5, <1>6, <1>7, <1>8, <1>9, <1>10, <1>11, <1>12, <1>13, <1>14
     DEF Next, CreateStep, FinishStep

\* A merge that a person has open in the parent repository is ended by no
\* request, failing command or crash, but by a finish whose check of MERGE_HEAD
\* failed or came before that merge was begun (workspaces.ts:560-575).
THEOREM TheirMergeStaysHolds == Spec => TheirMergeStays
<1>1. Init => MergeInv
  BY IdleFacts DEF Init, MergeInv, MergeAt
<1>2. TypeOK /\ MergeInv /\ [Next]_vars => MergeInv' /\ MergeStays
  BY MergeInductive
<1>3. MergeStays => [parent = "theirs" /\ parent' # "theirs" =>
                        PersonConcludes \/ \E q \in unaware : AbortMerge(q)]_vars
  BY DEF MergeStays
<1> QED
  BY <1>1, <1>2, <1>3, WorkspacesTypeOK, PTL DEF Spec, TheirMergeStays
=============================================================================
