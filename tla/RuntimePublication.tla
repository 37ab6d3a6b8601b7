-------------------------- MODULE RuntimePublication --------------------------
(***************************************************************************)
(* publish_validated_worker_work of runtime_publication.py: one publication *)
(* of a validated worker result, step by step, in a worktree, a remote and *)
(* a pull request that other people also use.  The repository lock keeps   *)
(* other runners away; it does not keep away an editor, a second terminal, *)
(* a commit hook, another clone or the pull request's page.                *)
(*                                                                         *)
(* A branch is the sequence of the commits on top of the frozen baseline,  *)
(* each with its author and the content of the permitted paths.            *)
(***************************************************************************)
EXTENDS Naturals, SequencesExt

CONSTANTS
  Contents,     \* contents of the permitted paths
  Original,     \* ... at the baseline
  Validated,    \* ... that the checks passed on (worker.worktree_fingerprint)
  Absent,       \* no branch, no commit, no observation
  MaxForeign    \* how often somebody else acts

\* Histories of the branch; Commit records carry an author and a content.
Histories == Seq([by : {"runner", "other", "elsewhere"}, tree : Contents])

ASSUME PublicationAssumption ==
  /\ Absent \notin Histories
  /\ {Original, Validated} \subseteq Contents /\ Original # Validated
  /\ MaxForeign \in Nat

VARIABLES
  mode,      \* worker.baseline.status
  work,      \* content of the permitted paths in the worktree
  stray,     \* an untracked path outside the permitted ones exists
  index,     \* content of the permitted paths in the index
  head,      \* the checked-out branch
  remote,    \* the remote branch
  pr,        \* the pull request of that branch
  pc,        \* next step of the publication
  local,     \* local_commit
  rc,        \* outcome of git commit, as its caller sees it
  result,    \* RuntimePublicationResult
  foreign,   \* how often somebody else has acted
  effects,   \* history: what the publication has really changed
  reached,   \* history: commits the remote branch has been at
  moved      \* history: HEAD moved while the commit was being verified

world == <<mode, work, stray, index, head, remote, pr>>
code  == <<pc, local, rc, result>>
ghost == <<effects, reached, moved>>
vars  == <<world, code, foreign, ghost>>

Base == <<>>
Commit(who, content) == [by |-> who, tree |-> content]
Top(h) == IF h = Base THEN Original ELSE h[Len(h)].tree

Statuses == {"REFUSED", "STAGING_UNTRUSTWORTHY", "COMMIT_FAILED",
             "LOCAL_UNTRUSTWORTHY", "COMMITTED_UNPUBLISHED",
             "REMOTE_UNTRUSTWORTHY", "PR_UNTRUSTWORTHY", "VERIFIED"}

Result(status, outcome, l, r) ==
  [status |-> status, outcome |-> outcome, local |-> l, remote |-> r]

Init ==
  /\ mode \in {"NEW_WORK", "EXISTING_WORK"}
  /\ work \in Contents \ {Original} /\ stray \in BOOLEAN
  /\ index = Original /\ head = Base
  /\ remote = IF mode = "NEW_WORK" THEN Absent ELSE Base
  /\ pr = IF mode = "NEW_WORK" THEN "none" ELSE "open"
  /\ pc = "inspect" /\ local = Absent /\ rc = "none"
  /\ result = Result("none", "none", Absent, Absent)
  /\ foreign = 0
  /\ effects = {} /\ reached = {remote} /\ moved = FALSE

Goto(c) == pc' = c /\ UNCHANGED result

\* _failure, and the return of a result.
Finish(status, outcome, l, r) ==
  /\ pc' = "done"
  /\ result' = Result(status, outcome, l, r)

\* Mutation: a failed publication is nothing to do.
FailAsNoOp(status) == Finish(status, "NO_OP", local, Absent)

Fail(status)      == Finish(status, "RUNTIME_FAILURE", local, Absent)
Uncertain(status) == Finish(status, "INTERRUPTED", local, Absent)

\* A step that reads the world: it goes on only if the observation is right,
\* and an exception or an interrupt counts as a wrong one.
Observe(at, right, next, wrong) ==
  /\ pc = at
  /\ \/ right /\ Goto(next)
     \/ wrong
  /\ UNCHANGED <<world, local, rc, foreign, ghost>>

-----------------------------------------------------------------------------
(* Before any mutation. *)

\* The request and the worker result are fit, and the repository is as the
\* worker left it: same HEAD, same changed paths, nothing staged.  A request or
\* worker result that is not fit is the wrong outcome here.
Inspect ==
  Observe("inspect",
          head = Base /\ index = Original /\ work # Original /\ ~stray,
          "fingerprint", Fail("REFUSED"))

\* The fingerprint covers the paths of the inspection, not later ones.
Fingerprint ==
  Observe("fingerprint", work = Validated, "observe_remote", Fail("REFUSED"))

ObserveRemote ==
  Observe("observe_remote",
          remote = (IF mode = "NEW_WORK" THEN Absent ELSE Base),
          IF mode = "NEW_WORK" THEN "objects" ELSE "observe_pr", Fail("REFUSED"))

\* _valid_pr: open, with the requested base, at the expected head.
ValidPr(expected) == pr = "open" /\ remote = expected

ObservePr ==
  Observe("observe_pr", ValidPr(Base), "objects", Fail("REFUSED"))

\* _expected_index_objects reads the bytes again.
ExpectedObjects ==
  Observe("objects", work = Validated, "add", Fail("REFUSED"))

-----------------------------------------------------------------------------
(* Staging and commit. *)

\* git add of exactly the expected paths, of whatever they contain now.
Add ==
  /\ pc = "add"
  /\ index' \in {index, work}
  /\ effects' = effects \cup {"index"}
  /\ \/ index' = work /\ Goto("staged_paths")
     \/ Uncertain("STAGING_UNTRUSTWORTHY")
  /\ UNCHANGED <<mode, work, stray, head, remote, pr, local, rc, foreign,
                 reached, moved>>

\* Exactly the expected paths are staged and nothing else is changed.
StagedPaths ==
  Observe("staged_paths", index # Top(head) /\ work = index /\ ~stray,
          "staged_bytes", Uncertain("STAGING_UNTRUSTWORTHY"))

\* content_digest of the worktree, then the blobs of the index.
StagedBytes ==
  Observe("staged_bytes", work = Validated, "staged_index",
          Uncertain("STAGING_UNTRUSTWORTHY"))

StagedIndex ==
  Observe("staged_index", index = Validated, "commit",
          Uncertain("STAGING_UNTRUSTWORTHY"))

\* git commit: it may commit something else than was staged (a hook), fail
\* with or without a commit, or be interrupted with or without one.
GitCommit ==
  /\ pc = "commit"
  /\ rc' \in {"zero", "nonzero", "uncertain"}
  /\ \/ /\ \E c \in Contents \ {Top(head)} :
             head' = Append(head, Commit("runner", c)) /\ index' = c
        /\ effects' = effects \cup {"commit"}
     \/ rc' # "zero" /\ UNCHANGED <<head, index, effects>>
  /\ Goto("rev_parse")
  /\ UNCHANGED <<mode, work, stray, remote, pr, local, foreign, reached, moved>>

\* Mutation: the exit status of git commit is believed.
RevParseIfZero ==
  /\ pc = "rev_parse"
  /\ \/ rc # "zero" /\ Fail("COMMIT_FAILED") /\ UNCHANGED local
     \/ rc = "zero" /\ local' = head /\ Goto("commit_parent")
  /\ UNCHANGED <<world, rc, foreign, ghost>>

\* rev-parse HEAD: the commit that will be pushed, whoever made it.
RevParse ==
  /\ pc = "rev_parse"
  /\ \/ Uncertain("LOCAL_UNTRUSTWORTHY") /\ UNCHANGED local
     \/ head = Base /\ Fail("COMMIT_FAILED") /\ UNCHANGED local
     \/ head # Base /\ local' = head /\ Goto("commit_parent")
  /\ UNCHANGED <<world, rc, foreign, ghost>>

\* HEAD^ is the baseline and the changed paths are the expected ones.
CommitParent ==
  Observe("commit_parent", Len(head) = 1 /\ Top(head) # Original,
          "commit_clean", Uncertain("LOCAL_UNTRUSTWORTHY"))

CommitClean ==
  Observe("commit_clean", index = Top(head) /\ work = index /\ ~stray,
          "commit_tree", Uncertain("LOCAL_UNTRUSTWORTHY"))

AfterVerification == IF rc = "zero" THEN "push" ELSE "commit_failed"

\* Mutation: the commit is not compared with what was staged.
CommitTreeUnchecked ==
  Observe("commit_tree", head # Base, AfterVerification,
          Uncertain("LOCAL_UNTRUSTWORTHY"))

\* The blobs of HEAD are the validated ones.
CommitTree ==
  Observe("commit_tree", head # Base /\ Top(head) = Validated,
          AfterVerification, Uncertain("LOCAL_UNTRUSTWORTHY"))

\* The commit is there although git did not say so.
CommitReportedFailed ==
  /\ pc = "commit_failed"
  /\ IF rc = "uncertain" THEN Uncertain("COMMITTED_UNPUBLISHED")
                         ELSE Fail("COMMITTED_UNPUBLISHED")
  /\ UNCHANGED <<world, local, rc, foreign, ghost>>

-----------------------------------------------------------------------------
(* Push, remote and pull request. *)

FastForward(r) == IF r = Absent THEN TRUE ELSE IsPrefix(r, local)

\* What push_non_force does; when its completion is not reliable the caller
\* does not know whether it did.
PushEffect(applied) ==
  IF applied
  THEN /\ FastForward(remote)
       /\ remote' = local
       /\ effects' = effects \cup {"push"}
       /\ reached' = reached \cup {local}
  ELSE UNCHANGED <<remote, effects, reached>>

Push ==
  /\ pc = "push"
  /\ \E applied \in BOOLEAN :
       /\ PushEffect(applied)
       /\ \/ Goto("verify_remote")
          \/ ~applied /\ Fail("COMMITTED_UNPUBLISHED")
          \/ Uncertain("REMOTE_UNTRUSTWORTHY")
  /\ UNCHANGED <<mode, work, stray, index, head, pr, local, rc, foreign, moved>>

\* Mutation: the push is believed.
VerifyRemoteSkipped ==
  Observe("verify_remote", TRUE,
          IF mode = "NEW_WORK" THEN "create_pr" ELSE "verify_pr", FALSE)

\* Mutation: a remote that is elsewhere is an ordinary failure.
VerifyRemoteCertain ==
  Observe("verify_remote", remote = local,
          IF mode = "NEW_WORK" THEN "create_pr" ELSE "verify_pr",
          Fail("REMOTE_UNTRUSTWORTHY"))

\* Mutation: the remote is polled until it has the commit.
VerifyRemotePolls ==
  Observe("verify_remote", remote = local,
          IF mode = "NEW_WORK" THEN "create_pr" ELSE "verify_pr", FALSE)

VerifyRemote ==
  Observe("verify_remote", remote = local,
          IF mode = "NEW_WORK" THEN "create_pr" ELSE "verify_pr",
          Finish("REMOTE_UNTRUSTWORTHY", "INTERRUPTED", local, remote))

PrUntrustworthy == Finish("PR_UNTRUSTWORTHY", "INTERRUPTED", local, local)

\* create_pull_request, whose candidate must already match.
CreatePr ==
  /\ pc = "create_pr"
  /\ \/ /\ pr = "none" /\ pr' = "open"
        /\ effects' = effects \cup {"pr"}
        /\ \/ remote = local /\ Goto("verify_pr")
           \/ PrUntrustworthy
     \/ PrUntrustworthy /\ UNCHANGED <<pr, effects>>
  /\ UNCHANGED <<mode, work, stray, index, head, remote, local, rc, foreign,
                 reached, moved>>

VerifyPr ==
  /\ pc = "verify_pr"
  /\ \/ /\ ValidPr(local)
        /\ Finish("VERIFIED", "COMPLETED", local, local)
     \/ PrUntrustworthy
  /\ UNCHANGED <<world, local, rc, foreign, ghost>>

Step == \/ Inspect \/ Fingerprint \/ ObserveRemote \/ ObservePr \/ ExpectedObjects
        \/ Add \/ StagedPaths \/ StagedBytes \/ StagedIndex
        \/ GitCommit \/ RevParse \/ CommitParent \/ CommitClean \/ CommitTree
        \/ CommitReportedFailed \/ Push \/ VerifyRemote \/ CreatePr \/ VerifyPr

-----------------------------------------------------------------------------
(* Everybody else. *)

\* The local commit is frozen but its verification, on HEAD, is not over.
Verifying == pc \in {"commit_parent", "commit_clean", "commit_tree"}

Acts == /\ foreign < MaxForeign
        /\ foreign' = foreign + 1
        /\ UNCHANGED <<code, effects, mode>>

EditWorktree ==
  /\ Acts
  /\ \/ \E c \in Contents : work' = c /\ UNCHANGED stray
     \/ stray' \in BOOLEAN /\ UNCHANGED work
  /\ UNCHANGED <<index, head, remote, pr, reached, moved>>

StageWorktree ==
  /\ Acts
  /\ index' = work
  /\ UNCHANGED <<work, stray, head, remote, pr, reached, moved>>

\* A commit of what is staged, or the undoing of the last commit.
MoveHead ==
  /\ Acts
  /\ \/ index # Top(head) /\ head' = Append(head, Commit("other", index))
     \/ head # Base /\ head' = SubSeq(head, 1, Len(head) - 1)
  /\ moved' = (moved \/ Verifying)
  /\ UNCHANGED <<work, stray, index, remote, pr, reached>>

\* Somebody pushes, creates, rewinds or deletes the remote branch.
MoveRemote ==
  /\ Acts
  /\ \/ remote' \in {Absent, Base}
     \/ remote # Absent /\ remote' = Append(remote, Commit("elsewhere", Validated))
  /\ reached' = reached \cup {remote'}
  /\ UNCHANGED <<work, stray, index, head, pr, moved>>

\* Somebody opens, closes, reopens or retargets the pull request.
MovePr ==
  /\ Acts
  /\ pr' \in {"open", "closed", "retargeted"}
  /\ UNCHANGED <<work, stray, index, head, remote, reached, moved>>

Foreign == EditWorktree \/ StageWorktree \/ MoveHead \/ MoveRemote \/ MovePr

Next == Step \/ Foreign

Spec == Init /\ [][Next]_vars

\* Every step of the synchronous code returns or raises.
FairSpec == Spec /\ WF_vars(Step)

-----------------------------------------------------------------------------
(* Properties. *)

\* Type correctness of the publication and of its result.
TypeOK ==
  /\ mode \in {"NEW_WORK", "EXISTING_WORK"}
  /\ work \in Contents /\ stray \in BOOLEAN /\ index \in Contents
  /\ head \in Histories /\ remote \in Histories \cup {Absent}
  /\ pr \in {"none", "open", "closed", "retargeted"}
  /\ pc \in {"inspect", "fingerprint", "observe_remote", "observe_pr", "objects",
             "add", "staged_paths", "staged_bytes", "staged_index", "commit",
             "rev_parse", "commit_parent", "commit_clean", "commit_tree",
             "commit_failed", "push", "verify_remote", "create_pr", "verify_pr",
             "done"}
  /\ local \in Histories \cup {Absent}
  /\ rc \in {"none", "zero", "nonzero", "uncertain"}
  /\ result \in [status  : Statuses \cup {"none"},
                 outcome : {"none", "COMPLETED", "RUNTIME_FAILURE", "INTERRUPTED"},
                 local   : Histories \cup {Absent},
                 remote  : Histories \cup {Absent}]
  /\ foreign \in 0..MaxForeign
  /\ effects \subseteq {"index", "commit", "push", "pr"}
  /\ moved \in BOOLEAN

\* "All refusals happen before local mutation" (line 327): a refused
\* publication has touched neither index, branch, remote nor pull request.
RefusedIsHarmless == result.status = "REFUSED" => effects = {}

\* "A remote/PR side effect that cannot be verified is explicitly
\* untrustworthy rather than successful or NO_OP" (lines 328-330): once a push
\* or a creation has taken effect, known to the code or not, the only certain
\* result is VERIFIED.
UnverifiedEffectIsUncertain ==
  pc = "done" /\ effects \cap {"push", "pr"} # {}
    => result.status = "VERIFIED" \/ result.outcome = "INTERRUPTED"

\* A commit of the publication that is on the branch is named by the result,
\* or the result is uncertain: git's exit status alone is never believed
\* (lines 420-455).
NoHiddenCommit ==
  pc = "done" /\ result.outcome = "RUNTIME_FAILURE" /\ result.local = Absent
    => \A i \in 1..Len(head) : head[i].by # "runner"

\* A result never says less than was done, whichever of its effects took place
\* without the code's knowledge: not in the index, not on the branch, not remotely.
ResultIsHonest == RefusedIsHarmless /\ UnverifiedEffectIsUncertain /\ NoHiddenCommit

\* Remote evidence is truthful: a result that reports its commit as the remote
\* head was published there, whatever happened to the branch since.
RemoteEvidenceIsTrue ==
  result.local # Absent /\ result.remote = result.local => result.local \in reached

\* "Only a valid, exactly bounded worker result [...] can become a verified
\* remote branch" (docs/WORK_QUEUE.md:138): a verified commit is one commit on
\* the baseline with exactly the validated content, in spite of hooks, edits and
\* foreign commits at any step, as long as nobody moves HEAD between the
\* rev-parse and the end of the verification, which looks at HEAD again.
ExactlyValidated(h) == Len(h) = 1 /\ h[1].tree = Validated

VerifiedIsExact ==
  result.status = "VERIFIED" => ExactlyValidated(result.local) \/ moved

\* The same without the exception: what the document says.
VerifiedIsAlwaysExact ==
  result.status = "VERIFIED" => ExactlyValidated(result.local)

\* Every publication returns a result: nothing waits and nothing is retried.
PublicationEnds == <>(pc = "done")
=============================================================================
