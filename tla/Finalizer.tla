------------------------------ MODULE Finalizer ------------------------------
(***************************************************************************)
(* run_finalizer_prepass of runtime_durable_state.py, repeated from wake   *)
(* to wake, with the closure publication of finalizer_publication.py and   *)
(* the protected merge of finalizer_merge.py: one pull request, one        *)
(* approved head, one local checkout.  A supervisor comments, other people *)
(* push, close the pull request and edit the checkout meanwhile; commands  *)
(* and observations fail; the process dies.                                *)
(*                                                                         *)
(* A branch is the sequence of the commits on top of the substantive head. *)
(* A tree has the text of docs/WORK_QUEUE.md and the rest, unchanged since *)
(* the substantive head or not.  Of the text the row of the checkpoint is  *)
(* kept ("review", or exactly the derived "done", or anything else) and    *)
(* how lines end: "lf" is a text without carriage returns, "crlf" one with *)
(* them.                                                                   *)
(***************************************************************************)
EXTENDS SequencesExt, SupervisorDecisions, FinalizerEligibility

CONSTANTS
  Absent,       \* no head
  Sources,      \* work queues the substantive head may have
  Callers,      \* what the caller supplies beside the row (see Caller)
  MaxComments,  \* decisions the supervisor posts
  MaxForeign,   \* how often somebody else acts
  MaxFaults     \* how often something fails

Endings == {"lf", "crlf"}
Queues == [row : {"review", "done"}, ends : Endings] \cup [row : {"other"}, ends : {"lf"}]
Parts  == {"same", "changed"}
Commits == [by : {"runner", "other"}, queue : Queues, rest : Parts]
Histories == Seq(Commits)

\* "fine", or what is wrong with the facts; and the pull requests that the caller
\* knows for the checkpoint, in order.
Caller == [fact : {"fine", "gate", "checks", "human", "destructive"},
           candidates : Seq({"this", "another"})]

ASSUME FinalizerAssumption ==
  /\ Absent \notin Histories
  /\ Sources \subseteq [row : {"review", "done"}, ends : Endings]
  /\ Callers \subseteq Caller
  /\ MaxComments \in Nat /\ MaxForeign \in Nat /\ MaxFaults \in Nat

VARIABLES
  source,    \* the work queue at the substantive head
  remote,    \* head of the pull request
  pr,        \* its state
  comments,  \* its comments, in the order of their creation
  merged,    \* history: the head that was merged, and what was known of it
  head,      \* the checked-out branch
  index,     \* the work queue in the index
  work,      \* the work queue in the worktree
  stray,     \* the checkout has another staged, changed or untracked path
  ctx,       \* DirectedFinalizerContext of this wake
  seen,      \* the observations of this pre-pass
  pc,        \* its next step
  local,     \* local_head
  result,    \* its status, or "KILLED"
  foreign, faults,  \* how often, so far
  effects,   \* history: what this pre-pass has changed
  approved,  \* history: the head was approved at some moment of this wake
  moved,     \* history: HEAD moved between its observation and its last check
  rewound    \* history: the pull request went back to an earlier head

github   == <<source, remote, pr, comments, merged>>
checkout == <<head, index, work, stray>>
prepass  == <<ctx, seen, local>>
ghost    == <<effects, approved, moved, rewound>>
vars     == <<github, checkout, prepass, pc, result, foreign, faults, ghost>>

Base == <<>>
Commit(who, q, r) == [by |-> who, queue |-> q, rest |-> r]
Tree(h) == IF h = Base THEN [queue |-> source, rest |-> "same"]
           ELSE [queue |-> h[Len(h)].queue, rest |-> h[Len(h)].rest]

Statuses == {"NO_FINALIZATION", "CLOSURE_PUBLISHED", "MERGED",
             "RUNTIME_FAILURE", "INTERRUPTED"}

\* What the supervisor has said last about the substantive head.
LastWord(cs) ==
  LET said == Applicable(cs, Base)
  IN  IF said = {} THEN "none"
      ELSE cs[CHOOSE i \in said : \A j \in said : j <= i].body.marker

\* An objection to a head of this pull request, later than the approval.
Contradicted(cs) ==
  \E i, j \in DOMAIN cs :
    /\ i < j /\ i \in Applicable(cs, Base) /\ cs[i].body.marker = "APPROVED"
    /\ IsDecision(cs[j]) /\ cs[j].body.marker # "APPROVED"
    /\ ~\E k \in Applicable(cs, Base) : k > j

NotMerged == [head |-> Absent, approved |-> FALSE, contradicted |-> FALSE, rewound |-> FALSE]
Unseen == [head |-> Absent, mergeable |-> FALSE, comments |-> <<>>, work |-> <<>>, closure |-> FALSE]

Init ==
  /\ source \in Sources
  /\ remote = Base /\ pr = "open" /\ comments = <<>> /\ merged = NotMerged
  /\ head = Base /\ index = source /\ work = source /\ stray = FALSE
  /\ ctx = [state |-> "none", fact |-> "fine", candidates |-> <<>>]
  /\ seen = Unseen /\ pc = "idle" /\ local = Absent /\ result = "none"
  /\ foreign = 0 /\ faults = 0
  /\ effects = {} /\ approved = FALSE /\ moved = FALSE /\ rewound = FALSE

Goto(c) == pc' = c /\ UNCHANGED result
End(status) == pc' = "idle" /\ result' = status

\* Something fails, and a step in which nothing does.
Fault == faults < MaxFaults /\ faults' = faults + 1
Works == UNCHANGED faults

\* A read-only step: on, if what it observes is right; the end of the pre-pass
\* if it is not or if it cannot be observed.
Check(at, right, next, wrong) ==
  /\ pc = at
  /\ \/ right /\ Works /\ Goto(next)
     \/ ~right /\ Works /\ End(wrong)
     \/ Fault /\ End(wrong)
  /\ UNCHANGED <<github, checkout, prepass, foreign, ghost>>

-----------------------------------------------------------------------------
(* The wake's refresh, and the observations of the pre-pass. *)

\* The row that the caller reads on the pull request.
ReadRow(queue) == CASE queue.row = "review" -> {"AI_REVIEW"}
                    [] queue.row = "done"   -> {"DONE"}
                    [] OTHER                -> {"AI_REVIEW", "DONE", "WORKING"}

\* DurableWakeRefresher.refresh: the context of a new pre-pass.
Refresh ==
  /\ pc = "idle"
  /\ \E s \in ReadRow(Tree(remote).queue), c \in Callers :
       ctx' = [state |-> s, fact |-> c.fact, candidates |-> c.candidates]
  /\ seen' = Unseen /\ local' = Absent
  /\ pc' = "pull_request" /\ result' = "none"
  /\ effects' = {} /\ moved' = FALSE /\ rewound' = FALSE
  /\ approved' = (LastWord(comments) = "APPROVED")
  /\ UNCHANGED <<github, checkout, foreign, faults>>

\* The repository's identity, twice, and the pull request's head; mergeability
\* is UNKNOWN while it is being computed.
ObservePullRequest ==
  /\ pc = "pull_request"
  /\ \/ /\ \/ Works /\ seen' = [seen EXCEPT !.head = remote, !.mergeable = TRUE]
           \/ Fault /\ seen' = [seen EXCEPT !.head = remote]
        /\ Goto("comments")
     \/ Fault /\ UNCHANGED seen /\ End("RUNTIME_FAILURE")
  /\ UNCHANGED <<github, checkout, ctx, local, foreign, ghost>>

\* All pages; a comment may be read on two of them.
ObserveComments ==
  /\ pc = "comments"
  /\ \/ /\ \/ Works /\ seen' = [seen EXCEPT !.comments = comments]
           \/ /\ Fault
              /\ \E i \in DOMAIN comments :
                   seen' = [seen EXCEPT !.comments = Append(comments, comments[i])]
        /\ Goto("existing_work")
     \/ Fault /\ UNCHANGED seen /\ End("RUNTIME_FAILURE")
  /\ UNCHANGED <<github, checkout, ctx, local, foreign, ghost>>

\* The candidates, one by one; another pull request is active.
Observed(candidate) ==
  IF candidate = "this" THEN [pr |-> "this", head |-> remote, active |-> pr = "open"]
  ELSE [pr |-> candidate, head |-> Base, active |-> TRUE]

ObserveExistingWork ==
  /\ pc = "existing_work"
  /\ \/ /\ Works
        /\ seen' = [seen EXCEPT !.work =
                      [i \in DOMAIN ctx.candidates |-> Observed(ctx.candidates[i])]]
        /\ Goto("classify")
     \/ Fault /\ UNCHANGED seen /\ End("RUNTIME_FAILURE")
  /\ UNCHANGED <<github, checkout, ctx, local, foreign, ghost>>

\* derive_allowlisted_closure, of a row that allows it: every line, the changed
\* one too, keeps its ending.
Derived == [row |-> "done", ends |-> source.ends]

\* What run_native_process makes of a text on git's standard output: in text
\* mode every CRLF and every CR is read as LF.
AsText(queue) == [queue EXCEPT !.ends = "lf"]

\* Mutation: any later head with the derived row is a closure.
ValidClosureByQueue(h) == h # Base /\ Tree(h).queue.row = "done"

\* _valid_closure: net difference to the substantive head, whatever commits
\* make it up; there is none if the row cannot be derived from its text.  The
\* candidate is read as text, the derived one has the endings of the source.
ValidClosure(h) ==
  /\ h # Base /\ source.row = "review"
  /\ AsText(Tree(h).queue) = Derived /\ Tree(h).rest = "same"

\* git show and git diff of a head that may not have been fetched.
Classify ==
  /\ pc = "classify"
  /\ \/ Works /\ seen' = [seen EXCEPT !.closure = ValidClosure(seen.head)] /\ Goto("decide")
     \/ Fault /\ UNCHANGED seen /\ (Goto("decide") \/ End("RUNTIME_FAILURE"))
  /\ UNCHANGED <<github, checkout, ctx, local, foreign, ghost>>

Target == [pr |-> "this", head |-> Base]

\* build_eligibility_observation.
Eligibility ==
  [head |-> seen.head, work |-> seen.work, decisions |-> Discover(seen.comments, Base),
   invalidated |-> LaterInvalidating(seen.comments, Base),
   relationship |-> IF seen.closure THEN "VALID_ALLOWLISTED_CLOSURE" ELSE "SUBSTANTIVE_HEAD",
   changed |-> seen.head # Base /\ ~seen.closure,
   mergeable |-> seen.mergeable, state |-> ctx.state,
   gate |-> IF ctx.fact = "gate" THEN "HUMAN" ELSE "AI",
   checks |-> ctx.fact # "checks", human |-> ctx.fact = "human",
   safe |-> ctx.fact # "destructive"]

\* Where the pre-pass goes: nowhere, to the derivation of a closure from a row
\* that allows it, or to the merge.
Decide ==
  LET path == Path(Target, Eligibility)
  IN  /\ pc = "decide"
      /\ IF path = "PROTECTED_MERGE" THEN Goto("merge")
         ELSE IF path = "CLOSURE_REQUIRED" /\ source.row = "review" THEN Goto("clean")
         ELSE End("NO_FINALIZATION")
      /\ UNCHANGED <<github, checkout, prepass, foreign, faults, ghost>>

-----------------------------------------------------------------------------
(* publish_allowlisted_closure. *)

Clean == index = Tree(head).queue /\ work = index /\ ~stray

\* The work queue, and nothing else, is either staged or changed, not both.
OnlyQueueTouched ==
  /\ (index # Tree(head).queue) # (work # index)
  /\ ~stray

\* The destination, then a clean checkout of the substantive head.
CleanCheckout == Check("clean", head = Base /\ Clean, "preflight", "RUNTIME_FAILURE")

\* The blob at the substantive head is the caller's text; the remote is there.
Preflight == Check("preflight", remote = Base, "write", "RUNTIME_FAILURE")

\* A text that was written in part.
Torn == [row |-> "other", ends |-> "lf"]

Write ==
  /\ pc = "write"
  /\ \/ Works /\ work' = Derived /\ Goto("post_write")
     \/ Fault /\ work' \in {work, Derived, Torn} /\ End("RUNTIME_FAILURE")
  /\ effects' = effects \cup {"write"}
  /\ UNCHANGED <<github, head, index, stray, prepass, foreign, approved, moved, rewound>>

PostWrite == Check("post_write", head = Base /\ OnlyQueueTouched, "read_back", "RUNTIME_FAILURE")

ReadBack == Check("read_back", work = Derived, "stage", "RUNTIME_FAILURE")

Stage ==
  /\ pc = "stage"
  /\ \/ Works /\ index' = work /\ Goto("post_stage")
     \/ Fault /\ index' \in {index, work} /\ End("RUNTIME_FAILURE")
  /\ UNCHANGED <<github, head, work, stray, prepass, foreign, ghost>>

PostStage == Check("post_stage", head = Base /\ OnlyQueueTouched, "staged_blob", "RUNTIME_FAILURE")

StagedBlob == Check("staged_blob", index = Derived, "commit", "RUNTIME_FAILURE")

\* What git commit adds to the branch: the index, unless a hook changes it.
Committing(q, r) ==
  /\ Commit("runner", q, r) # Commit("runner", Tree(head).queue, Tree(head).rest)
  /\ head' = Append(head, Commit("runner", q, r)) /\ index' = q
  /\ effects' = effects \cup {"commit"}

\* Its failure is reported without a local head, with or without a commit.
GitCommit ==
  /\ pc = "commit"
  /\ \/ Works /\ Committing(index, Tree(head).rest) /\ Goto("post_commit")
     \/ Fault /\ (\E q \in Queues, r \in Parts : Committing(q, r)) /\ Goto("post_commit")
     \/ Fault /\ Committing(index, Tree(head).rest) /\ End("RUNTIME_FAILURE")
     \/ /\ IF index = Tree(head).queue THEN Works ELSE Fault
        /\ End("RUNTIME_FAILURE") /\ UNCHANGED <<head, index, effects>>
  /\ UNCHANGED <<github, work, stray, prepass, foreign, approved, moved, rewound>>

\* The inspection whose head is local_head; after an exception _safe_head may
\* or may not find one.
PostCommit ==
  /\ pc = "post_commit"
  /\ \/ local' = head /\ Works /\ (IF head # Base /\ Clean THEN Goto("commit_shape") ELSE End("INTERRUPTED"))
     \/ local' = head /\ Fault /\ End("INTERRUPTED")
     \/ local' = Absent /\ Fault /\ End("RUNTIME_FAILURE")
  /\ UNCHANGED <<github, checkout, ctx, seen, foreign, ghost>>

\* A check of HEAD after local_head is known.
CheckHead(at, right, next) ==
  \/ Check(at, right, next, "INTERRUPTED")
  \/ /\ pc = at /\ Fault /\ End("RUNTIME_FAILURE")
     /\ UNCHANGED <<github, checkout, prepass, foreign, ghost>>

\* One parent, the substantive head; one changed path, the work queue.
CommitShape ==
  CheckHead("commit_shape",
            Len(head) = 1 /\ Tree(head).queue # source /\ Tree(head).rest = "same",
            "commit_blob")

\* Mutation: the committed text is not read back.
CommitBlobUnread == CheckHead("commit_blob", TRUE, "pre_push")

CommitBlob == CheckHead("commit_blob", Tree(head).queue = Derived, "pre_push")

PrePush == Check("pre_push", remote = Base, "push", "INTERRUPTED")

\* git push of HEAD, whatever it is by now, without force.
PushEffect(applied) ==
  IF applied THEN IsPrefix(remote, head) /\ remote' = head /\ effects' = effects \cup {"push"}
             ELSE UNCHANGED <<remote, effects>>

Push ==
  /\ pc = "push"
  /\ \/ PushEffect(TRUE) /\ Works /\ Goto("post_verify")
     \/ Fault /\ End("INTERRUPTED") /\ \E applied \in BOOLEAN : PushEffect(applied)
     \/ ~IsPrefix(remote, head) /\ Works /\ End("INTERRUPTED") /\ PushEffect(FALSE)
  /\ UNCHANGED <<source, pr, comments, merged, checkout, prepass, foreign,
                 approved, moved, rewound>>

\* Mutation: a remote that is elsewhere is an ordinary failure.
PostVerifyCertain ==
  /\ pc = "post_verify"
  /\ \/ remote = local /\ Works /\ End("CLOSURE_PUBLISHED")
     \/ remote # local /\ Works /\ End("RUNTIME_FAILURE")
     \/ Fault /\ End("RUNTIME_FAILURE")
  /\ UNCHANGED <<github, checkout, prepass, foreign, ghost>>

PostVerify ==
  /\ pc = "post_verify"
  /\ \/ remote = local /\ Works /\ End("CLOSURE_PUBLISHED")
     \/ remote # local /\ Works /\ End("INTERRUPTED")
     \/ Fault /\ End("INTERRUPTED")
  /\ UNCHANGED <<github, checkout, prepass, foreign, ghost>>

-----------------------------------------------------------------------------
(* merge_after_fresh_revalidation. *)

\* GitHub's condition: still open, still at the head that was observed.
Accepts == pr = "open" /\ remote = seen.head

MergeEffect(applied) ==
  IF applied
  THEN /\ Accepts
       /\ pr' = "merged" /\ effects' = effects \cup {"merge"}
       /\ merged' = [head |-> remote, approved |-> approved,
                     contradicted |-> Contradicted(seen.comments), rewound |-> rewound]
  ELSE UNCHANGED <<pr, merged, effects>>

\* Mutation: an error response means that nothing was merged.
MergeBelievesErrors ==
  /\ pc = "merge"
  /\ \/ MergeEffect(TRUE) /\ Works /\ End("MERGED")
     \/ Fault /\ End("NO_FINALIZATION") /\ \E applied \in BOOLEAN : MergeEffect(applied)
     \/ ~Accepts /\ Works /\ End("NO_FINALIZATION") /\ MergeEffect(FALSE)
  /\ UNCHANGED <<source, remote, comments, checkout, prepass, foreign,
                 approved, moved, rewound>>

\* Mutation: a failed merge blocks the checkpoint.
MergeBlocks ==
  /\ pc = "merge"
  /\ \/ MergeEffect(TRUE) /\ Works /\ End("MERGED")
     \/ Fault /\ End("BLOCKED") /\ \E applied \in BOOLEAN : MergeEffect(applied)
  /\ UNCHANGED <<source, remote, comments, checkout, prepass, foreign,
                 approved, moved, rewound>>

\* Any error, a refusal included, is of unknown completion; only another
\* repository's identity is refused before the request.
Merge ==
  /\ pc = "merge"
  /\ \/ MergeEffect(TRUE) /\ Works /\ End("MERGED")
     \/ Fault /\ End("INTERRUPTED") /\ \E applied \in BOOLEAN : MergeEffect(applied)
     \/ ~Accepts /\ Works /\ End("INTERRUPTED") /\ MergeEffect(FALSE)
     \/ Fault /\ End("NO_FINALIZATION") /\ MergeEffect(FALSE)
  /\ UNCHANGED <<source, remote, comments, checkout, prepass, foreign,
                 approved, moved, rewound>>

\* The process dies, or an interrupt leaves the pre-pass without a result.
Crash ==
  /\ pc # "idle" /\ Fault /\ End("KILLED")
  /\ UNCHANGED <<github, checkout, prepass, foreign, ghost>>

Publication == \/ CleanCheckout \/ Preflight \/ Write \/ PostWrite \/ ReadBack
               \/ Stage \/ PostStage \/ StagedBlob \/ GitCommit \/ PostCommit
               \/ CommitShape \/ CommitBlob \/ PrePush \/ Push \/ PostVerify

Step == \/ Refresh \/ ObservePullRequest \/ ObserveComments \/ ObserveExistingWork
        \/ Classify \/ Decide \/ Publication \/ Merge

-----------------------------------------------------------------------------
(* Everybody else. *)

\* The clock of created_at, in seconds: two comments may have the same.
Now == IF comments = <<>> THEN {1} ELSE {Last(comments).at, Last(comments).at + 1}

\* The supervisor decides on the substantive head or on the one it sees, or
\* writes a decision that binds nothing.
Post ==
  /\ Len(comments) < MaxComments
  /\ \E k \in Kinds, t \in Now :
       \E b \in {Decision(k, Base), Decision(k, remote), Garbled(k)} :
         comments' = Append(comments, [id |-> Len(comments) + 1, at |-> t, body |-> b])
  /\ approved' = (approved \/ LastWord(comments') = "APPROVED")
  /\ UNCHANGED <<source, remote, pr, merged, checkout, prepass, pc, result, foreign,
                 faults, effects, moved, rewound>>

Acts == /\ foreign < MaxForeign
        /\ foreign' = foreign + 1
        /\ UNCHANGED <<source, comments, merged, prepass, pc, result, faults, effects, approved>>

\* Another push, or a forced one, to the branch of the pull request.
MoveRemote ==
  /\ Acts
  /\ \/ remote' = Base
     \/ \E q \in Queues, r \in Parts :
          remote' \in {Append(remote, Commit("other", q, r)), <<Commit("other", q, r)>>}
  /\ rewound' = (rewound \/ remote' = Base)
  /\ UNCHANGED <<pr, checkout, moved>>

ChangePr ==
  /\ Acts
  /\ pr # "merged" /\ pr' \in {"open", "closed"}
  /\ UNCHANGED <<remote, checkout, moved, rewound>>

EditCheckout ==
  /\ Acts
  /\ \/ work' \in Queues /\ UNCHANGED <<index, stray>>
     \/ index' = work /\ UNCHANGED <<work, stray>>
     \/ stray' \in BOOLEAN /\ UNCHANGED <<work, index>>
  /\ UNCHANGED <<remote, pr, head, moved, rewound>>

\* local_head is known but the checks of HEAD are not over.
Verifying == pc \in {"commit_shape", "commit_blob"}

\* Somebody commits, or resets the checkout to the substantive head.
MoveHead ==
  /\ Acts
  /\ \/ /\ head' = Append(head, Commit("other", index, Tree(head).rest))
        /\ UNCHANGED <<index, work, stray>>
     \/ head' = Base /\ index' = source /\ work' = source /\ stray' = FALSE
  /\ moved' = (moved \/ Verifying)
  /\ UNCHANGED <<remote, pr, rewound>>

Foreign == MoveRemote \/ ChangePr \/ EditCheckout \/ MoveHead

Next == Step \/ Crash \/ Post \/ Foreign

Spec == Init /\ [][Next]_vars

\* Wakes are started again and again, and each of their steps returns.
FairSpec == Spec /\ WF_vars(Step)

-----------------------------------------------------------------------------
(* Properties. *)

\* Type correctness, of the result above all: a pre-pass never reports a
\* blocked checkpoint (D-006).
TypeOK ==
  /\ source \in Sources
  /\ remote \in Histories /\ pr \in {"open", "closed", "merged"}
  /\ Len(comments) <= MaxComments
  /\ merged.head \in Histories \cup {Absent}
  /\ merged.approved \in BOOLEAN /\ merged.contradicted \in BOOLEAN /\ merged.rewound \in BOOLEAN
  /\ head \in Histories /\ index \in Queues /\ work \in Queues /\ stray \in BOOLEAN
  /\ ctx.state \in {"none", "AI_REVIEW", "DONE", "WORKING"}
  /\ seen.head \in Histories \cup {Absent}
  /\ seen.mergeable \in BOOLEAN /\ seen.closure \in BOOLEAN
  /\ pc \in {"idle", "pull_request", "comments", "existing_work", "classify", "decide",
             "clean", "preflight", "write", "post_write", "read_back", "stage",
             "post_stage", "staged_blob", "commit", "post_commit", "commit_shape",
             "commit_blob", "pre_push", "push", "post_verify", "merge"}
  /\ local \in Histories \cup {Absent}
  /\ result \in Statuses \cup {"none", "KILLED"}
  /\ foreign \in 0..MaxForeign /\ faults \in 0..MaxFaults
  /\ effects \subseteq {"write", "commit", "push", "merge"}
  /\ approved \in BOOLEAN /\ moved \in BOOLEAN /\ rewound \in BOOLEAN

\* What is merged is what was reviewed, or differs from it by the derived
\* closure alone, whoever pushes at any moment: the closure is judged by its whole
\* difference and the merge is bound to the head so judged.  The line endings of
\* the merged work queue may be others than the reviewed ones, since they are not
\* seen; then the reviewed text had no carriage returns.
MergedIsReviewed ==
  merged.head \notin {Absent, Base} =>
    LET tree == Tree(merged.head)
    IN  /\ tree.queue.row = "done" /\ tree.rest = "same"
        /\ source = [row |-> "review", ends |-> "lf"]

\* The supervisor's last word on the substantive head was an approval at some
\* moment of the wake that merged, even if comments were read twice.
MergeWasApproved == merged.head # Absent => merged.approved

\* A checkpoint whose row is still open is not merged, unless somebody took the
\* pull request back to such a head after the wake had read a closed row.
MergedCheckpointIsClosed ==
  merged.head # Absent => Tree(merged.head).queue.row = "done" \/ merged.rewound

\* A pre-pass without a finalization, which lets the wake go on to a worker,
\* has changed nothing.
NoFinalizationIsHarmless == result = "NO_FINALIZATION" => effects = {}

\* An ordinary failure has changed neither the pull request nor its branch.
FailureIsLocal == result = "RUNTIME_FAILURE" => effects \cap {"push", "merge"} = {}

\* A published closure is one commit on the substantive head with the derived
\* text, its line endings included, and nothing else, in spite of hooks, edits and
\* pushes, as long as nobody moves HEAD between the inspection that names it and
\* the checks of HEAD.
PublishedIsExact ==
  result = "CLOSURE_PUBLISHED" =>
    \/ moved
    \/ Len(local) = 1 /\ Tree(local).queue = Derived /\ Tree(local).rest = "same"

\* The sources that are merged as they are, or whose closure the next wake
\* recognises.
Recognisable == source.row = "done" \/ source.ends = "lf"

\* When nothing fails and nobody interferes, work that remains approved is
\* closed and merged by repeated wakes, whatever else was said of it before.  A
\* work queue with carriage returns is the exception: its closure is published,
\* but the next wake takes it for a later change, and it is never merged.
ApprovedWorkIsMerged ==
  /\ Recognisable /\ <>[](LastWord(comments) = "APPROVED") => <>(merged.head # Absent)
  /\ ~Recognisable => [](merged.head = Absent)

\* "a later durable AI_SUPERVISOR: AI_REWORK or AI_SUPERVISOR: HUMAN_REQUIRED,
\* invalidates the applicable approval" (docs/AUTONOMY.md:120): of the comments
\* that the pre-pass has read.
LaterDecisionInvalidates == merged.head # Absent => ~merged.contradicted

\* "Make repeat attempts converge" (docs/ARCHITECTURE_ASSESSMENT.md:239): a
\* failure that does not come back does not stop approved work for good.
RepeatAttemptsConverge == ApprovedWorkIsMerged
=============================================================================
