---------------------------- MODULE FinalizerProofs ----------------------------
(***************************************************************************)
(* Theorems about Finalizer, for any rows and callers and any number of    *)
(* comments, foreign actions and failures.                                 *)
(***************************************************************************)
EXTENDS Finalizer, SequenceTheorems, TLAPS

Bodies == [marker : Kinds, again : BOOLEAN, bound : SUBSET Histories, garbled : BOOLEAN]

Comments == [id : Nat, at : Nat, body : Bodies]

ObservedWork == [pr : {"this", "another"}, head : Histories, active : BOOLEAN]

GithubTyped ==
  /\ source \in Sources
  /\ remote \in Histories /\ pr \in {"open", "closed", "merged"}
  /\ comments \in Seq(Comments) /\ Len(comments) <= MaxComments
  /\ merged \in [head : Histories \cup {Absent}, approved : BOOLEAN,
                 contradicted : BOOLEAN, rewound : BOOLEAN]

CheckoutTyped ==
  head \in Histories /\ index \in Queues /\ work \in Queues /\ stray \in BOOLEAN

PrepassTyped ==
  /\ ctx \in [state : {"none", "AI_REVIEW", "DONE", "WORKING"},
              fact : {"fine", "gate", "checks", "human", "destructive"},
              candidates : Seq({"this", "another"})]
  /\ seen \in [head : Histories \cup {Absent}, mergeable : BOOLEAN, comments : Seq(Comments),
               work : Seq(ObservedWork), closure : BOOLEAN]
  /\ local \in Histories \cup {Absent}

Steps == {"idle", "pull_request", "comments", "existing_work", "classify", "decide",
          "clean", "preflight", "write", "post_write", "read_back", "stage",
          "post_stage", "staged_blob", "commit", "post_commit", "commit_shape",
          "commit_blob", "pre_push", "push", "post_verify", "merge"}

ControlTyped == pc \in Steps /\ result \in Statuses \cup {"none", "KILLED"}

CountersTyped ==
  /\ foreign \in 0..MaxForeign /\ faults \in 0..MaxFaults
  /\ effects \subseteq {"write", "commit", "push", "merge"}
  /\ approved \in BOOLEAN /\ moved \in BOOLEAN /\ rewound \in BOOLEAN

\* The types, those of the comments and of the records included.
Typed == GithubTyped /\ CheckoutTyped /\ PrepassTyped /\ ControlTyped /\ CountersTyped
-----------------------------------------------------------------------------
(* Type correctness. *)

\* The source is a work queue, and the two texts a publication may write.
LEMMA SourceTyped ==
  ASSUME source \in Sources
  PROVE  /\ source \in Queues /\ Derived \in Queues /\ Torn \in Queues
         /\ source \in [row : {"review", "done"}, ends : Endings]
BY FinalizerAssumption DEF Queues, Derived, Torn

\* What a head's tree has.
LEMMA TreeTyped ==
  ASSUME source \in Sources, NEW h \in Histories
  PROVE  Tree(h).queue \in Queues /\ Tree(h).rest \in Parts
<1>1. CASE h = Base
  BY <1>1, SourceTyped DEF Tree, Parts
<1>2. CASE h # Base
  <2>1. Len(h) \in 1..Len(h)
    BY <1>2, EmptySeq DEF Histories, Base
  <2>2. h[Len(h)] \in Commits
    BY <2>1, ElementOfSeq DEF Histories
  <2> QED
    BY <1>2, <2>2 DEF Tree, Commits
<1> QED
  BY <1>1, <1>2

\* A commit lengthens a branch.
LEMMA AppendTyped ==
  ASSUME NEW h \in Histories, NEW who \in {"runner", "other"}, NEW q \in Queues, NEW r \in Parts
  PROVE  /\ Commit(who, q, r) \in Commits
         /\ Append(h, Commit(who, q, r)) \in Histories
         /\ <<Commit(who, q, r)>> \in Histories
  BY DEF Commit, Commits, Histories

\* A step without a fault or with one keeps the count of faults.
LEMMA FaultsTyped ==
  ASSUME CountersTyped, Works \/ Fault
  PROVE  faults' \in 0..MaxFaults
  BY FinalizerAssumption DEF CountersTyped, Works, Fault

\* Observations of the candidates are observations.
LEMMA WorkTyped ==
  ASSUME Typed
  PROVE  [i \in DOMAIN ctx.candidates |-> Observed(ctx.candidates[i])] \in Seq(ObservedWork)
<1> DEFINE n == Len(ctx.candidates)
<1>1. ctx.candidates \in Seq({"this", "another"})
  BY DEF Typed, PrepassTyped
<1>2. n \in Nat /\ DOMAIN ctx.candidates = 1..n /\ \A i \in 1..n : ctx.candidates[i] \in {"this", "another"}
  BY <1>1
<1>3. \A c \in {"this", "another"} : Observed(c) \in ObservedWork
  BY EmptySeq DEF Observed, ObservedWork, Typed, GithubTyped, Base, Histories
<1>4. [i \in 1..n |-> Observed(ctx.candidates[i])] \in [1..n -> ObservedWork]
  BY <1>2, <1>3
<1> QED
  BY <1>2, <1>4, SeqDef

\* Each observation is typed.
LEMMA SeenTyped ==
  ASSUME Typed
  PROVE  /\ Unseen \in [head : Histories \cup {Absent}, mergeable : BOOLEAN,
                        comments : Seq(Comments), work : Seq(ObservedWork), closure : BOOLEAN]
         /\ \A m \in BOOLEAN : [seen EXCEPT !.head = remote, !.mergeable = m] \in
              [head : Histories \cup {Absent}, mergeable : BOOLEAN,
               comments : Seq(Comments), work : Seq(ObservedWork), closure : BOOLEAN]
         /\ \A cs \in Seq(Comments) : [seen EXCEPT !.comments = cs] \in
              [head : Histories \cup {Absent}, mergeable : BOOLEAN,
               comments : Seq(Comments), work : Seq(ObservedWork), closure : BOOLEAN]
         /\ \A w \in Seq(ObservedWork) : [seen EXCEPT !.work = w] \in
              [head : Histories \cup {Absent}, mergeable : BOOLEAN,
               comments : Seq(Comments), work : Seq(ObservedWork), closure : BOOLEAN]
         /\ \A v \in BOOLEAN : [seen EXCEPT !.closure = v] \in
              [head : Histories \cup {Absent}, mergeable : BOOLEAN,
               comments : Seq(Comments), work : Seq(ObservedWork), closure : BOOLEAN]
  BY EmptySeq DEF Typed, PrepassTyped, GithubTyped, Unseen

\* What the supervisor may post is a comment.
LEMMA PostTyped ==
  ASSUME GithubTyped, NEW k \in Kinds, NEW t \in Now,
         NEW b \in {Decision(k, Base), Decision(k, remote), Garbled(k)}
  PROVE  [id |-> Len(comments) + 1, at |-> t, body |-> b] \in Comments
<1>1. Len(comments) \in Nat
  BY DEF GithubTyped
<1>2. t \in Nat
  <2>1. CASE comments = <<>>
    BY <2>1 DEF Now
  <2>2. CASE comments # <<>>
    <3>1. Len(comments) \in 1..Len(comments)
      BY <2>2, EmptySeq DEF GithubTyped
    <3>2. Last(comments) \in Comments
      BY <3>1, ElementOfSeq DEF Last, GithubTyped
    <3> QED
      BY <2>2, <3>2 DEF Now, Comments
  <2> QED
    BY <2>1, <2>2
<1>3. b \in Bodies
  <2>1. Base \in Histories /\ remote \in Histories
    BY EmptySeq DEF GithubTyped, Base, Histories
  <2>2. \A h \in Histories : Decision(k, h) \in Bodies
    BY DEF Decision, Bodies
  <2>3. Garbled(k) \in Bodies
    BY DEF Garbled, Bodies
  <2> QED
    BY <2>1, <2>2, <2>3
<1> QED
  BY <1>1, <1>2, <1>3 DEF Comments

\* The steps of the pre-pass before it acts keep the types;
LEMMA ObservingTyped ==
  ASSUME Typed,
         Refresh \/ ObservePullRequest \/ ObserveComments \/ ObserveExistingWork \/ Classify
         \/ Decide
  PROVE  Typed'
<1> USE DEF Typed
<1>1. CASE Refresh
  <2>1. GithubTyped' /\ CheckoutTyped'
    BY <1>1 DEF Refresh, github, checkout, GithubTyped, CheckoutTyped
  <2>2. ctx' \in [state : {"none", "AI_REVIEW", "DONE", "WORKING"},
                  fact : {"fine", "gate", "checks", "human", "destructive"},
                  candidates : Seq({"this", "another"})]
    <3>1. PICK s \in ReadRow(Tree(remote).queue), c \in Callers :
            ctx' = [state |-> s, fact |-> c.fact, candidates |-> c.candidates]
      BY <1>1 DEF Refresh
    <3>2. Tree(remote).queue \in Queues
      BY TreeTyped DEF GithubTyped
    <3>3. s \in {"AI_REVIEW", "DONE", "WORKING"}
      BY <3>2 DEF ReadRow, Queues
    <3>4. c \in Caller
      BY FinalizerAssumption
    <3> QED
      BY <3>1, <3>3, <3>4 DEF Caller
  <2>3. PrepassTyped'
    BY <1>1, <2>2, SeenTyped DEF Refresh, PrepassTyped
  <2>4. ControlTyped' /\ CountersTyped'
    BY <1>1 DEF Refresh, ControlTyped, CountersTyped, Steps
  <2> QED
    BY <2>1, <2>3, <2>4
<1>2. CASE ObservePullRequest
  <2>1. GithubTyped' /\ CheckoutTyped'
    BY <1>2 DEF ObservePullRequest, github, checkout, GithubTyped, CheckoutTyped
  <2>2. PrepassTyped'
    <3>1. \/ seen' = seen
          \/ seen' = [seen EXCEPT !.head = remote, !.mergeable = TRUE]
          \/ seen' = [seen EXCEPT !.head = remote, !.mergeable = seen.mergeable]
      <4>1. [seen EXCEPT !.head = remote] = [seen EXCEPT !.head = remote, !.mergeable = seen.mergeable]
        BY DEF PrepassTyped
      <4> QED
        BY <1>2, <4>1 DEF ObservePullRequest
    <3>2. seen.mergeable \in BOOLEAN
      BY DEF PrepassTyped
    <3> QED
      BY <1>2, <3>1, <3>2, SeenTyped DEF ObservePullRequest, PrepassTyped
  <2>3. ControlTyped' /\ CountersTyped'
    BY <1>2, FaultsTyped
    DEF ObservePullRequest, Goto, End, ControlTyped, CountersTyped, Steps, Statuses, ghost
  <2> QED
    BY <2>1, <2>2, <2>3
<1>3. CASE ObserveComments
  <2>1. GithubTyped' /\ CheckoutTyped'
    BY <1>3 DEF ObserveComments, github, checkout, GithubTyped, CheckoutTyped
  <2>2. PrepassTyped'
    <3>1. \A i \in DOMAIN comments : Append(comments, comments[i]) \in Seq(Comments)
      BY LenProperties, ElementOfSeq, AppendProperties DEF GithubTyped
    <3>2. seen' = seen \/ \E cs \in Seq(Comments) : seen' = [seen EXCEPT !.comments = cs]
      BY <1>3, <3>1 DEF ObserveComments, GithubTyped
    <3> QED
      BY <1>3, <3>2, SeenTyped DEF ObserveComments, PrepassTyped
  <2>3. ControlTyped' /\ CountersTyped'
    BY <1>3, FaultsTyped
    DEF ObserveComments, Goto, End, ControlTyped, CountersTyped, Steps, Statuses, ghost
  <2> QED
    BY <2>1, <2>2, <2>3
<1>4. CASE ObserveExistingWork
  <2>1. GithubTyped' /\ CheckoutTyped'
    BY <1>4 DEF ObserveExistingWork, github, checkout, GithubTyped, CheckoutTyped
  <2>2. PrepassTyped'
    <3>1. seen' = seen \/ \E w \in Seq(ObservedWork) : seen' = [seen EXCEPT !.work = w]
      BY <1>4, WorkTyped DEF ObserveExistingWork
    <3> QED
      BY <1>4, <3>1, SeenTyped DEF ObserveExistingWork, PrepassTyped
  <2>3. ControlTyped' /\ CountersTyped'
    BY <1>4, FaultsTyped
    DEF ObserveExistingWork, Goto, End, ControlTyped, CountersTyped, Steps, Statuses, ghost
  <2> QED
    BY <2>1, <2>2, <2>3
<1>5. CASE Classify
  <2>1. GithubTyped' /\ CheckoutTyped'
    BY <1>5 DEF Classify, github, checkout, GithubTyped, CheckoutTyped
  <2>2. PrepassTyped'
    <3>1. ValidClosure(seen.head) \in BOOLEAN
      BY DEF ValidClosure
    <3>2. seen' = seen \/ \E v \in BOOLEAN : seen' = [seen EXCEPT !.closure = v]
      BY <1>5, <3>1 DEF Classify
    <3> QED
      BY <1>5, <3>2, SeenTyped DEF Classify, PrepassTyped
  <2>3. ControlTyped' /\ CountersTyped'
    BY <1>5, FaultsTyped
    DEF Classify, Goto, End, ControlTyped, CountersTyped, Steps, Statuses, ghost
  <2> QED
    BY <2>1, <2>2, <2>3
<1>6. CASE Decide
  <2>1. GithubTyped' /\ CheckoutTyped' /\ PrepassTyped' /\ CountersTyped'
    BY <1>6 DEF Decide, github, checkout, prepass, ghost, GithubTyped, CheckoutTyped, PrepassTyped,
                CountersTyped
  <2>2. ControlTyped'
    BY <1>6 DEF Decide, Goto, End, ControlTyped, Steps, Statuses
  <2> QED
    BY <2>1, <2>2
<1> QED
  BY <1>1, <1>2, <1>3, <1>4, <1>5, <1>6

\* so do its checks,
LEMMA CheckTyped ==
  ASSUME Typed,
         CleanCheckout \/ Preflight \/ PostWrite \/ ReadBack \/ PostStage \/ StagedBlob
         \/ CommitShape \/ CommitBlob \/ PrePush \/ PostVerify \/ Crash
  PROVE  Typed'
<1>1. UNCHANGED <<github, checkout, prepass, foreign, ghost>> /\ (Works \/ Fault)
  BY DEF CleanCheckout, Preflight, PostWrite, ReadBack, PostStage, StagedBlob, CommitShape,
         CommitBlob, PrePush, PostVerify, Crash, CheckHead, Check
<1>2. /\ pc' \in {"idle", "preflight", "write", "read_back", "stage", "staged_blob", "commit",
                  "commit_blob", "pre_push", "push"}
      /\ result' = result \/ result' \in Statuses \cup {"KILLED"}
  BY DEF CleanCheckout, Preflight, PostWrite, ReadBack, PostStage, StagedBlob, CommitShape,
         CommitBlob, PrePush, PostVerify, Crash, CheckHead, Check, Goto, End, Statuses
<1>3. GithubTyped' /\ CheckoutTyped' /\ PrepassTyped'
  BY <1>1 DEF Typed, GithubTyped, CheckoutTyped, PrepassTyped, github, checkout, prepass
<1>4. ControlTyped' /\ CountersTyped'
  BY <1>1, <1>2, FaultsTyped DEF Typed, ControlTyped, CountersTyped, ghost, Steps
<1> QED
  BY <1>3, <1>4 DEF Typed

\* its effects,
LEMMA ActingTyped ==
  ASSUME Typed, Write \/ Stage \/ GitCommit \/ PostCommit \/ Push \/ Merge
  PROVE  Typed'
<1> USE DEF Typed
<1>1. CASE Write
  <2>1. GithubTyped' /\ PrepassTyped'
    BY <1>1 DEF Write, GithubTyped, PrepassTyped, github, prepass
  <2>2. CheckoutTyped'
    BY <1>1, SourceTyped DEF Write, CheckoutTyped, GithubTyped
  <2>3. ControlTyped' /\ CountersTyped'
    BY <1>1, FaultsTyped DEF Write, Goto, End, ControlTyped, CountersTyped, Steps, Statuses
  <2> QED
    BY <2>1, <2>2, <2>3
<1>2. CASE Stage
  <2>1. GithubTyped' /\ PrepassTyped'
    BY <1>2 DEF Stage, GithubTyped, PrepassTyped, github, prepass
  <2>2. CheckoutTyped'
    BY <1>2 DEF Stage, CheckoutTyped
  <2>3. ControlTyped' /\ CountersTyped'
    BY <1>2, FaultsTyped DEF Stage, Goto, End, ControlTyped, CountersTyped, Steps, Statuses, ghost
  <2> QED
    BY <2>1, <2>2, <2>3
<1>3. CASE GitCommit
  <2>1. GithubTyped' /\ PrepassTyped'
    BY <1>3 DEF GitCommit, GithubTyped, PrepassTyped, github, prepass
  <2>2. CheckoutTyped' /\ effects' \subseteq {"write", "commit", "push", "merge"}
    <3>1. Tree(head).rest \in Parts /\ index \in Queues
      BY TreeTyped DEF GithubTyped, CheckoutTyped
    <3>2. \/ \E q \in Queues, r \in Parts : Committing(q, r)
          \/ UNCHANGED <<head, index, effects>>
      BY <1>3, <3>1 DEF GitCommit
    <3> QED
      BY <1>3, <3>2, AppendTyped DEF GitCommit, Committing, CheckoutTyped, CountersTyped
  <2>3. ControlTyped' /\ CountersTyped'
    BY <1>3, <2>2, FaultsTyped DEF GitCommit, Goto, End, ControlTyped, CountersTyped, Steps, Statuses
  <2> QED
    BY <2>1, <2>2, <2>3
<1>4. CASE PostCommit
  <2>1. GithubTyped' /\ CheckoutTyped' /\ PrepassTyped'
    BY <1>4 DEF PostCommit, GithubTyped, CheckoutTyped, PrepassTyped, github, checkout
  <2>2. ControlTyped' /\ CountersTyped'
    BY <1>4, FaultsTyped
    DEF PostCommit, Goto, End, ControlTyped, CountersTyped, Steps, Statuses, ghost
  <2> QED
    BY <2>1, <2>2
<1>5. CASE Push
  <2>1. CheckoutTyped' /\ PrepassTyped'
    BY <1>5 DEF Push, CheckoutTyped, PrepassTyped, checkout, prepass
  <2>2. /\ remote' = remote \/ remote' = head
        /\ effects' \subseteq effects \cup {"push"}
    BY <1>5 DEF Push, PushEffect
  <2>3. GithubTyped'
    BY <1>5, <2>2 DEF Push, GithubTyped, CheckoutTyped
  <2>4. ControlTyped' /\ CountersTyped'
    BY <1>5, <2>2, FaultsTyped DEF Push, Goto, End, ControlTyped, CountersTyped, Steps, Statuses
  <2> QED
    BY <2>1, <2>3, <2>4
<1>6. CASE Merge
  <2>1. CheckoutTyped' /\ PrepassTyped'
    BY <1>6 DEF Merge, CheckoutTyped, PrepassTyped, checkout, prepass
  <2>2. Contradicted(seen.comments) \in BOOLEAN
    BY DEF Contradicted
  <2>3. \A applied \in BOOLEAN : MergeEffect(applied) =>
          /\ pr' = pr \/ pr' = "merged"
          /\ merged' \in [head : Histories \cup {Absent}, approved : BOOLEAN,
                          contradicted : BOOLEAN, rewound : BOOLEAN]
          /\ effects' \subseteq effects \cup {"merge"}
    BY <2>2 DEF MergeEffect, GithubTyped, CountersTyped
  <2>4. /\ pr' = pr \/ pr' = "merged"
        /\ merged' \in [head : Histories \cup {Absent}, approved : BOOLEAN,
                        contradicted : BOOLEAN, rewound : BOOLEAN]
        /\ effects' \subseteq effects \cup {"merge"}
    BY <1>6, <2>3 DEF Merge
  <2>5. GithubTyped'
    BY <1>6, <2>4 DEF Merge, GithubTyped
  <2>6. ControlTyped' /\ CountersTyped'
    BY <1>6, <2>4, FaultsTyped DEF Merge, End, ControlTyped, CountersTyped, Steps, Statuses
  <2> QED
    BY <2>1, <2>5, <2>6
<1> QED
  BY <1>1, <1>2, <1>3, <1>4, <1>5, <1>6

\* and what others do.
LEMMA OthersTyped ==
  ASSUME Typed, Post \/ Foreign
  PROVE  Typed'
<1> USE DEF Typed
<1>1. CASE Post
  <2>1. comments' \in Seq(Comments) /\ Len(comments') <= MaxComments
    <3>1. /\ Len(comments) < MaxComments
          /\ \E c \in Comments : comments' = Append(comments, c)
      BY <1>1, PostTyped DEF Post
    <3>2. comments \in Seq(Comments) /\ MaxComments \in Nat
      BY FinalizerAssumption DEF GithubTyped
    <3> QED
      BY <3>1, <3>2, AppendProperties
  <2>2. GithubTyped' /\ CheckoutTyped' /\ PrepassTyped' /\ ControlTyped'
    BY <1>1, <2>1
    DEF Post, GithubTyped, CheckoutTyped, PrepassTyped, ControlTyped, checkout, prepass
  <2>3. approved' \in BOOLEAN
    BY <1>1 DEF Post, CountersTyped
  <2> QED
    BY <1>1, <2>2, <2>3 DEF Post, CountersTyped
<1>2. ASSUME Acts
      PROVE  /\ PrepassTyped' /\ ControlTyped' /\ foreign' \in 0..MaxForeign
             /\ UNCHANGED <<source, comments, merged, faults, effects, approved>>
  BY <1>2, FinalizerAssumption DEF Acts, PrepassTyped, ControlTyped, CountersTyped, prepass
<1>3. CASE MoveRemote
  <2>1. remote' \in Histories
    <3>1. Base \in Histories
      BY EmptySeq DEF Base, Histories
    <3>2. CASE remote' = Base
      BY <3>1, <3>2
    <3>3. CASE \E q \in Queues, r \in Parts :
                 remote' \in {Append(remote, Commit("other", q, r)), <<Commit("other", q, r)>>}
      <4>1. PICK q \in Queues, r \in Parts :
              remote' \in {Append(remote, Commit("other", q, r)), <<Commit("other", q, r)>>}
        BY <3>3
      <4>2. /\ Append(remote, Commit("other", q, r)) \in Histories
            /\ <<Commit("other", q, r)>> \in Histories
        BY AppendTyped DEF GithubTyped
      <4> QED
        BY <4>1, <4>2
    <3> QED
      BY <1>3, <3>2, <3>3 DEF MoveRemote
  <2> QED
    BY <1>2, <1>3, <2>1 DEF MoveRemote, GithubTyped, CheckoutTyped, CountersTyped, checkout
<1>4. CASE ChangePr
  BY <1>2, <1>4 DEF ChangePr, GithubTyped, CheckoutTyped, CountersTyped, checkout
<1>5. CASE EditCheckout
  <2>1. CheckoutTyped'
    BY <1>5 DEF EditCheckout, CheckoutTyped
  <2> QED
    BY <1>2, <1>5, <2>1 DEF EditCheckout, GithubTyped, CountersTyped
<1>6. CASE MoveHead
  <2>1. Append(head, Commit("other", index, Tree(head).rest)) \in Histories
    BY TreeTyped, AppendTyped DEF GithubTyped, CheckoutTyped
  <2>2. Base \in Histories /\ source \in Queues
    BY EmptySeq, SourceTyped DEF Base, Histories, GithubTyped
  <2>3. CheckoutTyped'
    BY <1>6, <2>1, <2>2 DEF MoveHead, CheckoutTyped
  <2>4. moved' \in BOOLEAN
    BY <1>6 DEF MoveHead, CountersTyped, Verifying
  <2> QED
    BY <1>2, <1>6, <2>3, <2>4 DEF MoveHead, GithubTyped, CountersTyped
<1> QED
  BY <1>1, <1>3, <1>4, <1>5, <1>6 DEF Foreign

\* The types are inductive.
LEMMA TypedStep ==
  ASSUME Typed, [Next]_vars
  PROVE  Typed'
<1>1. CASE UNCHANGED vars
  BY <1>1 DEF vars, github, checkout, prepass, ghost, Typed, GithubTyped, CheckoutTyped,
              PrepassTyped, ControlTyped, CountersTyped
<1> QED
  BY <1>1, ObservingTyped, CheckTyped, ActingTyped, OthersTyped DEF Next, Step, Publication

\* They hold at first.
LEMMA TypedInit ==
  ASSUME Init
  PROVE  Typed
<1>1. Base \in Histories /\ source \in Queues
  BY EmptySeq, SourceTyped DEF Init, Base, Histories
<1>2. GithubTyped
  BY <1>1, EmptySeq, FinalizerAssumption DEF Init, GithubTyped, NotMerged
<1>3. CheckoutTyped
  BY <1>1 DEF Init, CheckoutTyped
<1>4. PrepassTyped
  BY EmptySeq DEF Init, PrepassTyped, Unseen
<1>5. ControlTyped
  BY DEF Init, ControlTyped, Steps
<1>6. CountersTyped
  <2>1. 0 \in 0..MaxForeign /\ 0 \in 0..MaxFaults
    BY FinalizerAssumption
  <2>2. foreign = 0 /\ faults = 0 /\ effects = {}
    BY DEF Init
  <2>3. approved = FALSE /\ moved = FALSE /\ rewound = FALSE
    BY DEF Init
  <2> QED
    BY <2>1, <2>2, <2>3 DEF CountersTyped
<1> QED
  BY <1>2, <1>3, <1>4, <1>5, <1>6 DEF Typed

\* The finer types hold always.
THEOREM TypedCorrect == Spec => []Typed
  BY TypedInit, TypedStep, PTL DEF Spec

\* Pull request, checkout, observations and result are of their types; no
\* pre-pass ever reports a blocked checkpoint.
THEOREM TypeCorrect == Spec => []TypeOK
<1>1. Typed => TypeOK
  BY DEF Typed, GithubTyped, CheckoutTyped, PrepassTyped, ControlTyped, CountersTyped, Steps, TypeOK
<1> QED
  BY <1>1, TypedCorrect, PTL
-----------------------------------------------------------------------------
(* The inductive invariant behind the safety properties. *)

\* Steps before any effect; after the write; after the commit.
Untouched == {"pull_request", "comments", "existing_work", "classify", "decide",
              "clean", "preflight", "write", "merge"}
Written   == {"post_write", "read_back", "stage", "post_stage", "staged_blob", "commit"}
Committed == {"post_commit", "commit_shape", "commit_blob", "pre_push", "push"}

\* How far the effects of the pre-pass have come.
EffectsInv ==
  /\ pc # "idle" => result = "none"
  /\ pc \in Untouched => effects = {}
  /\ pc \in Written => effects \subseteq {"write"}
  /\ pc \in Committed => effects \subseteq {"write", "commit"}
  /\ result = "NO_FINALIZATION" => effects = {}
  /\ result = "RUNTIME_FAILURE" => effects \subseteq {"write", "commit"}

\* The closure is judged of the observed head; only the substantive head or
\* such a closure gets as far as the merge, with a closed row.
ReviewedInv ==
  /\ pc = "pull_request" => ~seen.closure
  /\ seen.closure => ValidClosure(seen.head)
  /\ pc = "merge" => ctx.state = "DONE" /\ (seen.head = Base \/ seen.closure)
  /\ MergedIsReviewed

\* A closed row was not read on an open substantive head.
ClosedInv ==
  /\ pc # "idle" /\ ctx.state = "DONE" /\ remote = Base /\ source.row = "review" => rewound
  /\ MergedCheckpointIsClosed

\* A closure of one commit.
Exact(h) == Len(h) = 1 /\ Tree(h).queue = Derived /\ Tree(h).rest = "same"

\* What the checks of HEAD say of local_head, unless HEAD has moved.
ExactInv ==
  /\ pc \in {"commit_shape", "commit_blob"} => moved \/ local = head
  /\ pc = "commit_blob" => moved \/ (Len(local) = 1 /\ Tree(local).rest = "same")
  /\ pc \in {"pre_push", "push", "post_verify"} \/ result = "CLOSURE_PUBLISHED" =>
       moved \/ Exact(local)

\* Comments are numbered as they are created, and their times do not go back.
Chronological(cs) ==
  /\ \A i \in DOMAIN cs : cs[i].id = i
  /\ \A i, j \in DOMAIN cs : i < j => cs[i].at <= cs[j].at

\* The decision on the substantive head is a single approval.
ApprovedIn(cs) == Discover(cs, Base).match = "UNIQUE" /\ Discover(cs, Base).kinds = {"APPROVED"}

\* An approval that the pre-pass has read was the last word during this wake.
ApprovalInv ==
  /\ Chronological(comments)
  /\ pc # "idle" /\ LastWord(comments) = "APPROVED" => approved
  /\ pc # "idle" /\ ApprovedIn(seen.comments) => approved
  /\ pc = "merge" => approved
  /\ MergeWasApproved

Inv == Typed /\ EffectsInv /\ ReviewedInv /\ ClosedInv /\ ExactInv /\ ApprovalInv

\* A read-only check of HEAD, of the checkout or of the remote leaves everything
\* but the next step alone.
LEMMA CheckKeeps ==
  ASSUME CleanCheckout \/ Preflight \/ PostWrite \/ ReadBack \/ PostStage \/ StagedBlob
         \/ CommitShape \/ CommitBlob \/ PrePush \/ PostVerify \/ Crash \/ Decide
  PROVE  UNCHANGED <<github, checkout, prepass, ghost>>
  BY DEF CleanCheckout, Preflight, PostWrite, ReadBack, PostStage, StagedBlob, CommitShape,
         CommitBlob, PrePush, PostVerify, Crash, CheckHead, Check, Decide

\* Somebody else's action leaves the pre-pass alone.
LEMMA ForeignKeeps ==
  ASSUME Foreign
  PROVE  UNCHANGED <<source, comments, merged, prepass, pc, result, effects, approved>>
  BY DEF Foreign, Acts, MoveRemote, ChangePr, EditCheckout, MoveHead

\* What the pre-pass has changed stays within what its next step and its result say.
LEMMA EffectsStep ==
  ASSUME EffectsInv, [Next]_vars
  PROVE  EffectsInv'
<1> USE DEF EffectsInv, Untouched, Written, Committed, Goto, End, ghost
<1>1. CASE Refresh
  BY <1>1 DEF Refresh
<1>2. CASE ObservePullRequest \/ ObserveComments \/ ObserveExistingWork \/ Classify
  BY <1>2 DEF ObservePullRequest, ObserveComments, ObserveExistingWork, Classify
<1>3. CASE Decide
  BY <1>3 DEF Decide
<1>4. CASE CleanCheckout \/ Preflight
  BY <1>4 DEF CleanCheckout, Preflight, Check
<1>5. CASE PostWrite \/ ReadBack \/ PostStage \/ StagedBlob
  BY <1>5 DEF PostWrite, ReadBack, PostStage, StagedBlob, Check
<1>6. CASE CommitShape \/ CommitBlob \/ PrePush \/ PostVerify
  BY <1>6 DEF CommitShape, CommitBlob, PrePush, PostVerify, CheckHead, Check
<1>7. CASE Write
  BY <1>7 DEF Write
<1>8. CASE Stage
  BY <1>8 DEF Stage
<1>9. CASE GitCommit
  <2>1. effects' = effects \/ effects' = effects \cup {"commit"}
    BY <1>9 DEF GitCommit, Committing
  <2>2. /\ pc = "commit" /\ pc' \in {"post_commit", "idle"}
        /\ result' = result \/ result' = "RUNTIME_FAILURE"
        /\ pc' # "idle" => result' = result
    BY <1>9 DEF GitCommit
  <2> QED
    BY <2>1, <2>2
<1>10. CASE PostCommit
  BY <1>10 DEF PostCommit
<1>11. CASE Push
  <2>1. effects' = effects \/ effects' = effects \cup {"push"}
    BY <1>11 DEF Push, PushEffect
  <2>2. /\ pc = "push"
        /\ \/ pc' = "post_verify" /\ result' = result
           \/ pc' = "idle" /\ result' = "INTERRUPTED"
    BY <1>11 DEF Push
  <2> QED
    BY <2>1, <2>2
<1>12. CASE Merge
  BY <1>12 DEF Merge, MergeEffect
<1>13. CASE Crash
  BY <1>13 DEF Crash
<1>14. CASE Post
  BY <1>14 DEF Post
<1>15. CASE Foreign
  BY <1>15, ForeignKeeps
<1>16. CASE UNCHANGED vars
  BY <1>16 DEF vars
<1> QED
  BY <1>1, <1>2, <1>3, <1>4, <1>5, <1>6, <1>7, <1>8, <1>9, <1>10, <1>11, <1>12, <1>13, <1>14,
     <1>15, <1>16 DEF Next, Step, Publication

\* What opens the path to the merge.
LEMMA MergePath ==
  ASSUME Path(Target, Eligibility) = "PROTECTED_MERGE"
  PROVE  /\ ctx.state = "DONE"
         /\ seen.head = Base \/ seen.closure
         /\ ApprovedIn(seen.comments)
<1> DEFINE o == Eligibility
<1>1. Violations(Target, o) = {} /\ o.state # "AI_REVIEW"
  BY DEF Path
<1>2. o.state \in {"AI_REVIEW", "DONE"}
  BY <1>1 DEF Violations
<1>3. ~o.changed
  BY <1>1 DEF Violations
<1>4. DecisionViolations(o) = {}
  BY <1>1 DEF Violations
<1>5. o.decisions.match \notin {"NONE", "AMBIGUOUS"} /\ o.decisions.kinds = {"APPROVED"}
  BY <1>4 DEF DecisionViolations
<1>6. /\ o.state = ctx.state /\ o.decisions = Discover(seen.comments, Base)
      /\ o.changed = (seen.head # Base /\ ~seen.closure)
  BY DEF Eligibility
<1>7. Discover(seen.comments, Base).match \in {"NONE", "UNIQUE", "AMBIGUOUS"}
  BY DEF Discover
<1> QED
  BY <1>1, <1>2, <1>3, <1>5, <1>6, <1>7 DEF ApprovedIn

\* The row of the substantive head never changes; only the merge records one.
LEMMA SourceKept ==
  ASSUME [Next]_vars
  PROVE  source' = source /\ (Merge \/ merged' = merged)
<1>1. CASE Refresh \/ ObservePullRequest \/ ObserveComments \/ ObserveExistingWork \/ Classify
  BY <1>1 DEF Refresh, ObservePullRequest, ObserveComments, ObserveExistingWork, Classify, github
<1>2. CASE Write \/ Stage \/ GitCommit \/ PostCommit \/ Push \/ Merge
  BY <1>2 DEF Write, Stage, GitCommit, PostCommit, Push, Merge, github
<1>3. CASE Post
  BY <1>3 DEF Post
<1>4. CASE Foreign
  BY <1>4, ForeignKeeps
<1>5. CASE UNCHANGED vars
  BY <1>5 DEF vars, github
<1> QED
  BY <1>1, <1>2, <1>3, <1>4, <1>5, CheckKeeps DEF Next, Step, Publication, github

\* So what a head's tree has, and whether it is a closure, never changes.
LEMMA TreesKept ==
  ASSUME source' = source, NEW h
  PROVE  Tree(h)' = Tree(h) /\ ValidClosure(h)' = ValidClosure(h)
  BY DEF Tree, ValidClosure, Derived, AsText

\* The text of a closure: derived from a source without carriage returns.
LEMMA ClosureText ==
  ASSUME source \in Sources, NEW h \in Histories, ValidClosure(h)
  PROVE  /\ Tree(h).queue.row = "done" /\ Tree(h).rest = "same"
         /\ source = [row |-> "review", ends |-> "lf"]
<1>1. Tree(h).queue \in Queues
  BY TreeTyped
<1>2. AsText(Tree(h).queue).row = Tree(h).queue.row /\ AsText(Tree(h).queue).ends = "lf"
  BY <1>1 DEF AsText, Queues
<1>3. Tree(h).queue.row = "done" /\ source.ends = "lf"
  BY <1>2 DEF ValidClosure, Derived
<1> QED
  BY <1>3, SourceTyped DEF ValidClosure

\* The steps that leave the observations alone: of the publication,
LEMMA PublicationKeeps ==
  ASSUME Publication \/ Crash
  PROVE  UNCHANGED <<ctx, seen, comments, approved>> /\ pc' \notin {"pull_request", "merge"}
<1>1. CASE CleanCheckout \/ Preflight \/ PostWrite \/ ReadBack \/ PostStage \/ StagedBlob
           \/ CommitShape \/ CommitBlob \/ PrePush \/ PostVerify \/ Crash
  BY <1>1, CheckKeeps
  DEF CleanCheckout, Preflight, PostWrite, ReadBack, PostStage, StagedBlob, CommitShape,
      CommitBlob, PrePush, PostVerify, Crash, CheckHead, Check, Goto, End, prepass, github, ghost
<1>2. CASE Write \/ Stage \/ GitCommit \/ PostCommit \/ Push
  BY <1>2 DEF Write, Stage, GitCommit, PostCommit, Push, Goto, End, prepass, github, ghost
<1> QED
  BY <1>1, <1>2 DEF Publication

\* What a pre-pass may merge was reviewed.
LEMMA ReviewedStep ==
  ASSUME Typed, ReviewedInv, [Next]_vars
  PROVE  ReviewedInv'
<1>1. source' = source /\ (Merge \/ merged' = merged)
  BY SourceKept
<1>2. /\ pc' = "pull_request" => ~seen'.closure
      /\ seen'.closure => ValidClosure(seen'.head)
      /\ pc' = "merge" => ctx'.state = "DONE" /\ (seen'.head = Base \/ seen'.closure)
  <2> USE DEF ReviewedInv, Goto, End
  <2> seen \in [head : Histories \cup {Absent}, mergeable : BOOLEAN, comments : Seq(Comments),
                work : Seq(ObservedWork), closure : BOOLEAN]
    BY DEF Typed, PrepassTyped
  <2>1. CASE Refresh
    BY <2>1 DEF Refresh, Unseen
  <2>2. CASE ObservePullRequest
    BY <2>2 DEF ObservePullRequest
  <2>3. CASE ObserveComments \/ ObserveExistingWork
    BY <2>3 DEF ObserveComments, ObserveExistingWork
  <2>4. CASE Classify
    BY <2>4 DEF Classify
  <2>5. CASE Decide
    BY <2>5, MergePath DEF Decide, prepass
  <2>6. CASE Publication \/ Crash
    BY <2>6, PublicationKeeps
  <2>7. CASE Merge \/ Post
    BY <2>7 DEF Merge, Post, prepass
  <2>8. CASE Foreign
    BY <2>8, ForeignKeeps DEF prepass
  <2>9. CASE UNCHANGED vars
    BY <2>9 DEF vars, prepass
  <2> QED
    BY <2>1, <2>2, <2>3, <2>4, <2>5, <2>6, <2>7, <2>8, <2>9 DEF Next, Step
<1>3. MergedIsReviewed'
  <2>1. CASE merged' = merged
    BY <1>1, <2>1, TreesKept DEF ReviewedInv, MergedIsReviewed
  <2>2. CASE Merge /\ merged' # merged
    <3>1. pc = "merge" /\ merged'.head = remote /\ remote = seen.head
      BY <2>2 DEF Merge, MergeEffect, Accepts
    <3>2. seen.head = Base \/ ValidClosure(seen.head)
      BY <3>1 DEF ReviewedInv
    <3>3. \A h : Tree(h)' = Tree(h)
      BY <1>1, TreesKept
    <3>4. remote \in Histories /\ source \in Sources
      BY DEF Typed, GithubTyped
    <3>5. remote = Base \/ /\ Tree(remote).queue.row = "done" /\ Tree(remote).rest = "same"
                           /\ source = [row |-> "review", ends |-> "lf"]
      <4>1. CASE remote = Base
        BY <4>1
      <4>2. CASE ValidClosure(remote)
        BY <3>4, <4>2, ClosureText
      <4> QED
        BY <3>1, <3>2, <4>1, <4>2
    <3> QED
      BY <1>1, <3>1, <3>3, <3>5 DEF MergedIsReviewed, Base
  <2> QED
    BY <1>1, <2>1, <2>2
<1>4. \A h : ValidClosure(h)' = ValidClosure(h)
  BY <1>1, TreesKept
<1> QED
  BY <1>2, <1>3, <1>4 DEF ReviewedInv

\* A row that was read as closed on an open substantive head means that the
\* pull request was taken back.
LEMMA ClosedStep ==
  ASSUME Typed, ReviewedInv, ClosedInv, [Next]_vars
  PROVE  ClosedInv'
<1>1. source' = source /\ (Merge \/ merged' = merged)
  BY SourceKept
<1>2. pc' # "idle" /\ ctx'.state = "DONE" /\ remote' = Base /\ source'.row = "review" => rewound'
  <2> USE DEF ClosedInv
  <2>1. CASE Refresh
    <3>1. PICK s \in ReadRow(Tree(remote).queue) : ctx'.state = s
      BY <2>1 DEF Refresh
    <3>2. remote = Base /\ source.row = "review" => s = "AI_REVIEW"
      BY <3>1 DEF Tree, ReadRow
    <3> QED
      BY <2>1, <3>1, <3>2 DEF Refresh, github
  <2>2. CASE ObservePullRequest \/ ObserveComments \/ ObserveExistingWork \/ Classify
    BY <2>2 DEF ObservePullRequest, ObserveComments, ObserveExistingWork, Classify, github, ghost
  <2>3. CASE Decide \/ Merge
    BY <2>3 DEF Decide, Merge, prepass, github, ghost
  <2>4. CASE Publication \/ Crash
    <3>1. pc # "idle" /\ ctx' = ctx /\ rewound' = rewound
      <4>1. CASE Write \/ Stage \/ GitCommit \/ PostCommit \/ Push
        BY <4>1, PublicationKeeps DEF Write, Stage, GitCommit, PostCommit, Push, prepass, ghost
      <4> QED
        BY <2>4, <4>1, CheckKeeps, PublicationKeeps
        DEF Publication, CleanCheckout, Preflight, PostWrite, ReadBack, PostStage, StagedBlob,
            CommitShape, CommitBlob, PrePush, PostVerify, Crash, CheckHead, Check, ghost
    <3>2. remote' = remote \/ (IsPrefix(remote, head) /\ remote' = head)
      <4>1. CASE Write \/ Stage \/ GitCommit \/ PostCommit \/ Push
        BY <4>1 DEF Write, Stage, GitCommit, PostCommit, Push, PushEffect, github
      <4> QED
        BY <2>4, <4>1, CheckKeeps DEF Publication, github
    <3>3. remote' = Base => remote = Base
      <4>1. remote \in Histories
        BY DEF Typed, GithubTyped
      <4>2. IsPrefix(remote, Base) => remote = Base
        BY <4>1, EmptySeq DEF IsPrefix, Base, Histories
      <4> QED
        BY <3>2, <4>2
    <3> QED
      BY <1>1, <3>1, <3>3
  <2>5. CASE Post
    BY <2>5 DEF Post, prepass
  <2>6. CASE Foreign
    <3>1. rewound \in BOOLEAN
      BY DEF Typed, CountersTyped
    <3>2. (remote' = remote /\ rewound' = rewound) \/ rewound' = (rewound \/ remote' = Base)
      BY <2>6 DEF Foreign, MoveRemote, ChangePr, EditCheckout, MoveHead
    <3> QED
      BY <2>6, <3>1, <3>2, ForeignKeeps DEF prepass
  <2>7. CASE UNCHANGED vars
    BY <2>7 DEF vars, prepass, github, ghost
  <2> QED
    BY <2>1, <2>2, <2>3, <2>4, <2>5, <2>6, <2>7 DEF Next, Step
<1>3. MergedCheckpointIsClosed'
  <2>1. CASE merged' = merged
    BY <1>1, <2>1, TreesKept DEF ClosedInv, MergedCheckpointIsClosed
  <2>2. CASE Merge /\ merged' # merged
    <3>1. /\ pc = "merge" /\ merged'.head = remote /\ remote = seen.head
          /\ merged'.rewound = rewound
      BY <2>2 DEF Merge, MergeEffect, Accepts
    <3>2. ctx.state = "DONE" /\ (seen.head = Base \/ ValidClosure(seen.head))
      BY <3>1 DEF ReviewedInv
    <3>3. remote = Base => Tree(remote).queue.row = "done" \/ rewound
      <4>1. source.row \in {"review", "done"}
        BY SourceTyped DEF Typed, GithubTyped
      <4> QED
        BY <3>1, <3>2, <4>1 DEF ClosedInv, Tree
    <3>4. \A h : Tree(h)' = Tree(h)
      BY <1>1, TreesKept
    <3>5. ValidClosure(remote) => Tree(remote).queue.row = "done"
      BY ClosureText DEF Typed, GithubTyped
    <3> QED
      BY <3>1, <3>2, <3>3, <3>4, <3>5 DEF MergedCheckpointIsClosed
  <2> QED
    BY <1>1, <2>1, <2>2
<1> QED
  BY <1>2, <1>3 DEF ClosedInv

\* HEAD is local_head while it is checked, unless somebody moves it; afterwards
\* local_head stands for itself.
LEMMA ExactStep ==
  ASSUME Typed, EffectsInv, ExactInv, [Next]_vars
  PROVE  ExactInv'
<1> USE DEF ExactInv
<1>1. \A h : Tree(h)' = Tree(h) /\ Exact(h)' = Exact(h)
  BY SourceKept, TreesKept DEF Exact, Derived
<1>2. CASE Refresh
  BY <1>2 DEF Refresh
<1>3. CASE ObservePullRequest \/ ObserveComments \/ ObserveExistingWork \/ Classify \/ Decide
  BY <1>3 DEF ObservePullRequest, ObserveComments, ObserveExistingWork, Classify, Decide, Goto, End,
              EffectsInv
<1>4. CASE CleanCheckout \/ Preflight \/ PostWrite \/ ReadBack \/ PostStage \/ StagedBlob
  BY <1>4 DEF CleanCheckout, Preflight, PostWrite, ReadBack, PostStage, StagedBlob, Check, Goto, End,
              EffectsInv
<1>5. CASE Write \/ Stage \/ GitCommit
  BY <1>5 DEF Write, Stage, GitCommit, Goto, End, EffectsInv
<1>6. CASE PostCommit
  BY <1>6 DEF PostCommit, Goto, End, EffectsInv, checkout
<1>7. CASE CommitShape
  <2>1. /\ pc = "commit_shape" /\ UNCHANGED <<head, local, moved>>
        /\ \/ pc' = "idle" /\ result' # "CLOSURE_PUBLISHED"
           \/ pc' = "commit_blob" /\ result' = result
              /\ Len(head) = 1 /\ Tree(head).rest = "same"
    BY <1>7 DEF CommitShape, CheckHead, Check, Goto, End, checkout, prepass, ghost
  <2>2. result' # "CLOSURE_PUBLISHED"
    BY <2>1 DEF EffectsInv
  <2> QED
    BY <1>1, <2>1, <2>2
<1>8. CASE CommitBlob
  <2>1. /\ pc = "commit_blob" /\ UNCHANGED <<head, local, moved>>
        /\ \/ pc' = "idle" /\ result' # "CLOSURE_PUBLISHED"
           \/ pc' = "pre_push" /\ result' = result /\ Tree(head).queue = Derived
    BY <1>8 DEF CommitBlob, CheckHead, Check, Goto, End, checkout, prepass, ghost
  <2>2. result' # "CLOSURE_PUBLISHED"
    BY <2>1 DEF EffectsInv
  <2> QED
    BY <1>1, <2>1, <2>2 DEF Exact
<1>9. CASE PrePush \/ Push \/ PostVerify
  <2>1. UNCHANGED <<local, moved>>
    BY <1>9 DEF PrePush, Push, PostVerify, Check, prepass, ghost
  <2>2. /\ pc \in {"pre_push", "push", "post_verify"}
        /\ pc' \in {"push", "post_verify", "idle"}
    BY <1>9 DEF PrePush, Push, PostVerify, Check, Goto, End
  <2> QED
    BY <1>1, <2>1, <2>2
<1>10. CASE Merge \/ Crash
  BY <1>10 DEF Merge, Crash, End
<1>11. CASE Post
  BY <1>1, <1>11 DEF Post, checkout, prepass
<1>12. CASE Foreign
  <2>1. \/ head' = head /\ moved' = moved
        \/ moved' = (moved \/ Verifying)
    BY <1>12 DEF Foreign, MoveRemote, ChangePr, EditCheckout, MoveHead, checkout
  <2>2. UNCHANGED <<local, pc, result>> /\ moved \in BOOLEAN
    BY <1>12, ForeignKeeps DEF prepass, Typed, CountersTyped
  <2> QED
    BY <1>1, <2>1, <2>2 DEF Verifying
<1>13. CASE UNCHANGED vars
  BY <1>1, <1>13 DEF vars, checkout, prepass, ghost
<1> QED
  BY <1>2, <1>3, <1>4, <1>5, <1>6, <1>7, <1>8, <1>9, <1>10, <1>11, <1>12, <1>13
  DEF Next, Step, Publication

\* A unique decision is the current one.
LEMMA UniqueIsCurrent ==
  ASSUME NEW cs, ApprovedIn(cs)
  PROVE  \E i \in Current(cs, Base) : Current(cs, Base) = {i} /\ cs[i].body.marker = "APPROVED"
<1>1. PICK i \in Current(cs, Base) : Current(cs, Base) = {i}
  BY DEF ApprovedIn, Discover
<1>2. {cs[j].body.marker : j \in Current(cs, Base)} = {"APPROVED"}
  BY DEF ApprovedIn, Discover
<1> QED
  BY <1>1, <1>2

\* Of comments in their order, it is the last word.
LEMMA CurrentIsLastWord ==
  ASSUME NEW cs \in Seq(Comments), Chronological(cs), ApprovedIn(cs)
  PROVE  LastWord(cs) = "APPROVED"
<1> DEFINE said == Applicable(cs, Base)
<1>1. PICK i \in Current(cs, Base) : cs[i].body.marker = "APPROVED"
  BY UniqueIsCurrent
<1>2. DOMAIN cs \subseteq Nat /\ said \subseteq DOMAIN cs /\ i \in said
  BY DEF Applicable, Current
<1>3. \A j \in DOMAIN cs : cs[j].id = j /\ cs[j].at \in Nat
  <2>1. \A j \in DOMAIN cs : cs[j] \in Comments
    BY ElementOfSeq, LenProperties
  <2> QED
    BY <2>1 DEF Chronological, Comments
<1>4. ~Ambiguous(cs, Base)
  BY <1>2, <1>3 DEF Ambiguous
<1>5. \A j \in said : ~Earlier(cs[i], cs[j])
  BY <1>4 DEF Current
<1>6. \A j \in said : j <= i
  <2> SUFFICES ASSUME NEW j \in said, i < j
               PROVE  FALSE
    BY <1>2
  <2>1. cs[i].at <= cs[j].at
    BY <1>2 DEF Chronological
  <2>2. cs[i].id < cs[j].id
    BY <1>2, <1>3
  <2> QED
    BY <1>2, <1>3, <1>5, <2>1, <2>2 DEF Earlier
<1>7. (CHOOSE l \in said : \A j \in said : j <= l) = i
  <2> DEFINE l == CHOOSE l \in said : \A j \in said : j <= l
  <2>1. l \in said /\ \A j \in said : j <= l
    BY <1>2, <1>6
  <2> QED
    BY <1>2, <1>6, <2>1
<1> QED
  BY <1>1, <1>2, <1>7 DEF LastWord

\* A comment that was read twice makes a decision ambiguous, never unique.
LEMMA RereadIsNoApproval ==
  ASSUME NEW cs \in Seq(Comments), NEW k \in DOMAIN cs, ApprovedIn(Append(cs, cs[k]))
  PROVE  ApprovedIn(cs)
<1> DEFINE ds == Append(cs, cs[k])
           n == Len(cs)
<1>1. /\ n \in Nat /\ DOMAIN cs = 1..n /\ DOMAIN ds = 1..(n + 1)
      /\ \A i \in 1..n : ds[i] = cs[i]
      /\ ds[n + 1] = cs[k]
  BY AppendProperties, LenProperties, ElementOfSeq
<1> HIDE DEF ds, n
<1>2. Applicable(cs, Base) = Applicable(ds, Base) \ {n + 1}
  BY <1>1 DEF Applicable
<1>3. k \notin Applicable(cs, Base)
  <2> SUFFICES ASSUME k \in Applicable(cs, Base)
               PROVE  FALSE
    OBVIOUS
  <2>1. k # n + 1 /\ k \in Applicable(ds, Base) /\ n + 1 \in Applicable(ds, Base)
    BY <1>1 DEF Applicable
  <2>2. Ambiguous(ds, Base)
    BY <1>1, <2>1 DEF Ambiguous
  <2>3. k \in Current(ds, Base) /\ n + 1 \in Current(ds, Base)
    BY <2>1, <2>2 DEF Current
  <2> QED
    BY <2>1, <2>3, UniqueIsCurrent DEF ds
<1>4. Applicable(ds, Base) = Applicable(cs, Base)
  BY <1>1, <1>2, <1>3 DEF Applicable
<1>5. \A i \in Applicable(cs, Base) : ds[i] = cs[i]
  BY <1>1 DEF Applicable
<1>6. Ambiguous(ds, Base) = Ambiguous(cs, Base)
  BY <1>4, <1>5 DEF Ambiguous
<1>7. Current(ds, Base) = Current(cs, Base)
  BY <1>4, <1>5, <1>6 DEF Current
<1>8. {ds[i].body.marker : i \in Current(ds, Base)} = {cs[i].body.marker : i \in Current(cs, Base)}
  BY <1>5, <1>7 DEF Current
<1>9. Discover(ds, Base) = Discover(cs, Base)
  BY <1>7, <1>8 DEF Discover
<1> QED
  BY <1>9 DEF ApprovedIn, ds

\* Comments keep their order when one is added.
LEMMA ChronologicalStep ==
  ASSUME Typed, Chronological(comments), Post
  PROVE  Chronological(comments')
<1> DEFINE n == Len(comments)
<1>0. PICK t \in Now :
        \E b : comments' = Append(comments, [id |-> n + 1, at |-> t, body |-> b])
  BY DEF Post
<1>1. PICK b : comments' = Append(comments, [id |-> n + 1, at |-> t, body |-> b])
  BY <1>0
<1>2. n \in Nat /\ DOMAIN comments = 1..n /\ \A i \in 1..n : comments[i] \in Comments
  BY LenProperties, ElementOfSeq DEF Typed, GithubTyped
<1>3. /\ DOMAIN comments' = 1..(n + 1)
      /\ \A i \in 1..n : comments'[i] = comments[i]
      /\ comments'[n + 1] = [id |-> n + 1, at |-> t, body |-> b]
  BY <1>1, <1>2 DEF Typed, GithubTyped
<1>4. \A i \in 1..n : comments[i].at <= t
  <2> SUFFICES ASSUME NEW i \in 1..n
               PROVE  comments[i].at <= t
    OBVIOUS
  <2>1. comments # <<>> /\ Last(comments) = comments[n] /\ n \in 1..n
    BY <1>2 DEF Last
  <2>2. comments[i].at \in Nat /\ comments[n].at \in Nat
    BY <1>2, <2>1 DEF Comments
  <2>3. comments[i].at <= comments[n].at
    BY <1>2, <2>1, <2>2 DEF Chronological
  <2> QED
    BY <2>1, <2>2, <2>3 DEF Now
<1> HIDE DEF n
<1>5. \A i \in 1..(n + 1) : comments'[i].id = i
  BY <1>2, <1>3 DEF Chronological
<1>6. \A i, j \in 1..(n + 1) : i < j => comments'[i].at <= comments'[j].at
  BY <1>2, <1>3, <1>4 DEF Chronological
<1> QED
  BY <1>3, <1>5, <1>6 DEF Chronological

\* Only a new wake and the supervisor touch the record of the approval.
LEMMA ApprovedKept ==
  ASSUME [Next]_vars
  PROVE  \/ Refresh \/ Post
         \/ UNCHANGED <<approved, comments>> /\ (pc' # "idle" => pc # "idle")
<1>1. CASE ObservePullRequest \/ ObserveComments \/ ObserveExistingWork \/ Classify \/ Decide \/ Merge
  BY <1>1 DEF ObservePullRequest, ObserveComments, ObserveExistingWork, Classify, Decide, Merge,
              github, ghost
<1>2. CASE Publication \/ Crash
  BY <1>2, PublicationKeeps
  DEF Publication, CleanCheckout, Preflight, Write, PostWrite, ReadBack, Stage, PostStage,
      StagedBlob, GitCommit, PostCommit, CommitShape, CommitBlob, PrePush, Push, PostVerify,
      CheckHead, Check, Crash
<1>3. CASE Foreign
  BY <1>3, ForeignKeeps
<1>4. CASE UNCHANGED vars
  BY <1>4 DEF vars, github, ghost
<1> QED
  BY <1>1, <1>2, <1>3, <1>4 DEF Next, Step

\* What a pre-pass reads as an approval was the supervisor's last word during
\* its wake.
LEMMA ApprovalStep ==
  ASSUME Typed, ApprovalInv, [Next]_vars
  PROVE  ApprovalInv'
<1> USE DEF ApprovalInv
<1>1. approved \in BOOLEAN /\ comments \in Seq(Comments)
  BY DEF Typed, GithubTyped, CountersTyped
<1>2. Chronological(comments')
  BY ApprovedKept, ChronologicalStep DEF Refresh, github
<1>3. pc' # "idle" /\ LastWord(comments') = "APPROVED" => approved'
  <2>1. CASE Refresh
    BY <2>1 DEF Refresh, github
  <2>2. CASE Post
    BY <2>2 DEF Post
  <2> QED
    BY <2>1, <2>2, ApprovedKept
<1>4. pc' # "idle" /\ ApprovedIn(seen'.comments) => approved'
  <2>1. CASE Refresh
    <3>1. Current(<<>>, Base) = {}
      BY DEF Current, Applicable
    <3>2. ~ApprovedIn(<<>>)
      BY <3>1, UniqueIsCurrent
    <3> QED
      BY <2>1, <3>2 DEF Refresh, Unseen
  <2>2. CASE Post
    BY <1>1, <2>2 DEF Post, prepass
  <2>3. CASE ObserveComments
    <3>1. pc = "comments" /\ approved' = approved
      BY <2>3 DEF ObserveComments, ghost
    <3>2. \/ pc' = "idle"
          \/ seen' = [seen EXCEPT !.comments = comments]
          \/ \E i \in DOMAIN comments : seen' = [seen EXCEPT !.comments = Append(comments, comments[i])]
      BY <2>3 DEF ObserveComments, End
    <3>3. \/ pc' = "idle"
          \/ seen'.comments = comments
          \/ \E i \in DOMAIN comments : seen'.comments = Append(comments, comments[i])
      BY <3>2 DEF Typed, PrepassTyped
    <3>4. pc' # "idle" /\ ApprovedIn(seen'.comments) => ApprovedIn(comments)
      BY <1>1, <3>3, RereadIsNoApproval
    <3> QED
      BY <1>1, <3>1, <3>4, CurrentIsLastWord
  <2>4. CASE ObservePullRequest \/ ObserveExistingWork \/ Classify
    <3>1. seen'.comments = seen.comments
      BY <2>4 DEF ObservePullRequest, ObserveExistingWork, Classify, Typed, PrepassTyped
    <3>2. pc # "idle" /\ approved' = approved
      BY <2>4 DEF ObservePullRequest, ObserveExistingWork, Classify, ghost
    <3> QED
      BY <3>1, <3>2
  <2>5. CASE Decide \/ Merge \/ Publication \/ Crash \/ Foreign \/ UNCHANGED vars
    <3>1. seen' = seen
      BY <2>5, CheckKeeps, PublicationKeeps, ForeignKeeps DEF Merge, prepass, vars
    <3>2. approved' = approved /\ (pc' # "idle" => pc # "idle")
      BY <2>5, ApprovedKept, PublicationKeeps, ForeignKeeps
      DEF Decide, Merge, End, Publication, ghost, vars,
          CleanCheckout, Preflight, Write, PostWrite, ReadBack, Stage, PostStage,
          StagedBlob, GitCommit, PostCommit, CommitShape, CommitBlob, PrePush, Push, PostVerify,
          CheckHead, Check, Crash
    <3> QED
      BY <3>1, <3>2
  <2> QED
    BY <2>1, <2>2, <2>3, <2>4, <2>5 DEF Next, Step
<1>5. pc' = "merge" => approved'
  <2>1. CASE Decide
    <3>1. pc' = "merge" => ApprovedIn(seen.comments)
      BY <2>1, MergePath DEF Decide, Goto, End
    <3> QED
      BY <2>1, <3>1 DEF Decide, ghost
  <2>2. CASE Post
    BY <1>1, <2>2 DEF Post
  <2>3. CASE Foreign \/ UNCHANGED vars
    BY <2>3, ForeignKeeps DEF vars, ghost
  <2>4. CASE Publication \/ Crash
    BY <2>4, PublicationKeeps
  <2>5. CASE Refresh \/ ObservePullRequest \/ ObserveComments \/ ObserveExistingWork \/ Classify \/ Merge
    BY <2>5 DEF Refresh, ObservePullRequest, ObserveComments, ObserveExistingWork, Classify, Merge,
                Goto, End
  <2> QED
    BY <2>1, <2>2, <2>3, <2>4, <2>5 DEF Next, Step
<1>6. MergeWasApproved'
  <2>1. merged' = merged \/ (pc = "merge" /\ merged'.approved = approved)
    BY SourceKept DEF Merge, MergeEffect
  <2> QED
    BY <2>1 DEF MergeWasApproved
<1> QED
  BY <1>2, <1>3, <1>4, <1>5, <1>6

\* The invariant is inductive,
LEMMA InvStep ==
  ASSUME Inv, [Next]_vars
  PROVE  Inv'
  BY TypedStep, EffectsStep, ReviewedStep, ClosedStep, ExactStep, ApprovalStep DEF Inv

\* and holds at first.
LEMMA InvInit ==
  ASSUME Init
  PROVE  Inv
<1>1. Typed
  BY TypedInit
<1>2. EffectsInv
  BY DEF Init, EffectsInv, Untouched, Written, Committed
<1>3. ReviewedInv /\ ClosedInv
  BY DEF Init, ReviewedInv, ClosedInv, Unseen, NotMerged, MergedIsReviewed, MergedCheckpointIsClosed
<1>4. ExactInv
  BY DEF Init, ExactInv
<1>5. ApprovalInv
  BY DEF Init, ApprovalInv, Chronological, NotMerged, MergeWasApproved
<1> QED
  BY <1>1, <1>2, <1>3, <1>4, <1>5 DEF Inv
-----------------------------------------------------------------------------
(* The theorems. *)

\* Effects, observations, HEAD and approval stay related as the invariant says.
THEOREM InvCorrect == Spec => []Inv
  BY InvInit, InvStep, PTL DEF Spec

\* Whoever pushes at whatever moment, what is merged is the reviewed head or,
\* line endings apart, the derived closure of it, of a text without carriage
\* returns.
THEOREM MergedWorkIsReviewed == Spec => []MergedIsReviewed
<1>1. Inv => MergedIsReviewed
  BY DEF Inv, ReviewedInv
<1> QED
  BY <1>1, InvCorrect, PTL

\* The supervisor's last word was an approval at some moment of the wake that
\* merged, in spite of comments that are read twice or change meanwhile.
THEOREM MergesAreApproved == Spec => []MergeWasApproved
<1>1. Inv => MergeWasApproved
  BY DEF Inv, ApprovalInv
<1> QED
  BY <1>1, InvCorrect, PTL

\* No checkpoint with an open row is merged, unless the pull request was taken
\* back meanwhile.
THEOREM MergedCheckpointsAreClosed == Spec => []MergedCheckpointIsClosed
<1>1. Inv => MergedCheckpointIsClosed
  BY DEF Inv, ClosedInv
<1> QED
  BY <1>1, InvCorrect, PTL

\* A wake that goes on to a worker has changed nothing in its pre-pass.
THEOREM NoFinalizationChangesNothing == Spec => []NoFinalizationIsHarmless
<1>1. Inv => NoFinalizationIsHarmless
  BY DEF Inv, EffectsInv, NoFinalizationIsHarmless
<1> QED
  BY <1>1, InvCorrect, PTL

\* An ordinary failure has changed neither the pull request nor its branch.
THEOREM FailuresAreLocal == Spec => []FailureIsLocal
<1>1. Inv => FailureIsLocal
  BY DEF Inv, EffectsInv, FailureIsLocal
<1> QED
  BY <1>1, InvCorrect, PTL

\* A closure reported as published is exactly the derived one, unless HEAD moved
\* between the inspection that names it and the checks of HEAD.
THEOREM PublishedClosuresAreExact == Spec => []PublishedIsExact
<1>1. Inv => PublishedIsExact
  BY DEF Inv, ExactInv, Exact, PublishedIsExact
<1> QED
  BY <1>1, InvCorrect, PTL
=============================================================================
