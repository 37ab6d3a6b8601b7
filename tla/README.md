# codex-autonomy-runner in TLA+

Specifications of the runner's core: what one *wake* of the repository-local
runtime does to the lock, the checkout, the remote branch and the pull request,
and what it may claim afterwards. The modules are model-checked with TLC on
small instances; the safety properties of every modelled component also have
proofs for every instance, checked with TLAPS.

## 1. The system

One call of `run_repository_wake` is one wake:

    lock -> refresh -> FINALIZER pre-pass -> (refresh) -> coordinator
         -> worker -> checks -> publication -> unlock

HOST (the runner) is the only actor with Git and GitHub authority. The worker
and the checks run in the repository under a containment that the runner does
not provide itself. An AI supervisor posts decisions as comments; an operator
reconciles what a dead wake left behind; other people may use the same
checkout, branch and pull request at any time. There is no retry inside a wake
and no daemon: the next wake starts from durable state. Every component returns
a result whose outcome is COMPLETED, NO_OP, BLOCKED, RUNTIME_FAILURE or
INTERRUPTED (`invocation_contract.py`), and most of what can go wrong is that
such a result says something that is not so.

Sources are under `src/codex_autonomy_runner/`.

| Component | State | Operations | Interacts with | What makes it correct |
|---|---|---|---|---|
| `runtime_invocation.py` (RUNTIME-01) | a lock directory in Git's common directory; `acquired`, `released`, `identity`; the evidence of the invocation | mkdir, lstat, preflight, call of the action, except clauses, release | other invocations (file system), the action (callback), the operator | one action at a time; an entry is never stolen; evidence never claims more than is known |
| `runtime_durable_state.py` (RUNTIME-02) | one pre-pass's observations | observe pull request, comments and work; reconcile decisions; decide; merge | GitHub, `finalizer_*`, the wake's refresher | only approved, reviewed and closed work is merged; an unknown completion is never NO_OP |
| `supervisor_decisions.py`, `existing_work.py`, `finalizer_eligibility.py` | none | pure classification | called by RUNTIME-02 | the current decision is the last durable one; exactly one path is open |
| `finalizer_closure.py`, `finalizer_publication.py` | checkout (file, index, HEAD), remote branch | derive, write, stage, commit, push, verify | Git, hooks, other users | the published closure is the derived row on the reviewed head and nothing else |
| `finalizer_merge.py` | none | merge with expected head | GitHub | the head that was judged is the head that is merged |
| `runtime_worker.py` (RUNTIME-03), with the pure validations of baseline, preparation, boundary and paths, and `repository_inspection.py` | branch, HEAD, index, worktree; the result under construction | prepare the branch, execute the worker, inspect, fingerprint, execute checks | executors (callbacks), Git, other users | existing branches are not moved; validated evidence describes the repository as it is and as it was tested |
| `runtime_publication.py` (RUNTIME-04) | index, local branch, remote branch, pull request | fingerprint, stage, commit, verify, push, create and verify the pull request | Git, hooks, GitHub, other users | verified work is exactly the validated content; a result never hides an effect |
| `runtime_wake.py` (RUNTIME-05) | stages and counters of one wake | composition of all of the above | refresher, coordinator | at most one worker; none after uncertain recovery; nothing published that was not validated |
| `codex_worker_executor.py`, `codex_worker_transport.py` | one child process | preflight, launch, wait with timeout, clean up the tree | the worker executor seam | a completion is reliable only if nothing runs any more |
| `codex_check_executor.py` | one contained child process | preflight, launch, one-line protocol | the check executor seam | the same, and a result only from the check itself |
| `native_process.py` | none | `subprocess.run` | everything that calls Git or gh | - |

What is hard here, and hardly reached by the unit tests, which replace one
command at a time: effects whose completion is lost (push, merge, pull-request
creation, commit); values read once and used after other commands have run
(HEAD, comments, fingerprints, the lock's identity); exceptions and
`KeyboardInterrupt` between two statements; process death with children left
behind; several wakes in one repository; and failures that leave the checkout
in a state that the next wake refuses. `PROJECT.json` lists these hazards at
their lines with the properties that watch them.

## 2. Modules

| Module | Models |
|---|---|
| `RepositoryMutex` | abstract specification of what RUNTIME-01 promises |
| `RepositoryInvocation` | RUNTIME-01, any number of concurrent invocations |
| `RepositoryInvocationProofs` | theorems about it |
| `RuntimePublication` | RUNTIME-04, one publication beside other users |
| `RuntimePublicationProofs` | theorems about it |
| `PublicationInWake` | the publication as an implementation of the wake's `Publish` |
| `PublicationInWakeProofs` | the proof of it |
| `SupervisorDecisions`, `FinalizerEligibility` | the pure classifications |
| `Finalizer` | RUNTIME-02 with FINALIZER-02 to -04, repeated pre-passes |
| `FinalizerProofs` | theorems about it |
| `RuntimeWorker` | RUNTIME-03, one run beside other users |
| `RuntimeWorkerProofs` | theorems about it |
| `WorkerInWake` | the worker run as an implementation of the wake's `Work` |
| `WorkerInWakeProofs` | the proof of it |
| `CheckpointLife` | abstract specification of what all wakes of a repository promise together |
| `RuntimeWake` | RUNTIME-05, many wakes of several callers, composed of the abstract promises of the parts above |
| `RuntimeWakeProofs` | theorems about it |
| `CodexExecutors` | the worker and check executors with their transports and process trees |
| `CodexExecutorsProofs` | theorems about it |
| `MC...` | instances of these for TLC |

`map` in `PROJECT.json` gives the lines of every definition. Definitions
commented as "Mutation" are plausible mistakes in this code: each property is
known to be violated when the definition after them is replaced by one.

### RepositoryInvocation

One process per call of `run_repository_invocation`. `pc` is the statement that
is next; `mkdir`, the assignment of `acquired`, the `lstat`, the two steps of
`release()` and the assignment of `released` are separate, because an exception
can arrive between any two. `entry` is the directory with its creator and its
inode, `ev` the evidence under construction, `activity` the set of invocations
whose action may still have something running. `Raise` is the handler of
ordinary exceptions, `Interrupt` that of `KeyboardInterrupt` and `SystemExit`,
`InterruptAgain` an interrupt inside a handler, `ReleaseFails` and
`InterruptRelease` the handler in the `finally` clause. `Crash` is a process
death, `Quiesce` the end of leftover activity, `Reconcile` the operator.

Two constants say what the environment does. `Careful`: the operator removes
only entries of invocations that are over and have nothing running; the module
docstring asks this of "external reconciliation". `FreshInodes`: the file
system does not reuse an identity that an invocation still remembers.

### RuntimePublication

`publish_validated_worker_work`, a step per Git or GitHub command. A history is
a sequence of commits on the baseline, each with its author and its tree; the
tree, the index and the worktree are the contents of the expected paths, and
`stray` stands for anything else that is changed. `GitCommit` may commit other
content than was staged (a hook), fail with or without a commit, or be
interrupted. `Push` and `CreatePr` may take effect without a reliable
completion. `Foreign` actions edit, stage, commit, undo, push, delete or rewind
and change the pull request between any two steps. A `KeyboardInterrupt`
between two `try` blocks leaves the function with an exception and is the
envelope's `Interrupt`; one inside a command is that command's uncertain
completion.

### SupervisorDecisions, FinalizerEligibility, Finalizer

The pre-pass is repeated over wakes: `Refresh` gives it a new context, read at
that moment and otherwise chosen by the caller. Comments are a sequence with
ids and creation times in seconds, so that two may carry the same time and one
may be read twice. A commit on the branch has the text of the work queue and the
rest of the tree (unchanged or not). Of the text two things are kept: the row
(`review`, exactly the derived `done`, or `other`) and the line endings (`lf`
without carriage returns, `crlf` with them), since they are read in two ways.
`finalizer_publication.py:122-135`, `162-166` compares bytes; `_valid_closure` reads
the candidate through `run_native_process`, in text mode, so that its endings are
translated (`AsText`), and compares it with a text whose endings are those of the
source (`Derived`).
Every command of `publish_allowlisted_closure` is a step, from the clean
checkout to the verification of the remote, and leaves behind what it leaves
behind when it fails. `Merge` models GitHub's own condition (open, at the
expected head) and the loss of its answer.

### RuntimeWorker

`inspect_repository` is four steps (head, branch, staged, other changes), so that
a snapshot may mix moments; `_prepare` compares and then switches or creates in
separate steps; `fingerprint_worktree` reads a path per step. A worker or a
check leaves any worktree, index and HEAD (`Touched`), unless the check executor
denies writes (a request's adapter is `contained`, not `open`); it may also fail to attest that it has ended,
and then counts as `residue`. `Interfere` is anybody else.

### RuntimeWake, CheckpointLife

`run_repository_wake`, called again and again by every member of `Wakes`. `pc` is
the stage: idle, the stages of `WakeStage` (preparation and worker apart, and
the publication split where it commits, pushes and opens the pull request),
release and report. The parts are replaced by a few abstract steps each:

| In `RuntimeWake` | stands for | justified by |
|---|---|---|
| `PreparationFails`, `StartWorker`, `WorkerValidated`, `NotValidated` | the worker run | the refinement `ImplementsWork`, checked and proved |
| `NotCommitted`, `Commit`, `NotPushed`, `Push`, `PushUncertain`, `Open`, `Verify`, `VerifyUncertain` | the publication | the refinement `ImplementsPublish`, checked and proved |
| `Acquire`, `Contended`, `Release`, `ReleaseFails`, `Interrupt`, `Crash` | the envelope | `ImplementsMutex`, `CleanReportLeavesNoEntry`, `ReliableMeansQuiet` |
| `NoFinalization`, `FinalizerCompletes`, `FinalizerFails`, `FinalizerUncertain` | the pre-pass | `NoFinalizationIsHarmless`, `PublishedIsExact`, `FailureIsLocal`, `MergedCheckpointIsClosed` |

The last two rows are argued from properties of the parts; they are not a
refinement that TLC or TLAPS checks. The wake knows of nobody else who changes a
repository while it is locked, so the two refinements are of runs and
publications beside which nobody acts (`foreign' = 0`). What is data in the parts is here
the *owner* of uncommitted changes (`tree`), of local commits (`ahead`) and of a
validated fingerprint (`print`): a wake, or `Left` for what wakes that are over,
hooks and aborted closures have left behind. `branch` is the one branch that is
checked out. A closure is published only from the pull request's own branch
(`CleanAt`), and nothing in a wake but the preparation of a worker switches
(`SwitchBranch`), after it has compared everything it compares. What an action
has chosen and validated is forgotten when it is left (`Forgets`), as the
variables of a function are. `Unlock`, `Restore` and `CheckOut` are the operator, `Approve` and `Object` the supervisor, `ResidueWrites` and
`ResidueEnds` a worker that a dead or failed wake left running. The refresher and
the coordinator are protocols without an implementation in this repository:
`Refresh` gives what is durable at that moment, and `RecoveryUncertain` is obliged
only where a worker may still run (`RecoveryEvidence`); the coordinator chooses
any checkpoint that it was shown as ready or, for a rework, as published or
approved. That it chooses none that it was shown as closed or merged is assumed.

### PublicationInWake, WorkerInWake

Both say which state of `RuntimeWake`, with one caller and one checkpoint, every
state of a part stands for. A publication is at `publish` until HEAD has moved, at
`push` until the remote has, then at `verify`, whatever git's exit status said; a
worker run is at `prepare` until a worker is started, and at `working` until it has
a status. The evidence is the result's status and outcome as
`run_repository_wake` copies them. A changed worktree, and a commit that is only
local, are the wake's own if their content is the validated one, somebody else's
otherwise (a hook's, say). `faults` is where the wake is charged: for a failure
that the state of the repository did not call for. When the part ends the action, what the
wake forgets is mapped to what it is after that.

Stating this found four places where the abstract wake was too strong: a hook may
change what is committed, and the checkout with it; a worker may commit,
against its instructions, on any branch, and even a validated one on a branch
other than its own; a preparation may end as uncertain or for want of a check
executor; and an opened pull request is a step of its own, after which the
verification may still fail. `RuntimeWake` now has all of them, and its
properties hold with them.

`CheckpointLife` has three variables: the stage of each checkpoint, the number of
running workers, and `directed`, the checkpoint that was chosen to be worked on.
`ImplementsLife` maps `workers` to the wakes in their worker stage and the one that
may have been left behind, and `directed` to the units of all wakes. Choosing
(`Direct`) asks for the durable stage at that moment, whatever the wake has read of
it before.

### CodexExecutors

One call of either executor (`kind`). `pc` follows `execute`: preflight, launch,
the assignment of `process`, `communicate`, and the three steps of `cleanup_tree`
(list the tree, terminate it, wait). `handle` is `process is not None`. Beside it
the processes start and end as they like; `above` remembers who started whom, so
that `taskkill /T` sees exactly what running processes connect to codex. `record`
is codex's standard output: the scrubber writes one record, and codex may write
noise. `transport` is the `CodexProcessCompletion`, `answer` the
`WorkerCompletion` or `CheckCompletion`.

The two executors differ where the code does: a worker's clean-up decides on its
completion, a check's is done and ignored; an exception in a worker's call
becomes an unreliable completion, in a check's it leaves the call. `Lost` names
what no executor can see: a process one of whose ancestors has ended by itself, or
that was started after `taskkill` had made its list.

## 3. Runs

All numbers are of distinct states. The bounds are constants of the cfg files.

| Run | Question | Bounds, and why they are enough | States |
|---|---|---|---|
| `invocation_safety` | exclusion and honest evidence under every failure | 3 invocations: one that holds, one that contends, one that comes after both; one inode, which is always reused, the worst case; symmetric | 695 k |
| `invocation_refinement` | implementation of `RepositoryMutex`; every invocation ends; the repository is freed again | 2 invocations, 1 inode, all faults | 99 k |
| `invocation_careless` | what the identity check is worth | 2 invocations, 3 inodes, none reused while remembered, operator who removes live entries | 1.6 M |
| `publication` | honest results, exact commits; ends; what the wake takes it for | 4 foreign acts: a violation takes at most two (a change and its undoing) on each of checkout and remote | 115 k |
| `publication_moved_head` | exactness without exception | violated, see below | - |
| `finalizer_safety` | approved, reviewed, closed, harmless, local, exact | 2 comments (an approval and what revokes it, in both orders, at one time or two), 1 foreign act, 1 failure, an open row with and without carriage returns and a closed one; a caller whose facts are fine, one with a human-reserved condition, one who knows a second candidate | 4.0 M |
| `finalizer_liveness` | approved work is merged | 2 comments, the same three work queues, nothing else | 5.6 k |
| `finalizer_late_objection`, `finalizer_convergence` | what the documents say | violated | - |
| `worker` | exact and tested evidence; branches kept; ends; what the wake takes it for | 2 branches, 2 commits, 2 paths (one permitted), no check, one open check or two contained ones, 1 foreign act, every initial repository | 1.0 M |
| `executors` | only what is over is attested; results are the check's own; calls end | both executors, codex, scrubber, check and 2 helpers: one that is seen beside one that is lost, or a chain of two | 87 k |
| `wake` | a checkpoint's life; own work only; honest reports; everything is merged | 2 callers, one that holds the repository and one that comes meanwhile; 2 checkpoints, one left half-done while the other is worked on; 3 faults (failures, interrupts, deaths, reworks, objections, and what coordinator or pre-pass put off): one that leaves something behind, one while that is cleared up, and one more | 376 k |

`wake` has an action constraint, `ReportsFirst`: when a wake is over, or was refused
the lock, its report is the next step. A report reads and changes what belongs to its own wake alone
(`pc`, evidence, effects), no other action reads these of somebody else in that
state, and every property speaks of the state before it or of nothing it changes;
so each behaviour has one in which the report comes first and that satisfies the
same properties. The proofs do not use the constraint.

Two runs have a view, under which TLC takes states for one that differ only in what
no later step and no property of the run reads. `Told` (`finalizer_safety`): between two
pre-passes, what the last one was given and has seen, which `Refresh` overwrites.
`Remembered` (`invocation_safety`): all but the place of an invocation that has raised
or died, the identity of one that has reported (read again only under `FreshInodes`,
which is `FALSE` here), and the history `swapped`, which only `RemovesOwnEntry` of
`invocation_careless` reads.

What they show, property by property, is stated above each definition in the
modules. The ones worth arguing about:

* `MutualExclusion`, `NeverStolen`: hold for any mixture of contention,
  interrupts and crashes if the operator is careful. `RemovesOwnEntry` shows what
  is left if not: the identity check covers everything except the two windows
  in which an invocation has not yet looked, or no longer looks.
* `ReliableMeansQuiet`: activity that outlives a report is always announced by it.
* `ResultIsHonest`: a refusal has touched nothing, and no lost completion of commit,
  push or creation is reported as a plain failure that hides it.
* `ImplementsWork`, `ImplementsPublish`: what `RuntimeWake` assumes of its two largest
  parts is what they do, step by step: a worker is started at most once and only in a clean
  worktree on a branch that is in place; what is committed, pushed and opened, and what
  is left in checkout and branch by a failure anywhere in between, is what the wake
  accounts for, under the same status and outcome.
* `VerifiedIsExact`, `PublishedIsExact`: exactness despite hooks and foreign
  edits, up to one window: HEAD moving between the command that names the commit
  and the later commands that look at HEAD.
* `MergedIsReviewed`, `MergeWasApproved`, `MergedCheckpointIsClosed`: what is
  merged was reviewed, approved at some moment of the wake, and closed. Reviewed
  does not say byte for byte, see the limits below.
* `ValidatedIsExact`: one inspection without interference at the end makes up for
  every race before it, the preparation's included.
* `ImplementsMutex`: every behaviour of the envelope is one of the abstract mutex.
* `AttestedIsOver`, `ResultIsTheChecks`: the executors' side of the seam that
  `RuntimeWorker` assumes, except for `Lost` processes, see section 6.
* `ImplementsLife`: at most one worker among all callers, nothing durable beside
  it, nothing chosen that is closed. It rests on the second refresh after a
  pre-pass: the first one has recorded what the same wake then closes as
  approved, which the coordinator may direct a rework to (the property's mutant
  skips that refresh). And it rests on the refresher's `possible_prior_worker`; the
  lock alone is not enough, since a dead wake's worker may outlive it.
* `PublishesOwnWork`: whatever a failed worker, publication or closure left in the
  checkout, the clean-worktree and branch checks of the preparation keep it out of
  every later publication.
* `CheckpointsAreMerged`: with finitely many faults, no wake leaves lock, checkout
  or branch in a state that later wakes and the operator do not get out of. The
  operator is needed even without any fault: see the limits below.

Deadlock is checked except where the modelled calls simply end: the invocations
of `RepositoryInvocation` are over, a publication or an executor has returned.

### Disagreements between the documents and the code

Each is a run that TLC must find violated; `findings` in `PROJECT.json` quotes
the line.

1. `VerifiedIsAlwaysExact`: the window named above, for publications.
2. `LaterDecisionInvalidates`: an objection that names the closure head does not
   invalidate the approval of the substantive head.
3. `RepeatAttemptsConverge`: a failure after the work queue was written stops
   every later attempt, since nothing cleans the checkout.

Four limits that the properties state around rather than against.

*Line endings.* A work queue with carriage returns is closed as it should be, byte
for byte (`finalizer_publication.py:122-135`; `tests/test_finalizer_publication.py:297`
wants it so), but the next wake reads that closure without its carriage returns
(`runtime_durable_state.py:261`, `native_process.py:51-61`), compares it with a
derived text that has them, and takes it for a later substantive change: the
approved work is never merged, and no wake reports a failure. This is the second
conjunct of `ApprovedWorkIsMerged`. The other way round, a closure of a work queue
without carriage returns whose line endings somebody has rewritten is recognised
and merged; `MergedIsReviewed` says so.

*The checked-out branch.* A closure is refused unless the pull request's branch is
checked out (`finalizer_publication.py:219`, `330`), and only the preparation of a
worker switches branches. After work on a second checkpoint, an approved first one
is therefore refused, as RUNTIME_FAILURE, by every wake whose context names it,
without anything having failed; and since such a wake returns before its
coordinator (`runtime_wake.py:249-250`), it does nothing else either. The models
show that checking out the branch is enough (`CheckOut`), and that without somebody
who does it `CheckpointsAreMerged` fails with `MaxFaults = 0`.

*Interrupts around `mkdir`.* An interrupt
between `mkdir` and `acquired = True` (`runtime_invocation.py:86-87`) leaves the
entry behind although the call returns a report; the report is INTERRUPTED, and
`CleanReportLeavesNoEntry` speaks of the others.

*Closure commits.* A closure commit that took effect although git failed (`finalizer_publication.py:267`) is an ordinary
runtime failure of the pre-pass; `FailureIsLocal` says that it was not pushed,
and `PublishesOwnWork` that no later wake pushes it with its own work.

## 4. Fairness

* `RepositoryInvocation`: weak fairness of each invocation's own steps (the
  interpreter goes on, commands return) and of `Quiesce` (a child process left
  behind ends). `EveryInvocationEnds` needs no more: the lock does not block.
  `RepositoryFreedAgain` also assumes weak fairness of the operator, whom the
  documents name as the one who reconciles.
* `RuntimePublication`, `Finalizer`: weak fairness of the runner's steps. In
  `Finalizer` this includes `Refresh`, that is, another wake comes; the
  scheduler is outside the code. `ApprovedWorkIsMerged` is stated for behaviours
  without failures and interference, and `finalizer_convergence` shows that it
  cannot be stated for more.
* `RuntimeWorker`: weak fairness of the runner's steps, among them the return of
  a call to an executor: the protocols require that executors bound and join
  what they start.

* `RuntimeWake`: weak fairness of each caller's `Step`, what an undisturbed wake
  does next, the start of another wake among it; of `ResidueEnds`, `Approve` and
  `Unlock`; and strong fairness of `Restore`, of `CheckOut` and, for each checkpoint,
  of `FinalizerCompletes`. `Approve` is a supervisor who approves what stays under
  review. `Unlock`, `Restore` and `CheckOut` are an operator who removes the entry of
  a dead wake and who, since the repository is free only between two wakes, uses
  some of infinitely many such moments. Unlocking and restoring is what the
  documents ask of "external reconciliation"; without it the code does not get
  out of a changed checkout (`finalizer_convergence`). No document asks anybody to
  check out the branch of approved work: that is an assumption of this project, and
  without it the property does not hold. `FinalizerCompletes` is an assumption on
  the refresher, outside the code: a wake's context names one checkpoint, and the
  refresher must not for ever name one that is refused while another could be
  finalized. Each fault costs one of `MaxFaults`, so that there are finitely many; a
  refusal for a changed checkout or another branch costs nothing.
* `CodexExecutors`: weak fairness of HOST, with the timeouts of `communicate`, of
  `taskkill` and of the last `wait` that the code sets; none of the processes.

Nothing is assumed of interrupts, crashes, the supervisor or other users.

## 5. Proofs

For every value of the constants, from the named assumptions only:

* `RepositoryInvocationProofs`, from `InvocationAssumption`. `TypeCorrect` comes
  first. `LocalInv` relates the evidence, the history of the action's result and
  the activity of one invocation to its `pc`; from it follow `ReliableReports` and
  `ResultsAreSupplied`, without any assumption on the operator. `EntryInv` says that
  an invocation from `mark` to `rmdir` is the creator of the entry, and that one
  with a trustworthy result is not. It is inductive only for a careful operator,
  so `Exclusion`, `CleanReports`, `EntriesNeverStolen` and `Implementation` have
  the hypothesis `Careful`. `OnlyOwnEntryRemoved`, what the identity check is worth
  without it, has the hypothesis `FreshInodes` and an invariant of its own,
  `IdentityInv`: who lost its entry in no blind window recognises no other.
  `Implementation` maps each action to a step of the mutex or a stutter.
* `RuntimePublicationProofs`, from the module's assumption. `PublicationInv` says
  what each step of the publication already knows of histories, effects and the
  result; `moved` is the disjunct that excuses a checked HEAD that is not the
  commit which was named. `OutcomesAreHonest`, `EvidenceIsTrue` and `ExactPublication`
  follow from it.
* `RuntimeWorkerProofs`, from `RuntimeWorkerAssumption`. `ControlInv` says which
  snapshots have been accepted at each phase, `InspectionInv` that what an
  inspection has read is still so unless somebody else has acted since it
  began (`quiet`), `EvidenceInv` that contained checks all saw one worktree,
  `ResidueInv` where a process may still be running. `OnlyJudged` shows that a run
  becomes validated by the judgement alone; there the three invariants give
  `ValidatedExactly` and `ValidatedAsTested`. None of this needs a bound on the
  number of checks, paths or foreign changes. `PreparationSafe` is an action
  property and follows from the types.

* `FinalizerProofs`, from `FinalizerAssumption`. `Typed` is a conjunction by groups of variables, with `TypeOK` as a
  consequence. `EffectsInv` bounds what each step may follow upon
  (`NoFinalizationChangesNothing`, `FailuresAreLocal`); `ReviewedInv` says that a
  closure was judged of the observed head, and that only the substantive head or
  such a closure gets as far as the merge; `ClosedInv` that a closed row was not
  read on an open substantive head, unless the pull request was taken back since
  (`rewound`); `ApprovalInv` that an approval found in the comments that were read
  was the last word at some moment of this pre-pass, which needs that comments
  are numbered as they are created and that their times do not go back;
  `ExactInv` what the checks of HEAD have shown of `local`, up to `moved`.
* `RuntimeWakeProofs`, from `RuntimeWakeAssumption`, for any number of callers,
  checkpoints and faults. `WakeInv` speaks of one wake: `Alone` (a wake that acts
  holds the repository, and after its refresh nothing that was left behind runs),
  `Seen` (durable stages are where the refresh saw them or later, and what is
  worked on is not closed), `OwnWork` (from the worker to the push the marks in
  checkout, fingerprint and branch are its own) and `Recorded` (effects against
  evidence, by stage). `LifeIsImplemented` takes the actions one by one. Since only
  the holder of the lock acts, `directed` is what that wake has chosen, or empty
  (`DirectedOf`); an action that ends it is the abstract `End`, whether it leaves a
  worker behind or not.
* `CodexExecutorsProofs`, from `ExecutorAssumption`. `TreeInv` says in which order the
  tree comes to be and what a record implies of scrubber and check, `PhaseInv`
  what HOST has achieved before each step; `ReliableInv` and `ConfirmedInv` say
  what stays true after the call, while what is left of the tree goes on.

* `PublicationInWakeProofs`. `Undisturbed` (`AloneCorrect`) says what a publication
  beside which nobody acts knows at each step of worktree, index, branch, remote and
  pull request: the worktree is that which was fingerprinted, the branch is at the
  baseline or at the one commit that git made, the remote is at the baseline or at the
  frozen commit. It is the part of the state that the observations compare,
  so that every failing observation has a cause that the wake is charged for.
  `PublicationImplementsPublish` then takes the steps one by one; the ones that only
  observe are stutters, the others one of the wake's `Publish`.
* `WorkerInWakeProofs`. `StartInv` (`StartedInPlace`) says that nothing runs before the
  worker is started, and that it is started in a clean worktree with the
  branch in place and checked out. A step of the run is of one of five kinds: it
  goes on (a stutter), switches the branch, starts the worker, or ends the run
  before or after that. That a run which
  ends well left the branch where it was and is fingerprinted as it is comes from
  `ValidatedIsExact`, that nothing runs after one that ends plainly from `ResidueInv`.
  `WorkerImplementsWork` needs no bound on checks, paths or what a worker does to them.

Every invariant, action property and refinement that a passing run checks is
proved. The liveness properties are only model-checked (TLAPS does not prove
liveness under fairness or `ENABLED` here). What a recursive
definition computes for every input is out of reach of the installed provers as
well; the modules avoid recursion.

## 6. Not modelled, and why

* `native_process.py` but for its text mode: one library call without state; a
  command that cannot be started is a failing step of the modules that use it.
* git's own conversion of line endings (`core.autocrlf`): what is written to the work
  queue is what git commits.
* The launch plans of both executors (`build_codex_launch_plan`,
  `_filesystem_profile`, `build_worker_environment`) and the scrubber's arguments:
  validation and construction of data, which succeeds or does not. Whether codex
  enforces the containment that they ask for is outside the repository.
* Processes that outlive a codex which ended by itself. The transport reports
  reliable termination when codex has ended (`codex_worker_transport.py:176-182`),
  which is what the seam asks (`runtime_worker.py:206-211`, `256`); a background
  process that it left is `Lost`, and no component looks for it. The models of
  worker and wake take a reliable completion at its word.
* The refresher and the coordinator: protocols without an implementation here.
* The parsing of the work queue's Markdown table and of comment bodies, the
  formats of names and of GitHub's answers, paths that escape the repository:
  a valid or an invalid value stands for each. Object names of 64 digits
  (`runtime_publication.py:433`) are therefore not told apart from others.
* Fingerprints are the contents themselves; collisions of digests are excluded.

## 7. Plan

Done: the lock (1), the publication (2), the finalizer (3), the worker (4), the
wake (5), the executors (6), and the proofs of all of them (7).

8. Refinements in place of the table of `RuntimeWake` in section 2. Done:
   `RuntimePublication` and `RuntimeWorker`. Left: `Finalizer`, a pre-pass without
   other users, as an implementation of the wake's `Prepass`, and the executors as
   one of the worker's `WorkerCompletes` and `WorkerUncertain`.
9. The queue table: derivation of the closure as an operator over rows, checked
   against its reference definition.
