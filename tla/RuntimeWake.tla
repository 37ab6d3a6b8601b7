----------------------------- MODULE RuntimeWake -----------------------------
(***************************************************************************)
(* run_repository_wake of runtime_wake.py, called again and again and by   *)
(* several callers at once.  The parts of a wake are what the modules of   *)
(* their own show of them: the envelope is a lock that is given up or left *)
(* behind; the pre-pass closes or merges, or fails without a remote effect *)
(* or untrustworthily; a worker is validated or leaves changes, perhaps    *)
(* itself, behind; the publication commits, pushes and opens the pull      *)
(* request, and may stop anywhere.  Between the wakes, an operator restores *)
(* the checkout, removes what a dead wake left, and checks out the branch  *)
(* of what is to be closed: a wake switches branches for a worker only.    *)
(*                                                                         *)
(* Whatever goes wrong or is put off costs one of MaxFaults.               *)
(***************************************************************************)
EXTENDS Naturals, FiniteSets

CONSTANTS
  Wakes,        \* callers of run_repository_wake
  Checkpoints,
  Nobody,       \* nobody holds the lock; no checkpoint is worked on
  Left,         \* what an earlier wake, a hook or a closure attempt has left behind
  MaxFaults

ASSUME RuntimeWakeAssumption ==
  /\ Wakes \cap {Nobody, Left} = {} /\ Left # Nobody
  /\ Nobody \notin Checkpoints
  /\ IsFiniteSet(Wakes)
  /\ MaxFaults \in Nat

VARIABLES
  pc,       \* the stage of each wake
  ev,       \* its WakeEvidence
  state,    \* state: what its last refresh has found
  unit,     \* transition: the checkpoint it works on
  print,    \* worker.worktree_fingerprint: whose changes were validated
  effects,  \* history: what it has durably done, and whether it ran a worker
  holder,   \* who holds the repository
  tree,     \* whose uncommitted changes are in the checkout
  branch,   \* whose branch is checked out; Nobody's if it is no checkpoint's
  ahead,    \* whose commits are on the local branch of a checkpoint only
  stage,    \* durable stage of each checkpoint
  residue,  \* a worker that an earlier wake started still runs
  faults

local    == <<state, unit, print>>
wakes    == <<pc, ev, local, effects, holder>>
checkout == <<tree, ahead, branch>>
vars     == <<wakes, checkout, stage, residue, faults>>

Stages == {"ready", "pushed", "published", "approved", "closed", "merged"}

NoEvidence == [outcome |-> "none", worker_attempts |-> 0, finalizer_status |-> "none",
               worker_status |-> "none", publication_status |-> "none"]

\* The refresher knows work by its pull request.
Discovered == [c \in Checkpoints |-> IF stage[c] = "pushed" THEN "ready" ELSE stage[c]]

Unknown == [c \in Checkpoints |-> "merged"]

Init ==
  /\ pc = [w \in Wakes |-> "idle"]
  /\ ev = [w \in Wakes |-> NoEvidence]
  /\ state = [w \in Wakes |-> Unknown]
  /\ unit = [w \in Wakes |-> Nobody]
  /\ print = [w \in Wakes |-> {}]
  /\ effects = [w \in Wakes |-> {}]
  /\ holder = Nobody
  /\ tree = {} /\ ahead = [c \in Checkpoints |-> {}] /\ branch = Nobody
  /\ stage = [c \in Checkpoints |-> "ready"]
  /\ residue = FALSE
  /\ faults = 0

Acting == {"refresh", "prepass", "refresh_again", "coordinate", "prepare", "working",
           "publish", "push", "verify"}

\* A step that is a fault if it need not have been taken.
Costs(adverse) ==
  IF adverse THEN faults < MaxFaults /\ faults' = faults + 1 ELSE UNCHANGED faults

Goto(w, p) == pc' = [pc EXCEPT ![w] = p]

Record(w, field, value) == ev' = [ev EXCEPT ![w][field] = value]

Ended(evidence, outcome, field, status) ==
  [[evidence EXCEPT ![field] = status] EXCEPT !.outcome = outcome]

\* The action's own variables are gone when it is left.
Forgets(w) ==
  /\ state' = [state EXCEPT ![w] = Unknown]
  /\ unit' = [unit EXCEPT ![w] = Nobody]
  /\ print' = [print EXCEPT ![w] = {}]

\* The action returns, or raises, with an outcome,
Returns(w, outcome) ==
  /\ ev' = [ev EXCEPT ![w].outcome = outcome]
  /\ Forgets(w)
  /\ Goto(w, "release")

\* and the evidence field of the part that decided it is known.
End(w, outcome, field, status) ==
  /\ ev' = [ev EXCEPT ![w] = Ended(@, outcome, field, status)]
  /\ Forgets(w)
  /\ Goto(w, "release")

Effect(w, e) == effects' = [effects EXCEPT ![w] = @ \cup {e}]

-----------------------------------------------------------------------------
(* The envelope around the action. *)

\* The action begins when the lock is there.
Acquire(w) ==
  /\ pc[w] = "idle" /\ holder = Nobody
  /\ holder' = w
  /\ Goto(w, "refresh")
  /\ UNCHANGED <<ev, local, effects, checkout, stage, residue, faults>>

Contended(w) ==
  /\ pc[w] = "idle" /\ holder # Nobody
  /\ ev' = [ev EXCEPT ![w].outcome = "RUNTIME_FAILURE"]
  /\ Goto(w, "report")
  /\ UNCHANGED <<local, effects, holder, checkout, stage, residue, faults>>

Aged(marks, w) == IF w \in marks THEN (marks \ {w}) \cup {Left} ELSE marks

\* A wake is over, except for its report: its marks become an earlier wake's.
Over(w, branches) ==
  /\ tree' = Aged(tree, w)
  /\ ahead' = [c \in Checkpoints |-> Aged(branches[c], w)]

\* Mutation: after an interruption the lock is kept.
ReleaseUnlessInterrupted(w) ==
  /\ pc[w] = "release"
  /\ holder' = IF ev[w].outcome = "INTERRUPTED" THEN holder ELSE Nobody
  /\ Goto(w, "report")
  /\ Over(w, ahead)
  /\ UNCHANGED <<ev, local, effects, branch, stage, residue, faults>>

Release(w) ==
  /\ pc[w] = "release"
  /\ holder' = Nobody
  /\ Goto(w, "report")
  /\ Over(w, ahead)
  /\ UNCHANGED <<ev, local, effects, branch, stage, residue, faults>>

\* The lock may be gone although its removal failed.
ReleaseFails(w) ==
  /\ pc[w] = "release"
  /\ Costs(TRUE)
  /\ holder' \in {Nobody, Left}
  /\ ev' = [ev EXCEPT ![w].outcome = "INTERRUPTED"]
  /\ Goto(w, "report")
  /\ Over(w, ahead)
  /\ UNCHANGED <<local, effects, branch, stage, residue>>

\* The report is given to the caller.
Report(w) ==
  /\ pc[w] = "report"
  /\ Goto(w, "idle")
  /\ ev' = [ev EXCEPT ![w] = NoEvidence]
  /\ effects' = [effects EXCEPT ![w] = {}]
  /\ UNCHANGED <<local, holder, checkout, stage, residue, faults>>

-----------------------------------------------------------------------------
(* Refresh, pre-pass and coordinator. *)

\* possible_prior_worker: the refresher must say so if a worker still runs.
PossiblePriorWorker == residue

Refresh(w) ==
  /\ pc[w] \in {"refresh", "refresh_again"}
  /\ ~PossiblePriorWorker
  /\ state' = [state EXCEPT ![w] = Discovered]
  /\ Goto(w, IF pc[w] = "refresh" THEN "prepass" ELSE "coordinate")
  /\ UNCHANGED <<ev, unit, print, effects, holder, checkout, stage, residue, faults>>

\* It may say so in any case.
RecoveryUncertain(w) ==
  /\ pc[w] \in {"refresh", "refresh_again"}
  /\ Costs(~PossiblePriorWorker)
  /\ Returns(w, "INTERRUPTED")
  /\ UNCHANGED <<effects, holder, checkout, stage, residue>>

\* The checkpoints for which a pre-pass has something to do.
Finalizable(w) == {c \in Checkpoints : state[w][c] \in {"approved", "closed"}}

\* There is no context, or eligibility opens no path.
NoFinalization(w) ==
  /\ pc[w] = "prepass"
  /\ Costs(Finalizable(w) # {})
  /\ Record(w, "finalizer_status", "NO_FINALIZATION")
  /\ Goto(w, "coordinate")
  /\ UNCHANGED <<local, effects, holder, checkout, stage, residue>>

\* A context without a transport.
NoTransport(w) ==
  /\ pc[w] = "prepass"
  /\ Costs(TRUE)
  /\ End(w, "RUNTIME_FAILURE", "finalizer_status", "none")
  /\ UNCHANGED <<effects, holder, checkout, stage, residue>>

\* _clean_expected_branch: the pull request's own branch is checked out, where
\* the remote one is, and nothing is changed.
CleanAt(c) == branch = c /\ tree = {} /\ ahead[c] = {}

Finalizes(w, c, from, to) ==
  /\ pc[w] = "prepass" /\ c \in Finalizable(w)
  /\ stage[c] = from
  /\ stage' = [stage EXCEPT ![c] = to]
  /\ Effect(w, to)

\* Mutation: the coordinator is told what the first refresh has found.
CoordinatedAtOnce == "coordinate"

\* refresh_required
AfterFinalization == "refresh_again"

FinalizerCompletes(w, c) ==
  /\ \/ /\ Finalizes(w, c, "approved", "closed") /\ CleanAt(c)
        /\ Record(w, "finalizer_status", "CLOSURE_PUBLISHED")
     \/ /\ Finalizes(w, c, "closed", "merged")
        /\ Record(w, "finalizer_status", "MERGED")
  /\ Goto(w, AfterFinalization)
  /\ UNCHANGED <<local, holder, checkout, residue, faults>>

\* A closure attempt is refused, on every wake if another branch is checked out,
\* or fails before its push: file, index or a commit stay.
FinalizerFails(w, c) ==
  /\ pc[w] = "prepass" /\ c \in Finalizable(w)
  /\ Costs(stage[c] = "closed" \/ CleanAt(c))
  /\ tree' \in IF CleanAt(c) THEN {tree, tree \cup {Left}} ELSE {tree}
  /\ ahead' \in {ahead} \cup
       IF CleanAt(c) /\ tree' = {} THEN {[ahead EXCEPT ![c] = {Left}]} ELSE {}
  /\ End(w, "RUNTIME_FAILURE", "finalizer_status", "RUNTIME_FAILURE")
  /\ UNCHANGED <<effects, holder, branch, stage, residue>>

\* Its completion, or that of a merge, is lost.
FinalizerUncertain(w, c) ==
  /\ \/ Finalizes(w, c, "approved", "closed") /\ CleanAt(c) /\ UNCHANGED checkout
     \/ Finalizes(w, c, "closed", "merged") /\ UNCHANGED checkout
     \/ /\ pc[w] = "prepass" /\ c \in Finalizable(w) /\ CleanAt(c)
        /\ ahead' = [ahead EXCEPT ![c] = {Left}]
        /\ UNCHANGED <<tree, branch, stage, effects>>
  /\ Costs(TRUE)
  /\ End(w, "INTERRUPTED", "finalizer_status", "INTERRUPTED")
  /\ UNCHANGED <<holder, residue>>

\* Mutation: the coordinator's answer is the outcome.
DispositionIsOutcome(w, disposition) == disposition

\* finalizer_transition_completed
CoordinatedOutcome(w, disposition) ==
  IF disposition = "NO_OP" /\ ev[w].finalizer_status \in {"CLOSURE_PUBLISHED", "MERGED"}
  THEN "COMPLETED" ELSE disposition

Ready(w) == {c \in Checkpoints : state[w][c] = "ready"}

NothingToDo(w) ==
  /\ pc[w] = "coordinate"
  /\ Costs(Ready(w) # {})
  /\ \E d \in {"NO_OP", "BLOCKED"} :
       Returns(w, CoordinatedOutcome(w, d))
  /\ UNCHANGED <<effects, holder, checkout, stage, residue>>

\* _valid_transition refuses the response.
InvalidTransition(w) ==
  /\ pc[w] = "coordinate"
  /\ Costs(TRUE)
  /\ Returns(w, "RUNTIME_FAILURE")
  /\ UNCHANGED <<effects, holder, checkout, stage, residue>>

\* New work, or a rework of what is under review or already approved.
Transition(w, c) ==
  /\ pc[w] = "coordinate"
  /\ state[w][c] \in {"ready", "published", "approved"}
  /\ Costs(state[w][c] # "ready")
  /\ unit' = [unit EXCEPT ![w] = c]
  /\ Record(w, "worker_attempts", 1)
  /\ Goto(w, "prepare")
  /\ UNCHANGED <<state, print, effects, holder, checkout, stage, residue>>

-----------------------------------------------------------------------------
(* Worker and publication. *)

\* The head of a branch is the one that the refresher has found: an approval
\* does not move it, nor does taking it back.
SameHead(found, now) == found = now \/ {found, now} \subseteq {"published", "approved"}

\* Mutation: changes in the worktree are carried over to the branch.
BranchReady(w) ==
  /\ ahead[unit[w]] = {}
  /\ SameHead(state[w][unit[w]], stage[unit[w]])

\* The worktree is clean and the branch is where the transition expects it.
Prepared(w) ==
  /\ tree = {} /\ ahead[unit[w]] = {}
  /\ SameHead(state[w][unit[w]], stage[unit[w]])

\* After everything has been compared, the branch is switched to or created.
SwitchBranch(w) ==
  /\ pc[w] = "prepare"
  /\ Prepared(w) /\ branch # unit[w]
  /\ branch' = unit[w]
  /\ UNCHANGED <<pc, ev, local, effects, holder, tree, ahead, stage, residue, faults>>

\* Mutation: the worker's status is the outcome.
StatusIsOutcome(status) == status

\* The outcome of a worker result that is not VALIDATED.
WorkerOutcome(status) ==
  IF status \in {"WORKER_UNTRUSTWORTHY", "CHECK_UNTRUSTWORTHY", "BOUNDARY_INVALID"}
  THEN "INTERRUPTED" ELSE "RUNTIME_FAILURE"

\* Nothing was started: the preparation failed, there is no executor for the
\* checks, or it was interrupted.
PreparationFails(w) ==
  /\ pc[w] = "prepare"
  /\ Costs(Prepared(w))
  /\ \E s \in {"PREPARATION_FAILED", "CHECK_FAILED", "WORKER_UNTRUSTWORTHY"} :
       End(w, WorkerOutcome(s), "worker_status", s)
  /\ UNCHANGED <<effects, holder, checkout, stage, residue>>

StartWorker(w) ==
  /\ pc[w] = "prepare"
  /\ Prepared(w) /\ branch = unit[w]
  /\ tree' = tree \cup {w}
  /\ Effect(w, "worker")
  /\ Goto(w, "working")
  /\ UNCHANGED <<ev, local, holder, ahead, branch, stage, residue, faults>>

\* The branches that can be checked out.
Places == Checkpoints \cup {Nobody}

\* What a worker may have done to the branches, against its instructions.
Committed(w) ==
  {[c \in Checkpoints |-> IF c \in moved THEN ahead[c] \cup {w} ELSE ahead[c]] :
     moved \in SUBSET Checkpoints}

\* The branch is still checked out, and where it was; others may have been moved.
WorkerValidated(w) ==
  /\ pc[w] = "working"
  /\ Record(w, "worker_status", "VALIDATED")
  /\ print' = [print EXCEPT ![w] = tree]
  /\ ahead' \in Committed(w) /\ ahead'[unit[w]] = ahead[unit[w]]
  /\ Costs(ahead' # ahead)
  /\ Goto(w, "publish")
  /\ UNCHANGED <<state, unit, effects, holder, tree, branch, stage, residue>>

\* A boundary or a check fails, or an executor attests nothing: then the worker
\* or the check may run on.  Either may have moved or switched branches.  CHECK_FAILED
\* stands for FOCUSED_UNSATISFIED, PUBLICATION_UNSATISFIED and
\* CHECK_RUNTIME_FAILURE.
NotValidated(w) ==
  /\ pc[w] = "working"
  /\ Costs(TRUE)
  /\ \E s \in {"BOUNDARY_INVALID", "CHECK_FAILED", "CHECK_UNTRUSTWORTHY",
              "WORKER_UNTRUSTWORTHY"} :
       /\ End(w, WorkerOutcome(s), "worker_status", s)
       /\ residue' \in {residue, residue \/ s \in {"CHECK_UNTRUSTWORTHY", "WORKER_UNTRUSTWORTHY"}}
  /\ ahead' \in Committed(w) /\ branch' \in Places
  /\ UNCHANGED <<effects, holder, tree, stage>>

\* Nothing is committed, and what is changed, or staged by now, stays.
NotCommitted(w) ==
  /\ pc[w] = "publish"
  /\ Costs(tree = print[w])
  /\ \/ \E s \in {"REFUSED", "COMMIT_FAILED"} :
          End(w, "RUNTIME_FAILURE", "publication_status", s)
     \/ \E s \in {"STAGING_UNTRUSTWORTHY", "LOCAL_UNTRUSTWORTHY"} :
          End(w, "INTERRUPTED", "publication_status", s)
  /\ UNCHANGED <<effects, holder, checkout, stage, residue>>

\* Fingerprint and staged bytes are those of the validated worktree.  A hook may
\* commit something else, and change the checkout or not.
Commit(w) ==
  /\ pc[w] = "publish"
  /\ tree = print[w]
  /\ \E hook \in {{}, {Left}} :
       /\ Costs(hook # {})
       /\ ahead' = [ahead EXCEPT ![unit[w]] = @ \cup tree \cup hook]
       /\ tree' \in IF hook = {} THEN {{}} ELSE {{}, tree}
  /\ Goto(w, "push")
  /\ UNCHANGED <<ev, local, effects, holder, branch, stage, residue>>

\* The commit is found to be of what was validated.
CommitVerified(w) == ahead[unit[w]] = print[w]

\* The commit stays local; it was not verified, git failed or was interrupted
\* although it made it, or the push was reliably refused.
NotPushed(w) ==
  /\ pc[w] = "push"
  /\ Costs(CommitVerified(w))
  /\ \/ End(w, "INTERRUPTED", "publication_status", "LOCAL_UNTRUSTWORTHY")
     \/ \E o \in {"INTERRUPTED", "RUNTIME_FAILURE"} :
          End(w, o, "publication_status", "COMMITTED_UNPUBLISHED")
  /\ UNCHANGED <<effects, holder, checkout, stage, residue>>

\* New work has no pull request yet.  An approval was of the former head.
Pushes(w) ==
  /\ stage' = [stage EXCEPT ![unit[w]] = IF @ = "ready" THEN "pushed" ELSE "published"]
  /\ ahead' = [ahead EXCEPT ![unit[w]] = {}]
  /\ Effect(w, "pushed")

Push(w) ==
  /\ pc[w] = "push" /\ CommitVerified(w)
  /\ Pushes(w)
  /\ Goto(w, "verify")
  /\ UNCHANGED <<ev, local, holder, tree, branch, residue, faults>>

PushUncertain(w) ==
  /\ pc[w] = "push" /\ CommitVerified(w)
  /\ Pushes(w) \/ UNCHANGED <<stage, ahead, effects>>
  /\ Costs(TRUE)
  /\ End(w, "INTERRUPTED", "publication_status", "REMOTE_UNTRUSTWORTHY")
  /\ UNCHANGED <<holder, tree, branch, residue>>

\* The pull request of new work.
Opens(w) ==
  /\ stage[unit[w]] = "pushed"
  /\ stage' = [stage EXCEPT ![unit[w]] = "published"]

Open(w) ==
  /\ pc[w] = "verify"
  /\ Opens(w)
  /\ UNCHANGED <<pc, ev, local, effects, holder, checkout, residue, faults>>

Verify(w) ==
  /\ pc[w] = "verify" /\ stage[unit[w]] # "pushed"
  /\ End(w, "COMPLETED", "publication_status", "VERIFIED")
  /\ UNCHANGED <<effects, holder, checkout, stage, residue, faults>>

\* The remote branch, or afterwards the pull request, is not seen as expected.
VerifyUncertain(w) ==
  /\ pc[w] = "verify"
  /\ Costs(TRUE)
  /\ \/ /\ End(w, "INTERRUPTED", "publication_status", "REMOTE_UNTRUSTWORTHY")
        /\ UNCHANGED stage
     \/ /\ End(w, "INTERRUPTED", "publication_status", "PR_UNTRUSTWORTHY")
        /\ Opens(w) \/ UNCHANGED stage
  /\ UNCHANGED <<effects, holder, checkout, residue>>

-----------------------------------------------------------------------------
(* A wake that is left early. *)

\* What it leaves of its worker.
Leaves(w, branches) ==
  IF pc[w] = "working"
  THEN residue' \in {residue, TRUE} /\ branches \in Committed(w) /\ branch' \in Places
  ELSE UNCHANGED <<residue, branch>> /\ branches = ahead

\* An exception or an interrupt leaves the action at any stage.
Interrupt(w) ==
  /\ pc[w] \in Acting
  /\ Costs(TRUE)
  /\ Returns(w, "INTERRUPTED")
  /\ Leaves(w, ahead')
  /\ UNCHANGED <<effects, holder, tree, stage>>

\* The process dies.
Crash(w) ==
  /\ pc[w] \in Acting \cup {"release"}
  /\ Costs(TRUE)
  /\ holder' = Left
  /\ Goto(w, "idle")
  /\ ev' = [ev EXCEPT ![w] = NoEvidence]
  /\ effects' = [effects EXCEPT ![w] = {}]
  /\ Forgets(w)
  /\ \E branches \in Committed(w) : Leaves(w, branches) /\ Over(w, branches)
  /\ UNCHANGED stage

-----------------------------------------------------------------------------
(* What the wakes do not control. *)

\* A worker that was left behind writes, commits, switches branches or ends.
ResidueWrites ==
  /\ residue
  /\ \/ tree' = tree \cup {Left} /\ UNCHANGED <<ahead, branch>>
     \/ /\ \E c \in Checkpoints : ahead' = [ahead EXCEPT ![c] = @ \cup {Left}]
        /\ UNCHANGED <<tree, branch>>
     \/ branch' \in Places /\ UNCHANGED <<tree, ahead>>
  /\ UNCHANGED <<wakes, stage, residue, faults>>

ResidueEnds ==
  /\ residue /\ residue' = FALSE
  /\ UNCHANGED <<wakes, checkout, stage, faults>>

\* The supervisor approves, or takes an approval back.
Approve ==
  /\ \E c \in Checkpoints : /\ stage[c] = "published"
                            /\ stage' = [stage EXCEPT ![c] = "approved"]
  /\ UNCHANGED <<wakes, checkout, residue, faults>>

Object ==
  /\ \E c \in Checkpoints : /\ stage[c] = "approved"
                            /\ stage' = [stage EXCEPT ![c] = "published"]
  /\ Costs(TRUE)
  /\ UNCHANGED <<wakes, checkout, residue>>

\* The operator removes the entry of a wake that is over and left nothing
\* running, and between the wakes restores the checkout and the branches that
\* no pull request speaks of.
Unlock ==
  /\ holder = Left /\ ~residue
  /\ holder' = Nobody
  /\ UNCHANGED <<pc, ev, local, effects, checkout, stage, residue, faults>>

Restore ==
  /\ holder = Nobody /\ ~residue
  /\ tree' = {} /\ ahead' = [c \in Checkpoints |-> {}]
  /\ stage' = Discovered
  /\ UNCHANGED <<wakes, branch, residue, faults>>

\* He checks out the branch of what is approved, as nothing in a wake does.
CheckOut(c) ==
  /\ holder = Nobody /\ ~residue
  /\ stage[c] = "approved" /\ branch # c /\ tree = {}
  /\ branch' = c
  /\ UNCHANGED <<wakes, tree, ahead, stage, residue, faults>>

-----------------------------------------------------------------------------
Prepass(w) == \/ NoFinalization(w)
              \/ \E c \in Checkpoints : FinalizerCompletes(w, c) \/ FinalizerFails(w, c)

Coordinate(w) == NothingToDo(w) \/ \E c \in Checkpoints : Transition(w, c)

Work(w) == \/ SwitchBranch(w) \/ PreparationFails(w) \/ StartWorker(w)
           \/ WorkerValidated(w) \/ NotValidated(w)

Publish(w) == \/ NotCommitted(w) \/ Commit(w) \/ NotPushed(w) \/ Push(w)
              \/ PushUncertain(w) \/ Open(w) \/ Verify(w) \/ VerifyUncertain(w)

\* What an undisturbed wake does next.
Step(w) ==
  \/ Acquire(w) \/ Contended(w) \/ Refresh(w) \/ RecoveryUncertain(w)
  \/ Prepass(w) \/ Coordinate(w) \/ Work(w) \/ Publish(w) \/ Release(w) \/ Report(w)

Disturb(w) ==
  \/ NoTransport(w) \/ InvalidTransition(w) \/ ReleaseFails(w) \/ Interrupt(w) \/ Crash(w)
  \/ \E c \in Checkpoints : FinalizerUncertain(w, c)

Next ==
  \/ \E w \in Wakes : Step(w) \/ Disturb(w)
  \/ ResidueWrites \/ ResidueEnds \/ Approve \/ Object \/ Unlock \/ Restore
  \/ \E c \in Checkpoints : CheckOut(c)

Spec == Init /\ [][Next]_vars

\* Another wake always comes and its synchronous code goes on; workers that
\* are left behind end; supervisor and operator do their part, the operator
\* whenever he finds the repository free; and the refresher does not for ever
\* have the pre-pass look at what it cannot finalize instead of what it can.
Fairness ==
  /\ \A w \in Wakes : WF_vars(Step(w))
  /\ \A c \in Checkpoints : SF_vars(\E w \in Wakes : FinalizerCompletes(w, c))
  /\ WF_vars(ResidueEnds) /\ WF_vars(Approve) /\ WF_vars(Unlock)
  /\ SF_vars(Restore) /\ SF_vars(\E c \in Checkpoints : CheckOut(c))

FairSpec == Spec /\ Fairness
-----------------------------------------------------------------------------
(* Properties. *)

Outcomes == {"COMPLETED", "NO_OP", "BLOCKED", "RUNTIME_FAILURE", "INTERRUPTED"}

FinalizerStatuses == {"none", "NO_FINALIZATION", "CLOSURE_PUBLISHED", "MERGED",
                      "RUNTIME_FAILURE", "INTERRUPTED"}

WorkerStatuses == {"none", "PREPARATION_FAILED", "BOUNDARY_INVALID", "CHECK_FAILED",
                   "CHECK_UNTRUSTWORTHY", "WORKER_UNTRUSTWORTHY", "VALIDATED"}

PublicationStatuses == {"none", "REFUSED", "COMMIT_FAILED", "STAGING_UNTRUSTWORTHY",
                        "LOCAL_UNTRUSTWORTHY", "COMMITTED_UNPUBLISHED",
                        "REMOTE_UNTRUSTWORTHY", "PR_UNTRUSTWORTHY", "VERIFIED"}

WakeEvidence ==
  [outcome : Outcomes \cup {"none"}, worker_attempts : {0, 1},
   finalizer_status : FinalizerStatuses, worker_status : WorkerStatuses,
   publication_status : PublicationStatuses]

\* Type correctness; worker_attempts is 0 or 1.
TypeOK ==
  /\ pc \in [Wakes -> Acting \cup {"idle", "release", "report"}]
  /\ ev \in [Wakes -> WakeEvidence]
  /\ state \in [Wakes -> [Checkpoints -> Stages]]
  /\ unit \in [Wakes -> Checkpoints \cup {Nobody}]
  /\ print \in [Wakes -> SUBSET (Wakes \cup {Left})]
  /\ effects \in [Wakes -> SUBSET {"worker", "pushed", "closed", "merged"}]
  /\ holder \in Wakes \cup {Nobody, Left}
  /\ tree \subseteq Wakes \cup {Left}
  /\ ahead \in [Checkpoints -> SUBSET (Wakes \cup {Left})]
  /\ branch \in Places
  /\ stage \in [Checkpoints -> Stages]
  /\ residue \in BOOLEAN
  /\ faults \in 0..MaxFaults

\* The workers that run, the one that was left behind included.
Working == {w \in Wakes : pc[w] = "working"}
Workers == Cardinality(Working) + IF residue THEN 1 ELSE 0

\* The checkpoint that a wake has chosen to have worked on.
Directed == {unit[w] : w \in Wakes} \ {Nobody}

Life == INSTANCE CheckpointLife WITH workers <- Workers, directed <- Directed

\* "at most one worker attempt [...] interruption recovery without duplicate
\* worker execution" (docs/WORK_QUEUE.md:145-146): in spite of crashes,
\* interrupts and failing releases the wakes together never run two workers,
\* change nothing remote while one runs, work on no two checkpoints, and choose
\* none that is closed already, by the same wake's pre-pass for instance, as long
\* as the refresher reports a worker that may still run.
ImplementsLife == Life!Spec

\* What a wake pushes is the work of its own worker alone, and was validated:
\* nothing that an earlier failed wake, a worker left behind or an aborted
\* closure left in the checkout is ever published with it.
PublishesOwnWork ==
  [][\A w \in Wakes : "pushed" \in effects'[w] \ effects[w]
       => ahead[unit[w]] = {w} /\ ev[w].worker_status = "VALIDATED"]_vars

\* The pre-pass announces what it did by its status, the rest by the outcome.
Announced(w) ==
  CASE ev[w].finalizer_status = "CLOSURE_PUBLISHED" -> {"closed"}
    [] ev[w].finalizer_status = "MERGED"            -> {"merged"}
    [] OTHER                                        -> {}

Honest(w) ==
  LET did == effects[w] \cap {"pushed", "closed", "merged"}
  IN  /\ ev[w].outcome = "NO_OP" => effects[w] = {}
      /\ ev[w].outcome \in {"BLOCKED", "RUNTIME_FAILURE"} => did = Announced(w)
      /\ ev[w].outcome = "COMPLETED" =>
           /\ did # {}
           /\ "pushed" \in did => ev[w].publication_status = "VERIFIED"
      /\ "worker" \in effects[w] => ev[w].worker_attempts = 1

\* A report hides nothing: without an uncertain outcome, everything durable
\* that the wake did is in its evidence; NO_OP is said only of a wake that did
\* nothing, COMPLETED only of one that did something; a worker that ran is
\* counted.
ReportIsHonest == \A w \in Wakes : pc[w] = "report" => Honest(w)

\* However failures, crashes and reworks fall, as long as they are finitely
\* many, every checkpoint is merged in the end: no wake leaves the lock, the
\* checkout or a branch in a state that the next wake and the operator together
\* do not get out of.  The operator has to check out the branches of approved
\* work: without him a wake that finds another one is refused, and so is the next.
CheckpointsAreMerged == <>[](\A c \in Checkpoints : stage[c] = "merged")
=============================================================================
