----------------------------- MODULE WorkerInWake -----------------------------
(***************************************************************************)
(* The worker run as the wake sees it: the state of RuntimeWake that every *)
(* state of RuntimeWorker stands for.  Of the repository the wake keeps    *)
(* whose changes are in the worktree and whose commits are on the branch,  *)
(* of a run whether its worker has been started and how it ended.          *)
(*                                                                         *)
(* The wake knows of nobody else who changes a repository that is locked,  *)
(* so the comparison is of runs that are left alone.                       *)
(***************************************************************************)
EXTENDS RuntimeWorker

This == "this"      \* the wake that has the worker run
Unit == "unit"      \* its checkpoint
Others == "others"  \* whoever has changed the repository before

OfThis(value) == [w \in {This} |-> value]
OfUnit(value) == [c \in {Unit} |-> value]

Over == phase = "done"
Failed == Over /\ status # "VALIDATED"

WakePc ==
  IF Over THEN IF Failed THEN "release" ELSE "publish"
  ELSE IF started THEN "working" ELSE "prepare"

\* The statuses of a check that was executed reliably are one for the wake.
WakeStatus ==
  IF status \in {"FOCUSED_UNSATISFIED", "PUBLICATION_UNSATISFIED", "CHECK_RUNTIME_FAILURE"}
  THEN "CHECK_FAILED" ELSE status

WakeOutcome ==
  IF ~Failed THEN "none"
  ELSE IF Outcome(status) = "INTERRUPTED_OR_UNTRUSTWORTHY" THEN "INTERRUPTED"
  ELSE "RUNTIME_FAILURE"

\* WakeEvidence, as soon as the worker's status is known.
Evidence ==
  [outcome |-> WakeOutcome, worker_attempts |-> 1, finalizer_status |-> "NO_FINALIZATION",
   worker_status |-> WakeStatus, publication_status |-> "none"]

\* What was chosen and known is forgotten when the run has ended the action.
WakeUnit == IF Failed THEN "nobody" ELSE Unit

WakeTree == IF started THEN {This} ELSE IF Changes(repo) = {} THEN {} ELSE {Others}

\* The branch is at the frozen commit; one that is still to be created counts.
InPlace == repo.refs[request.branch] \in {request.head} \cup IF started THEN {} ELSE {Absent}

\* What a worker does to the branch is seen when its run is over.
WakeAhead ==
  IF InPlace \/ (started /\ ~Over) THEN {} ELSE {IF started THEN This ELSE Others}

\* So is which branch it has checked out.
WakeBranch == IF (started /\ ~Over) \/ repo.at = request.branch THEN Unit ELSE "nobody"

Fingerprinted ==
  /\ DOMAIN print = Changes(repo)
  /\ \A p \in DOMAIN print : print[p] = repo.tree[p]

WakePrint == IF status # "VALIDATED" THEN {} ELSE IF Fingerprinted THEN {This} ELSE {This, Others}

WakeStage == IF request.match = "none" THEN "ready" ELSE "published"

WakeState == IF Failed THEN "merged" ELSE WakeStage

\* Something went wrong that need not have.
WakeFaults == IF Failed /\ (started \/ WakeTree \cup WakeAhead = {}) THEN 1 ELSE 0

Wake == INSTANCE RuntimeWake WITH
  Wakes <- {This}, Checkpoints <- {Unit}, Nobody <- "nobody", Left <- Others, MaxFaults <- 1,
  pc      <- OfThis(WakePc),
  ev      <- OfThis(Evidence),
  state   <- OfThis(OfUnit(WakeState)),
  unit    <- OfThis(WakeUnit),
  print   <- OfThis(WakePrint),
  effects <- OfThis(IF started THEN {"worker"} ELSE {}),
  holder  <- This,
  tree    <- WakeTree,
  ahead   <- OfUnit(WakeAhead),
  branch  <- WakeBranch,
  stage   <- OfUnit(WakeStage),
  residue <- Over /\ residue,
  faults  <- WakeFaults

\* As long as nobody else changes the repository, every step of
\* run_runtime_worker is a step that stands for it in the wake, or changes
\* nothing that the wake knows of: a worker is started at most once and only in
\* a clean worktree on its own branch, in place and checked out, a validated one
\* leaves that branch as it was, nothing running and the worktree that was fingerprinted,
\* and whatever is left running is reported as uncertain (runtime_wake.py:277-287).
ImplementsWork ==
  [][foreign' = 0 => Wake!Work(This) \/ UNCHANGED Wake!vars]_vars
=============================================================================
