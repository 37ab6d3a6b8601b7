-------------------------- MODULE WorkerInWakeProofs --------------------------
(***************************************************************************)
(* RuntimeWorker implements the worker of RuntimeWake, for any transition, *)
(* any repository and whatever worker and checks do to it.                 *)
(***************************************************************************)
EXTENDS WorkerInWake, RuntimeWorkerProofs

\* The worker has been started when its phase, or what the inspection is for,
\* says so; before, nothing runs.  When the branch is to be switched to or created,
\* and nobody else has acted, the worktree is clean and the branch is in place;
\* when the worker is about to be started, it is also checked out.
StartInv ==
  /\ phase # "done" => (started <=> phase = "worker" \/ purpose = "post")
  /\ phase \in {"fingerprint", "judge", "check"} => started
  /\ ~started => ~residue
  /\ phase \in {"compare", "switch", "create"} /\ foreign = 0 => Changes(repo) = {}
  /\ phase \in {"switch", "create"} /\ foreign = 0 =>
       repo.refs[request.branch] \in {request.head, Absent}
  /\ phase = "start" /\ foreign = 0 =>
       /\ Changes(repo) = {} /\ repo.refs[request.branch] = request.head
       /\ repo.at = request.branch
-----------------------------------------------------------------------------
(* The invariant. *)

\* Only somebody else's step is counted, and none is taken back.
LEMMA AloneBefore ==
  ASSUME TypeOK, [Next]_vars, foreign' = 0
  PROVE  foreign = 0 /\ ~Interfere
<1>1. ~Interfere
  BY RuntimeWorkerAssumption DEF TypeOK, Interfere
<1> QED
  BY <1>1
  DEF Next, Runner, Prepare, Inspect, Execute, Done, Resolve, InitialInspection, CompareBranch,
      Switch, CreateBranch, Reinspect, ValidatePrepared, StartWorker, InspectHead, InspectBranch,
      InspectStaged, InspectUnstaged, ValidateBoundary, FingerprintPath, FingerprintDone,
      FingerprintFails, WorkerCompletes, WorkerUncertain, Judge, CheckCompletes, CheckUncertain,
      Raise, Interrupt, vars

\* A clean repository, as it was inspected,
LEMMA InspectedIsClean ==
  ASSUME WorkerInv, foreign = 0, phase = "inspected", Changed(seen) = {}
  PROVE  Changes(repo) = {}
  BY DEF WorkerInv, EvidenceInv, InspectionInv, Reading, Changed, Changes

\* and a prepared one.
LEMMA PreparedIsClean ==
  ASSUME TypeOK, WorkerInv, foreign = 0, phase = "inspected", Prepared(seen)
  PROVE  /\ Changes(repo) = {} /\ repo.refs[request.branch] = request.head
         /\ repo.at = request.branch
<1>1. quiet /\ seen.head = HeadOf(repo) /\ seen.branch = BranchOf(repo)
      /\ seen.staged = repo.staged /\ seen.unstaged = Unstaged(repo)
  BY DEF WorkerInv, EvidenceInv, InspectionInv, Reading
<1>2. request.branch \in Branches
  BY RequestTyped DEF TypeOK
<1>3. repo.at = request.branch
  BY <1>1, <1>2, RuntimeWorkerAssumption DEF Prepared, BranchOf
<1> QED
  BY <1>1, <1>2, <1>3 DEF Prepared, Changed, Changes, HeadOf

LEMMA StartStep ==
  ASSUME TypeOK, WorkerInv, StartInv, [Next]_vars
  PROVE  StartInv'
<1> USE DEF StartInv
<1>a. phase \in {"resolve", "compare", "switch", "create", "reinspect", "start", "worker"}
        => purpose # "post"
  BY DEF WorkerInv, EvidenceInv
<1>1. CASE Resolve
  BY <1>1, <1>a DEF Resolve, Goto, Report, local
<1>12. CASE InitialInspection
  BY <1>12, <1>a, InspectedIsClean
  DEF InitialInspection, Goto, Report, local, Changes, Unstaged
<1>13. CASE CompareBranch
  BY <1>13, <1>a DEF CompareBranch, Goto, Report, local, Changes, Unstaged
<1>2. CASE Switch \/ CreateBranch \/ Reinspect
  BY <1>2, <1>a DEF Switch, CreateBranch, Reinspect, Begin, Goto, Report, local
<1>3. CASE ValidatePrepared
  <2>1. phase' = "start" /\ foreign' = 0 =>
          /\ Changes(repo) = {} /\ repo.refs[request.branch] = request.head
          /\ repo.at = request.branch
    BY <1>3, PreparedIsClean DEF ValidatePrepared, Report
  <2> QED
    BY <1>3, <2>1 DEF ValidatePrepared, Goto, Report, Changes, Unstaged
<1>4. CASE StartWorker
  BY <1>4 DEF StartWorker, Goto
<1>5. CASE InspectHead \/ InspectBranch \/ InspectStaged \/ InspectUnstaged
  BY <1>5, <1>a DEF InspectHead, InspectBranch, InspectStaged, InspectUnstaged, Goto, local
<1>6. CASE ValidateBoundary \/ FingerprintPath \/ FingerprintDone \/ FingerprintFails
  <2>1. /\ started' = started /\ purpose' = purpose /\ residue' = residue
        /\ phase' \in {"fingerprint", "judge", "done"}
        /\ phase = "inspected" => purpose = "post"
        /\ phase \in {"inspected", "fingerprint", "judge"}
    <3>1. CASE FingerprintPath
      BY <3>1 DEF FingerprintPath, Goto, Report
    <3>2. CASE ValidateBoundary \/ FingerprintDone \/ FingerprintFails
      BY <3>2 DEF ValidateBoundary, FingerprintDone, FingerprintFails, Goto, Report
    <3> QED
      BY <1>6, <3>1, <3>2
  <2> QED
    BY <2>1
<1>7. CASE WorkerCompletes \/ WorkerUncertain
  BY <1>7 DEF WorkerCompletes, WorkerUncertain, Begin, Goto, Report, local
<1>8. CASE Judge \/ CheckCompletes \/ CheckUncertain
  BY <1>8 DEF Judge, CheckCompletes, CheckUncertain, Begin, Goto, Report, local
<1>9. CASE Raise \/ Interrupt
  BY <1>9 DEF Raise, Interrupt, Report, local
<1>10. CASE Interfere
  BY <1>10, AloneBefore DEF Interfere, control, local
<1>11. CASE UNCHANGED vars
  BY <1>11 DEF vars, control, local, Changes, Unstaged
<1> QED
  BY <1>1, <1>2, <1>3, <1>4, <1>5, <1>6, <1>7, <1>8, <1>9, <1>10, <1>11,
     <1>12, <1>13
  DEF Next, Runner, Prepare, Inspect, Execute, Done

\* A worker is started in a clean worktree on the frozen commit, with its branch
\* checked out, and nothing runs before.
THEOREM StartedInPlace == Spec => []StartInv
<1>1. Init => StartInv
  BY DEF Init, StartInv
<1>2. TypeOK /\ WorkerInv /\ StartInv /\ [Next]_vars => StartInv'
  BY StartStep
<1> QED
  BY <1>1, <1>2, TypeCorrect, Invariance, PTL DEF Spec
-----------------------------------------------------------------------------
(* The steps of the wake, in terms of what its variables stand for. *)

LEMMA NothingHappens ==
  ASSUME request' = request, WakePc' = WakePc, Evidence' = Evidence, WakePrint' = WakePrint,
         started' = started, WakeTree' = WakeTree, WakeAhead' = WakeAhead,
         WakeBranch' = WakeBranch, Failed' = Failed,
         (Over /\ residue)' = (Over /\ residue), WakeFaults' = WakeFaults
  PROVE  UNCHANGED Wake!vars
  BY DEF WakeStage, WakeState, WakeUnit, Wake!vars, Wake!wakes, Wake!local, Wake!checkout, OfThis, OfUnit

Effects == OfThis(IF started THEN {"worker"} ELSE {})

LEMMA Keeps ==
  ASSUME request' = request
  PROVE  /\ OfUnit(WakeStage)' = OfUnit(WakeStage)
         /\ ~Failed /\ ~Failed' => /\ OfThis(OfUnit(WakeState))' = OfThis(OfUnit(WakeState))
                                   /\ OfThis(WakeUnit)' = OfThis(WakeUnit)
         /\ ~Failed /\ ~Failed' /\ WakePrint' = WakePrint => UNCHANGED Wake!local
         /\ started' = started => Effects' = Effects
         /\ WakeTree' = WakeTree /\ WakeAhead' = WakeAhead /\ WakeBranch' = WakeBranch
              => UNCHANGED Wake!checkout
  BY DEF WakeStage, WakeState, WakeUnit, Effects, Wake!local, Wake!checkout, OfThis, OfUnit

\* The wake's stage tells a run that has failed.
LEMMA Ending ==
  ASSUME NEW s, NEW o, WakePc' = "release",
         Evidence' = Wake!Ended(Evidence, o, "worker_status", s)
  PROVE  Wake!End(This, o, "worker_status", s)
<1>1. Failed'
  BY DEF WakePc, Failed
<1>2. WakePrint' = {} /\ WakeUnit' = "nobody" /\ WakeState' = "merged"
  BY <1>1 DEF WakePrint, WakeUnit, WakeState, Failed
<1>3. Wake!Forgets(This)
  BY <1>2 DEF Wake!Forgets, Wake!Unknown, OfThis, OfUnit
<1> QED
  BY <1>3 DEF Wake!End, Wake!Goto, OfThis

\* The transition is of the head that the branch has.
LEMMA PreparedMeans ==
  ASSUME WakePc # "release"
  PROVE  Wake!Prepared(This) <=> WakeTree = {} /\ WakeAhead = {}
<1>1. ~Failed
  BY DEF WakePc, Failed
<1> QED
  BY <1>1 DEF Wake!Prepared, Wake!SameHead, WakeState, WakeUnit, OfThis, OfUnit

LEMMA Switches ==
  ASSUME request' = request, WakePc = "prepare", WakePc' = "prepare", started' = started,
         WakeTree = {}, WakeAhead = {}, WakeTree' = {}, WakeAhead' = {},
         WakeBranch # Unit, WakeBranch' = Unit,
         Evidence' = Evidence, WakePrint' = WakePrint,
         (Over /\ residue)' = (Over /\ residue), WakeFaults' = WakeFaults
  PROVE  Wake!SwitchBranch(This)
<1>1. ~Failed /\ ~Failed'
  BY DEF WakePc, Failed
<1>2. WakeUnit = Unit /\ WakePc' = WakePc /\ WakeTree' = WakeTree /\ WakeAhead' = WakeAhead
  BY <1>1 DEF WakeUnit
<1>3. OfThis(WakePc)[This] = "prepare" /\ OfThis(WakeUnit)[This] = Unit /\ Wake!Prepared(This)
  BY <1>2, PreparedMeans DEF OfThis
<1>4. /\ OfThis(WakePc)' = OfThis(WakePc) /\ OfThis(Evidence)' = OfThis(Evidence)
      /\ OfUnit(WakeAhead)' = OfUnit(WakeAhead)
  BY <1>2 DEF OfThis, OfUnit
<1> QED
  BY <1>1, <1>2, <1>3, <1>4, Keeps DEF Wake!SwitchBranch, Effects

LEMMA EndsUnstarted ==
  ASSUME request' = request, WakePc = "prepare", WakePc' = "release",
         NEW s \in {"PREPARATION_FAILED", "CHECK_FAILED", "WORKER_UNTRUSTWORTHY"},
         Evidence' = Wake!Ended(Evidence, Wake!WorkerOutcome(s), "worker_status", s),
         started' = started, WakeTree' = WakeTree, WakeAhead' = WakeAhead,
         WakeBranch' = WakeBranch, (Over /\ residue)' = (Over /\ residue),
         IF WakeTree = {} /\ WakeAhead = {} THEN WakeFaults = 0 /\ WakeFaults' = 1
         ELSE WakeFaults' = WakeFaults
  PROVE  Wake!PreparationFails(This)
<1>1. OfThis(WakePc)[This] = "prepare"
  BY DEF OfThis
<1>2. Wake!Prepared(This) <=> WakeTree = {} /\ WakeAhead = {}
  BY PreparedMeans
<1>3. Wake!Costs(Wake!Prepared(This))
  BY <1>2 DEF Wake!Costs
<1>4. \E t \in {"PREPARATION_FAILED", "CHECK_FAILED", "WORKER_UNTRUSTWORTHY"} :
         Wake!End(This, Wake!WorkerOutcome(t), "worker_status", t)
  BY Ending
<1> QED
  BY <1>1, <1>3, <1>4, Keeps DEF Wake!PreparationFails, Effects

LEMMA Starts ==
  ASSUME request' = request, WakePc = "prepare", WakePc' = "working", ~started, started',
         WakeTree = {}, WakeAhead = {}, WakeTree' = {This}, WakeAhead' = {},
         WakeBranch = Unit, WakeBranch' = Unit,
         Evidence' = Evidence, WakePrint' = WakePrint,
         (Over /\ residue)' = (Over /\ residue), WakeFaults' = WakeFaults
  PROVE  Wake!StartWorker(This)
<1>3. ~Failed /\ ~Failed'
  BY DEF WakePc, Failed
<1>1. /\ OfThis(WakePc)[This] = "prepare" /\ Wake!Prepared(This) /\ Wake!Goto(This, "working")
      /\ OfThis(Evidence)' = OfThis(Evidence) /\ OfUnit(WakeAhead)' = OfUnit(WakeAhead)
      /\ WakeBranch = OfThis(WakeUnit)[This]
  BY <1>3, PreparedMeans DEF OfThis, OfUnit, WakeUnit, Wake!Goto
<1>2. Effects' = [Effects EXCEPT ![This] = @ \cup {"worker"}]
  BY DEF Effects, OfThis
<1> QED
  BY <1>1, <1>2, <1>3, Keeps DEF Wake!StartWorker, Wake!Effect, Effects

\* What the worker has done to the branch is seen now.
LEMMA BranchSeen ==
  ASSUME WakeAhead = {}, WakeAhead' \in {{}, {This}}
  PROVE  OfUnit(WakeAhead)' \in Wake!Committed(This)
<1>1. CASE WakeAhead' = {}
  <2>1. OfUnit(WakeAhead)' = [c \in {Unit} |-> IF c \in {} THEN OfUnit(WakeAhead)[c] \cup {This}
                                              ELSE OfUnit(WakeAhead)[c]]
    BY <1>1 DEF OfUnit
  <2> QED
    BY <2>1 DEF Wake!Committed
<1>2. CASE WakeAhead' = {This}
  <2>1. OfUnit(WakeAhead)' = [c \in {Unit} |-> IF c \in {Unit} THEN OfUnit(WakeAhead)[c] \cup {This}
                                              ELSE OfUnit(WakeAhead)[c]]
    BY <1>2 DEF OfUnit
  <2> QED
    BY <2>1 DEF Wake!Committed
<1> QED
  BY <1>1, <1>2

LEMMA EndsInvalid ==
  ASSUME request' = request, WakePc = "working", WakePc' = "release",
         NEW s \in {"BOUNDARY_INVALID", "CHECK_FAILED", "CHECK_UNTRUSTWORTHY", "WORKER_UNTRUSTWORTHY"},
         Evidence' = Wake!Ended(Evidence, Wake!WorkerOutcome(s), "worker_status", s),
         started' = started, WakeTree' = WakeTree,
         WakeAhead = {}, WakeAhead' \in {{}, {This}}, ~(Over /\ residue),
         (Over /\ residue)' \in BOOLEAN,
         (Over /\ residue)' => s \in {"CHECK_UNTRUSTWORTHY", "WORKER_UNTRUSTWORTHY"},
         WakeFaults = 0, WakeFaults' = 1
  PROVE  Wake!NotValidated(This)
<1>1. OfThis(WakePc)[This] = "working" /\ Wake!Costs(TRUE)
  BY DEF OfThis, Wake!Costs
<1>2. Wake!End(This, Wake!WorkerOutcome(s), "worker_status", s)
  BY Ending
<1>3. (Over /\ residue)' \in
        {Over /\ residue, (Over /\ residue) \/ s \in {"CHECK_UNTRUSTWORTHY", "WORKER_UNTRUSTWORTHY"}}
  OBVIOUS
<1>4. \E t \in {"BOUNDARY_INVALID", "CHECK_FAILED", "CHECK_UNTRUSTWORTHY", "WORKER_UNTRUSTWORTHY"} :
         /\ Wake!End(This, Wake!WorkerOutcome(t), "worker_status", t)
         /\ (Over /\ residue)' \in
              {Over /\ residue, (Over /\ residue) \/ t \in {"CHECK_UNTRUSTWORTHY", "WORKER_UNTRUSTWORTHY"}}
  BY <1>2, <1>3
<1> QED
  BY <1>1, <1>4, BranchSeen, Keeps DEF Wake!NotValidated, Wake!Places, WakeBranch, Effects

LEMMA Validates ==
  ASSUME request' = request, WakePc = "working", WakePc' = "publish", WakeTree = {This},
         Evidence' = [Evidence EXCEPT !["worker_status"] = "VALIDATED"],
         WakePrint' = {This}, started' = started, WakeTree' = WakeTree,
         WakeAhead = {}, WakeAhead' = {}, WakeBranch' = WakeBranch,
         (Over /\ residue)' = (Over /\ residue), WakeFaults' = WakeFaults
  PROVE  Wake!WorkerValidated(This)
<1>4. ~Failed /\ ~Failed'
  BY DEF WakePc, Failed
<1>1. /\ OfThis(WakePc)[This] = "working" /\ Wake!Goto(This, "publish")
      /\ Wake!Record(This, "worker_status", "VALIDATED")
      /\ OfThis(WakePrint)' = [OfThis(WakePrint) EXCEPT ![This] = WakeTree]
  BY DEF OfThis, Wake!Goto, Wake!Record
<1>2. OfUnit(WakeAhead)' = OfUnit(WakeAhead)
  BY DEF OfUnit
<1>3. Wake!Costs(OfUnit(WakeAhead)' # OfUnit(WakeAhead))
  BY <1>2 DEF Wake!Costs
<1> QED
  BY <1>1, <1>2, <1>3, <1>4, BranchSeen, Keeps DEF Wake!WorkerValidated, Effects
-----------------------------------------------------------------------------
(* The steps of the run. *)

FailsUnstarted == {"PREPARATION_FAILED", "CHECK_RUNTIME_FAILURE", "WORKER_UNTRUSTWORTHY"}

FailsStarted == {"BOUNDARY_INVALID", "FOCUSED_UNSATISFIED", "PUBLICATION_UNSATISFIED",
                 "CHECK_RUNTIME_FAILURE", "CHECK_UNTRUSTWORTHY", "WORKER_UNTRUSTWORTHY"}

\* What a step of the runner is: it goes on, it switches branches, it starts the
\* worker, or it ends the run with one of the statuses of its stage.
GoesOn ==
  /\ phase' # "done" /\ started' = started
  /\ ~started => /\ repo'.tree = repo.tree /\ repo'.staged = repo.staged
                 /\ InPlace' = InPlace /\ repo'.at = repo.at

SwitchesBranch ==
  /\ phase' # "done" /\ ~started /\ ~started'
  /\ repo'.tree = repo.tree /\ repo'.staged = repo.staged
  /\ Changes(repo) = {} /\ InPlace /\ InPlace'
  /\ repo'.at = request.branch

EndsWith(statuses) ==
  phase' = "done" /\ status' \in statuses /\ UNCHANGED <<started, repo, residue>>

LEMMA PreparingKinds ==
  ASSUME TypeOK, WorkerInv, StartInv, foreign = 0,
         \/ Resolve \/ InitialInspection \/ CompareBranch \/ Switch \/ CreateBranch
         \/ Reinspect \/ ValidatePrepared
  PROVE  ~started /\ (GoesOn \/ SwitchesBranch \/ EndsWith(FailsUnstarted))
<1>1. ~started
  BY DEF StartInv, WorkerInv, EvidenceInv, Resolve, InitialInspection, CompareBranch, Switch,
         CreateBranch, Reinspect, ValidatePrepared
<1>2. CASE Resolve
  BY <1>1, <1>2 DEF Resolve, Goto, Report, local, GoesOn, EndsWith, FailsUnstarted, InPlace
<1>3. CASE InitialInspection \/ CompareBranch
  BY <1>1, <1>3
  DEF InitialInspection, CompareBranch, Goto, Report, local, GoesOn, EndsWith, FailsUnstarted, InPlace
<1>4. CASE Switch
  <2>1. repo' = [repo EXCEPT !.at = request.branch] /\ repo \in Repository
    BY <1>4 DEF TypeOK, Switch
  <2>2. /\ repo'.tree = repo.tree /\ repo'.staged = repo.staged /\ repo'.refs = repo.refs
        /\ repo'.at = request.branch
    BY <2>1 DEF Repository
  <2>3. phase = "switch" /\ phase' = "reinspect" /\ started' = started /\ request' = request
    BY <1>4 DEF Switch, Goto, local
  <2> QED
    BY <1>1, <2>2, <2>3 DEF StartInv, SwitchesBranch, InPlace
<1>5. CASE CreateBranch
  <2>1. repo \in Repository /\ request.branch \in Branches
    BY RequestTyped DEF TypeOK
  <2>2. CASE repo.refs[request.branch] = Absent
    <3>1. repo' = [repo EXCEPT !.refs[request.branch] = request.head, !.at = request.branch]
          /\ phase = "create"
          /\ phase' = "reinspect" /\ started' = started /\ request' = request
      BY <1>5, <2>2 DEF CreateBranch, Goto, local
    <3>2. /\ repo'.tree = repo.tree /\ repo'.staged = repo.staged
          /\ repo'.refs[request.branch] = request.head
          /\ repo'.at = request.branch
      BY <2>1, <3>1 DEF Repository
    <3> QED
      BY <1>1, <2>2, <3>1, <3>2 DEF StartInv, SwitchesBranch, InPlace
  <2>3. CASE repo.refs[request.branch] # Absent
    BY <1>1, <1>5, <2>3 DEF CreateBranch, Report, local, EndsWith, FailsUnstarted
  <2> QED
    BY <2>2, <2>3
<1>6. CASE Reinspect
  BY <1>1, <1>6 DEF Reinspect, Begin, Goto, local, GoesOn, InPlace
<1>7. CASE ValidatePrepared
  BY <1>1, <1>7 DEF ValidatePrepared, Goto, Report, GoesOn, EndsWith, FailsUnstarted, InPlace
<1> QED
  BY <1>1, <1>2, <1>3, <1>4, <1>5, <1>6, <1>7

LEMMA ReadingKinds ==
  ASSUME TypeOK, StartInv,
         \/ InspectHead \/ InspectBranch \/ InspectStaged \/ InspectUnstaged
         \/ ValidateBoundary \/ FingerprintPath \/ FingerprintDone \/ FingerprintFails
  PROVE  GoesOn \/ (started /\ EndsWith(FailsStarted))
<1>1. CASE InspectHead \/ InspectBranch \/ InspectStaged \/ InspectUnstaged
  BY <1>1 DEF InspectHead, InspectBranch, InspectStaged, InspectUnstaged, Goto, local, GoesOn, InPlace
<1>2. CASE ValidateBoundary
  BY <1>2 DEF StartInv, ValidateBoundary, Goto, Report, GoesOn, EndsWith, FailsStarted, InPlace
<1>3. CASE FingerprintPath
  BY <1>3 DEF StartInv, FingerprintPath, Goto, Report, GoesOn, EndsWith, FailsStarted, InPlace
<1>4. CASE FingerprintDone
  BY <1>4 DEF FingerprintDone, Goto, GoesOn, InPlace
<1>5. CASE FingerprintFails
  BY <1>5 DEF StartInv, FingerprintFails, Report, EndsWith, FailsStarted
<1> QED
  BY <1>1, <1>2, <1>3, <1>4, <1>5

LEMMA ExecutingKinds ==
  ASSUME TypeOK, StartInv,
         \/ WorkerCompletes \/ WorkerUncertain \/ Judge \/ CheckCompletes \/ CheckUncertain
  PROVE  started /\ (GoesOn \/ EndsWith(FailsStarted \cup {"VALIDATED"}))
<1>1. started
  BY DEF StartInv, WorkerCompletes, WorkerUncertain, Judge, CheckCompletes, CheckUncertain
<1>2. CASE WorkerCompletes \/ CheckCompletes
  BY <1>1, <1>2 DEF WorkerCompletes, CheckCompletes, Begin, Goto, local, GoesOn
<1>3. CASE WorkerUncertain \/ CheckUncertain
  BY <1>1, <1>3 DEF WorkerUncertain, CheckUncertain, Report, local, EndsWith, FailsStarted
<1>4. CASE Judge
  <2>1. CASE verdict \in {"none", "zero"} /\ Remaining # {}
    BY <1>1, <1>4, <2>1 DEF Judge, Goto, GoesOn
  <2>2. CASE ~(verdict \in {"none", "zero"} /\ Remaining # {})
    <3>1. status' \in FailsStarted \cup {"VALIDATED"}
      BY <1>4, <2>2 DEF Judge, Report, FailsStarted
    <3> QED
      BY <1>1, <1>4, <2>2, <3>1 DEF Judge, Report, EndsWith
  <2> QED
    BY <2>1, <2>2
<1> QED
  BY <1>1, <1>2, <1>3, <1>4

LEMMA RaisingKinds ==
  ASSUME Raise \/ Interrupt
  PROVE  EndsWith(IF started THEN FailsStarted ELSE FailsUnstarted)
  BY DEF Raise, Interrupt, Report, Raised, local, EndsWith, FailsStarted, FailsUnstarted

\* Before the run is over, nothing is known of it.
LEMMA WhileItRuns ==
  ASSUME TypeOK, phase # "done"
  PROVE  /\ status = "none" /\ ~Over /\ ~Failed /\ WakePrint = {} /\ WakeFaults = 0
         /\ WakePc = IF started THEN "working" ELSE "prepare"
         /\ WakeOutcome = "none" /\ WakeStatus = "none"
         /\ started => WakeTree = {This} /\ WakeAhead = {} /\ WakeBranch = Unit
  BY DEF TypeOK, Over, Failed, WakePrint, WakeFaults, WakePc, WakeOutcome, WakeStatus, WakeTree,
         WakeAhead, WakeBranch

LEMMA WhileItRunsNext ==
  ASSUME TypeOK', phase' # "done"
  PROVE  /\ ~Over' /\ ~Failed' /\ WakePrint' = {} /\ WakeFaults' = 0
         /\ WakePc' = IF started' THEN "working" ELSE "prepare"
         /\ WakeOutcome' = "none" /\ WakeStatus' = "none"
         /\ started' => WakeTree' = {This} /\ WakeAhead' = {} /\ WakeBranch' = Unit
  BY DEF TypeOK, Over, Failed, WakePrint, WakeFaults, WakePc, WakeOutcome, WakeStatus, WakeTree,
         WakeAhead, WakeBranch

LEMMA SameEvidence ==
  ASSUME WakeOutcome' = WakeOutcome, WakeStatus' = WakeStatus
  PROVE  Evidence' = Evidence
  BY DEF Evidence

LEMMA NewEvidence ==
  ASSUME WakeOutcome = "none", WakeStatus = "none"
  PROVE  /\ Evidence' = Wake!Ended(Evidence, WakeOutcome', "worker_status", WakeStatus')
         /\ WakeOutcome' = "none" => Evidence' = [Evidence EXCEPT !["worker_status"] = WakeStatus']
<1> DEFINE over(o, s) == [outcome |-> o, worker_attempts |-> 1, finalizer_status |-> "NO_FINALIZATION",
                          worker_status |-> s, publication_status |-> "none"]
           known == [Evidence EXCEPT !["worker_status"] = WakeStatus']
<1>1. Evidence = over("none", "none") /\ Evidence' = over(WakeOutcome', WakeStatus')
  BY DEF Evidence
<1>2. known = over("none", WakeStatus')
  BY <1>1
<1> HIDE DEF known
<1>3. [known EXCEPT !.outcome = WakeOutcome'] = over(WakeOutcome', WakeStatus')
  BY <1>2
<1> QED
  BY <1>1, <1>2, <1>3 DEF Wake!Ended, known
-----------------------------------------------------------------------------
(* What each kind of step is for the wake. *)

LEMMA GoingOn ==
  ASSUME TypeOK, TypeOK', request' = request, phase # "done", GoesOn
  PROVE  UNCHANGED Wake!vars
<1>1. phase' # "done" /\ started' = started
  BY DEF GoesOn
<1>2. /\ WakePc' = WakePc /\ Evidence' = Evidence /\ WakePrint' = WakePrint
      /\ (Over /\ residue)' = (Over /\ residue) /\ WakeFaults' = WakeFaults
  BY <1>1, WhileItRuns, WhileItRunsNext, SameEvidence
<1>3. WakeTree' = WakeTree /\ WakeAhead' = WakeAhead /\ WakeBranch' = WakeBranch
  <2>1. CASE started
    BY <1>1, <2>1, WhileItRuns, WhileItRunsNext
  <2>2. CASE ~started
    <3>1. /\ repo'.tree = repo.tree /\ repo'.staged = repo.staged /\ InPlace' = InPlace
          /\ repo'.at = repo.at
      BY <2>2 DEF GoesOn
    <3>2. Changes(repo)' = Changes(repo)
      BY <3>1 DEF Changes, Unstaged
    <3> QED
      BY <1>1, <2>2, <3>1, <3>2 DEF WakeTree, WakeAhead, WakeBranch
  <2> QED
    BY <2>1, <2>2
<1>4. Failed' = Failed
  BY <1>1, WhileItRuns, WhileItRunsNext DEF Failed
<1> QED
  BY <1>1, <1>2, <1>3, <1>4, NothingHappens

LEMMA Switching ==
  ASSUME TypeOK, TypeOK', request' = request, phase # "done", SwitchesBranch
  PROVE  Wake!SwitchBranch(This) \/ UNCHANGED Wake!vars
<1>1. phase' # "done" /\ ~started /\ ~started' /\ started' = started
  BY DEF SwitchesBranch, TypeOK
<1>2. /\ WakePc = "prepare" /\ WakePc' = "prepare" /\ Evidence' = Evidence
      /\ WakePrint' = WakePrint /\ WakeFaults' = WakeFaults
      /\ (Over /\ residue)' = (Over /\ residue)
  BY <1>1, WhileItRuns, WhileItRunsNext, SameEvidence
<1>3. Failed' = Failed
  BY <1>1, WhileItRuns, WhileItRunsNext DEF Failed
<1>4. Changes(repo)' = Changes(repo) /\ Changes(repo) = {}
  BY DEF SwitchesBranch, Changes, Unstaged
<1>5. WakeTree = {} /\ WakeAhead = {} /\ WakeTree' = {} /\ WakeAhead' = {}
  BY <1>1, <1>4 DEF SwitchesBranch, WakeTree, WakeAhead
<1>6. WakeBranch' = Unit
  BY DEF SwitchesBranch, WakeBranch
<1>7. CASE WakeBranch = Unit
  BY <1>1, <1>2, <1>3, <1>5, <1>6, <1>7, NothingHappens
<1>8. CASE WakeBranch # Unit
  BY <1>1, <1>2, <1>5, <1>6, <1>8, Switches
<1> QED
  BY <1>7, <1>8

LEMMA WorkerStarts ==
  ASSUME TypeOK, TypeOK', WorkerInv, StartInv, foreign = 0, request' = request, StartWorker
  PROVE  Wake!StartWorker(This)
<1>1. phase = "start" /\ phase' = "worker" /\ ~started /\ started'
  BY DEF WorkerInv, EvidenceInv, StartInv, StartWorker, Goto
<1>2. WakeTree = {} /\ WakeAhead = {} /\ WakeBranch = Unit
  BY <1>1 DEF StartInv, WakeTree, WakeAhead, WakeBranch, InPlace
<1>3. /\ WakePc = "prepare" /\ WakePc' = "working" /\ Evidence' = Evidence
      /\ WakePrint' = WakePrint /\ WakeFaults' = WakeFaults
      /\ (Over /\ residue)' = (Over /\ residue)
      /\ WakeTree' = {This} /\ WakeAhead' = {} /\ WakeBranch' = Unit
  BY <1>1, WhileItRuns, WhileItRunsNext, SameEvidence
<1> QED
  BY <1>1, <1>2, <1>3, Starts

\* A run that has failed, and what the wake makes of its status.
LEMMA HasFailed ==
  ASSUME TypeOK, phase # "done", EndsWith(FailsStarted \cup FailsUnstarted)
  PROVE  /\ Over' /\ Failed' /\ WakePc' = "release" /\ WakePrint' = WakePrint
         /\ WakeOutcome' = Wake!WorkerOutcome(WakeStatus')
         /\ Evidence' = Wake!Ended(Evidence, Wake!WorkerOutcome(WakeStatus'), "worker_status",
                                   WakeStatus')
         /\ status' \in FailsUnstarted =>
              WakeStatus' \in {"PREPARATION_FAILED", "CHECK_FAILED", "WORKER_UNTRUSTWORTHY"}
         /\ status' \in FailsStarted =>
              WakeStatus' \in {"BOUNDARY_INVALID", "CHECK_FAILED", "CHECK_UNTRUSTWORTHY",
                              "WORKER_UNTRUSTWORTHY"}
<1>1. phase' = "done" /\ status' \in FailsStarted \cup FailsUnstarted
  BY DEF EndsWith
<1>2. Over' /\ Failed' /\ WakePc' = "release"
  BY <1>1 DEF Over, Failed, WakePc, FailsStarted, FailsUnstarted
<1>3. WakePrint' = WakePrint
  BY <1>1, WhileItRuns DEF WakePrint, FailsStarted, FailsUnstarted
<1>4. WakeOutcome' = Wake!WorkerOutcome(WakeStatus')
  BY <1>1, <1>2
  DEF WakeOutcome, WakeStatus, Outcome, Wake!WorkerOutcome, FailsStarted, FailsUnstarted
<1>5. Evidence' = Wake!Ended(Evidence, Wake!WorkerOutcome(WakeStatus'), "worker_status", WakeStatus')
  BY <1>4, WhileItRuns, NewEvidence
<1>6. /\ status' \in FailsUnstarted =>
           WakeStatus' \in {"PREPARATION_FAILED", "CHECK_FAILED", "WORKER_UNTRUSTWORTHY"}
      /\ status' \in FailsStarted =>
           WakeStatus' \in {"BOUNDARY_INVALID", "CHECK_FAILED", "CHECK_UNTRUSTWORTHY",
                           "WORKER_UNTRUSTWORTHY"}
  BY DEF WakeStatus, FailsStarted, FailsUnstarted
<1> QED
  BY <1>2, <1>3, <1>4, <1>5, <1>6

LEMMA FailingUnstarted ==
  ASSUME TypeOK, StartInv, request' = request, phase # "done", ~started,
         EndsWith(FailsUnstarted)
  PROVE  Wake!PreparationFails(This)
<1>1. started' = started /\ repo' = repo /\ residue' = residue /\ ~residue
  BY DEF EndsWith, StartInv
<1>2. EndsWith(FailsStarted \cup FailsUnstarted) /\ status' \in FailsUnstarted
  BY DEF EndsWith
<1>3. WakePc = "prepare" /\ WakeFaults = 0
  BY WhileItRuns
<1>4. WakeTree' = WakeTree /\ WakeAhead' = WakeAhead /\ WakeBranch' = WakeBranch
  BY <1>1 DEF WakeTree, WakeAhead, WakeBranch, InPlace, Changes, Unstaged
<1>5. (Over /\ residue)' = (Over /\ residue)
  BY <1>1 DEF Over
<1>6. WakeFaults' = IF WakeTree \cup WakeAhead = {} THEN 1 ELSE 0
  BY <1>1, <1>2, <1>4, HasFailed DEF WakeFaults
<1> QED
  BY <1>1, <1>2, <1>3, <1>4, <1>5, <1>6, HasFailed, EndsUnstarted

LEMMA FailingStarted ==
  ASSUME TypeOK, WorkerInv', TypeOK', request' = request, phase # "done", started,
         EndsWith(FailsStarted)
  PROVE  Wake!NotValidated(This)
<1>1. started' = started /\ phase' = "done"
  BY DEF EndsWith
<1>2. EndsWith(FailsStarted \cup FailsUnstarted) /\ status' \in FailsStarted
  BY DEF EndsWith
<1>3. WakePc = "working" /\ WakeFaults = 0 /\ WakeTree = {This} /\ WakeAhead = {} /\ ~Over
  BY WhileItRuns
<1>4. WakeTree' = WakeTree /\ WakeAhead' \in {{}, {This}}
  BY <1>1, <1>3 DEF WakeTree, WakeAhead
<1>5. WakeFaults' = 1
  BY <1>1, <1>2, HasFailed DEF WakeFaults
<1>6. /\ (Over /\ residue)' \in BOOLEAN
      /\ (Over /\ residue)' => WakeStatus' \in {"CHECK_UNTRUSTWORTHY", "WORKER_UNTRUSTWORTHY"}
  BY <1>1 DEF TypeOK, WorkerInv, ResidueInv, WakeStatus
<1> QED
  BY <1>1, <1>2, <1>3, <1>4, <1>5, <1>6, HasFailed, EndsInvalid

LEMMA Validating ==
  ASSUME TypeOK, TypeOK', WorkerInv', foreign' = 0, request' = request, phase # "done", started,
         EndsWith({"VALIDATED"})
  PROVE  Wake!WorkerValidated(This)
<1>1. started' = started /\ phase' = "done" /\ status' = "VALIDATED"
  BY DEF EndsWith
<1>2. WakePc = "working" /\ WakeFaults = 0 /\ WakeTree = {This} /\ WakeAhead = {} /\ ~Over
  BY WhileItRuns
<1>3. Over' /\ ~Failed' /\ WakePc' = "publish" /\ WakeFaults' = 0 /\ WakeTree' = WakeTree
      /\ WakeOutcome' = "none" /\ WakeStatus' = "VALIDATED"
  BY <1>1 DEF Over, Failed, WakePc, WakeFaults, WakeTree, WakeOutcome, WakeStatus
<1>4. Evidence' = [Evidence EXCEPT !["worker_status"] = "VALIDATED"]
  BY <1>3, WhileItRuns, NewEvidence
<1>5. Fingerprinted' /\ InPlace'
  BY <1>1 DEF WorkerInv, EvidenceInv, ValidatedIsExact, Fingerprinted, InPlace, Changes, Unstaged
<1>6. WakePrint' = {This} /\ WakeAhead' = {}
  BY <1>1, <1>5 DEF WakePrint, WakeAhead
<1>8. WakeBranch' = WakeBranch
  <2>1. repo'.at = request'.branch
    BY <1>1 DEF WorkerInv, EvidenceInv, ValidatedIsExact
  <2> QED
    BY <2>1, WhileItRuns DEF WakeBranch
<1>7. (Over /\ residue)' = (Over /\ residue)
  BY <1>1, <1>2 DEF WorkerInv, ResidueInv
<1> QED
  BY <1>1, <1>2, <1>3, <1>4, <1>6, <1>7, <1>8, Validates
-----------------------------------------------------------------------------
(* The refinement. *)

LEMMA WorkStep ==
  ASSUME TypeOK, TypeOK', WorkerInv, WorkerInv', StartInv, [Next]_vars, foreign' = 0
  PROVE  Wake!Work(This) \/ UNCHANGED Wake!vars
<1>1. foreign = 0 /\ ~Interfere
  BY AloneBefore
<1>2. CASE UNCHANGED vars
  <2>1. request' = request /\ started' = started /\ WakePc' = WakePc /\ Evidence' = Evidence
        /\ WakePrint' = WakePrint /\ (Over /\ residue)' = (Over /\ residue)
    BY <1>2
    DEF vars, control, local, WakePc, Evidence, WakePrint, WakeOutcome, WakeStatus, Fingerprinted,
        Over, Failed, Changes, Unstaged
  <2>2. WakeTree' = WakeTree /\ WakeAhead' = WakeAhead /\ WakeBranch' = WakeBranch
    BY <1>2
    DEF vars, control, local, WakeTree, WakeAhead, WakeBranch, InPlace, Over, Changes, Unstaged
  <2>4. Failed' = Failed
    BY <1>2 DEF vars, control, Failed, Over
  <2>3. WakeFaults' = WakeFaults
    BY <1>2, <2>2 DEF vars, control, local, WakeFaults, Failed, Over
  <2> QED
    BY <2>1, <2>2, <2>3, <2>4, NothingHappens
<1>3. CASE Runner \/ Interrupt
  <2>1. phase # "done" /\ request' = request
    BY <1>3
    DEF Runner, Prepare, Inspect, Execute, Resolve, InitialInspection, CompareBranch, Switch,
        CreateBranch, Reinspect, ValidatePrepared, StartWorker, InspectHead, InspectBranch,
        InspectStaged, InspectUnstaged, ValidateBoundary, FingerprintPath, FingerprintDone,
        FingerprintFails, WorkerCompletes, WorkerUncertain, Judge, CheckCompletes,
        CheckUncertain, Raise, MayRaise, Interrupt
  <2>2. \/ StartWorker \/ GoesOn \/ SwitchesBranch
        \/ (~started /\ EndsWith(FailsUnstarted))
        \/ (started /\ EndsWith(FailsStarted \cup {"VALIDATED"}))
    <3>1. CASE StartWorker
      BY <3>1
    <3>2. CASE Prepare /\ ~StartWorker
      BY <1>1, <3>2, PreparingKinds DEF Prepare
    <3>3. CASE Inspect
      BY <3>3, ReadingKinds DEF Inspect, EndsWith
    <3>4. CASE Execute
      BY <3>4, ExecutingKinds DEF Execute
    <3>5. CASE Raise \/ Interrupt
      BY <3>5, RaisingKinds DEF EndsWith
    <3> QED
      BY <1>3, <3>1, <3>2, <3>3, <3>4, <3>5 DEF Runner
  <2>3. CASE StartWorker
    BY <1>1, <2>1, <2>3, WorkerStarts DEF Wake!Work
  <2>4. CASE GoesOn
    BY <2>1, <2>4, GoingOn
  <2>7. CASE SwitchesBranch
    BY <2>1, <2>7, Switching DEF Wake!Work
  <2>5. CASE ~started /\ EndsWith(FailsUnstarted)
    BY <2>1, <2>5, FailingUnstarted DEF Wake!Work
  <2>6. CASE started /\ EndsWith(FailsStarted \cup {"VALIDATED"})
    <3>1. EndsWith(FailsStarted) \/ EndsWith({"VALIDATED"})
      BY <2>6 DEF EndsWith
    <3> QED
      BY <2>1, <2>6, <3>1, FailingStarted, Validating DEF Wake!Work
  <2> QED
    BY <2>2, <2>3, <2>4, <2>5, <2>6, <2>7
<1> QED
  BY <1>1, <1>2, <1>3 DEF Next, Done

\* Whatever the worker and the checks do to a repository that nobody else
\* changes, run_runtime_worker is what the wake takes it for.
THEOREM WorkerImplementsWork == Spec => ImplementsWork
<1>1. /\ TypeOK /\ TypeOK' /\ WorkerInv /\ WorkerInv' /\ StartInv /\ [Next]_vars
      => [foreign' = 0 => Wake!Work(This) \/ UNCHANGED Wake!vars]_vars
  BY WorkStep
<1> QED
  BY <1>1, TypeCorrect, Invariance, StartedInPlace, PTL DEF Spec, ImplementsWork
=============================================================================
