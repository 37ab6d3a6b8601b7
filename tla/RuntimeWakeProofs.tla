-------------------------- MODULE RuntimeWakeProofs --------------------------
(***************************************************************************)
(* Theorems about RuntimeWake, for any number of wakes and checkpoints and *)
(* any number of failures.                                                 *)
(***************************************************************************)
EXTENDS RuntimeWake, FiniteSetTheorems, TLAPS

Marks == Wakes \cup {Left}
-----------------------------------------------------------------------------
(* Type correctness. *)

\* A fault is counted, or the step needs none.
LEMMA CostsTyped ==
  ASSUME TypeOK, NEW adverse \in BOOLEAN, Costs(adverse)
  PROVE  faults' \in 0..MaxFaults
  BY RuntimeWakeAssumption DEF TypeOK, Costs

\* The marks of a wake that is over are marks.
LEMMA OverTyped ==
  ASSUME TypeOK, NEW w \in Wakes,
         NEW branches \in [Checkpoints -> SUBSET Marks], Over(w, branches)
  PROVE  tree' \subseteq Marks /\ ahead' \in [Checkpoints -> SUBSET Marks]
  BY DEF TypeOK, Over, Aged, Marks

\* What an action forgets is of its type.
LEMMA ForgetsTyped ==
  ASSUME TypeOK, NEW w \in Wakes, Forgets(w)
  PROVE  /\ state' \in [Wakes -> [Checkpoints -> Stages]]
         /\ unit' \in [Wakes -> Checkpoints \cup {Nobody}]
         /\ print' \in [Wakes -> SUBSET (Wakes \cup {Left})]
  BY DEF TypeOK, Forgets, Unknown, Stages

\* A worker's commits are marked as its wake's.
LEMMA CommittedTyped ==
  ASSUME TypeOK, NEW w \in Wakes
  PROVE  Committed(w) \subseteq [Checkpoints -> SUBSET Marks]
  BY DEF TypeOK, Committed, Marks

\* What the refresher discovers are stages.
LEMMA DiscoveredTyped ==
  ASSUME TypeOK
  PROVE  Discovered \in [Checkpoints -> Stages]
  BY DEF TypeOK, Discovered, Stages

\* The evidence stays evidence when an outcome is set,
LEMMA OutcomeTyped ==
  ASSUME TypeOK, NEW w \in Wakes, NEW o \in Outcomes,
         ev' = [ev EXCEPT ![w].outcome = o]
  PROVE  ev' \in [Wakes -> WakeEvidence]
<1>1. ev[w] \in WakeEvidence
  BY DEF TypeOK
<1>2. [ev[w] EXCEPT !.outcome = o] \in WakeEvidence
  BY <1>1 DEF WakeEvidence
<1> QED
  BY <1>2 DEF TypeOK

\* when a status is recorded,
LEMMA RecordTyped ==
  ASSUME TypeOK, NEW w \in Wakes
  PROVE  /\ Record(w, "worker_attempts", 1) => ev' \in [Wakes -> WakeEvidence]
         /\ \A s \in FinalizerStatuses :
              Record(w, "finalizer_status", s) => ev' \in [Wakes -> WakeEvidence]
         /\ \A s \in WorkerStatuses :
              Record(w, "worker_status", s) => ev' \in [Wakes -> WakeEvidence]
<1>1. ev[w] \in WakeEvidence
  BY DEF TypeOK
<1>2. [ev[w] EXCEPT !["worker_attempts"] = 1] \in WakeEvidence
  BY <1>1 DEF WakeEvidence
<1>3. \A s \in FinalizerStatuses : [ev[w] EXCEPT !["finalizer_status"] = s] \in WakeEvidence
  BY <1>1 DEF WakeEvidence
<1>4. \A s \in WorkerStatuses : [ev[w] EXCEPT !["worker_status"] = s] \in WakeEvidence
  BY <1>1 DEF WakeEvidence
<1> QED
  BY <1>2, <1>3, <1>4 DEF TypeOK, Record

\* when the action ends,
LEMMA EndTyped ==
  ASSUME TypeOK, NEW w \in Wakes, NEW o \in Outcomes
  PROVE  /\ \A s \in FinalizerStatuses :
              End(w, o, "finalizer_status", s) => ev' \in [Wakes -> WakeEvidence]
         /\ \A s \in WorkerStatuses :
              End(w, o, "worker_status", s) => ev' \in [Wakes -> WakeEvidence]
         /\ \A s \in PublicationStatuses :
              End(w, o, "publication_status", s) => ev' \in [Wakes -> WakeEvidence]
<1>1. ev[w] \in WakeEvidence
  BY DEF TypeOK
<1>2. \A s \in FinalizerStatuses : Ended(ev[w], o, "finalizer_status", s) \in WakeEvidence
  BY <1>1 DEF WakeEvidence, Ended
<1>3. \A s \in WorkerStatuses : Ended(ev[w], o, "worker_status", s) \in WakeEvidence
  BY <1>1 DEF WakeEvidence, Ended
<1>4. \A s \in PublicationStatuses : Ended(ev[w], o, "publication_status", s) \in WakeEvidence
  BY <1>1 DEF WakeEvidence, Ended
<1> QED
  BY <1>2, <1>3, <1>4 DEF TypeOK, End

\* and when there is none yet.
LEMMA NoEvidenceTyped == NoEvidence \in WakeEvidence
  BY DEF NoEvidence, WakeEvidence, Outcomes, FinalizerStatuses, WorkerStatuses, PublicationStatuses

\* What every module that extends the state must keep.
LEMMA TypeStep ==
  ASSUME TypeOK, [Next]_vars
  PROVE  TypeOK'
<1> USE DEF Marks, Places
<1>1. ASSUME NEW w \in Wakes, Step(w)
      PROVE  TypeOK'
  <2>2. CASE Acquire(w)
    BY <2>2 DEF TypeOK, Acquire, Goto, local, checkout, Acting
  <2>3. CASE Contended(w)
    BY <2>3, OutcomeTyped DEF TypeOK, Contended, Goto, local, checkout, Outcomes
  <2>4. CASE Refresh(w)
    BY <2>4, DiscoveredTyped DEF TypeOK, Refresh, Goto, checkout, Acting
  <2>5. CASE RecoveryUncertain(w)
    BY ForgetsTyped, <2>5, CostsTyped, OutcomeTyped DEF TypeOK, RecoveryUncertain, PossiblePriorWorker, Returns, Goto, checkout, Outcomes
  <2>6. CASE NoFinalization(w)
    BY <2>6, CostsTyped, RecordTyped DEF TypeOK, NoFinalization, Goto, local, checkout, Acting, FinalizerStatuses
  <2>7. ASSUME NEW c \in Checkpoints, FinalizerCompletes(w, c)
        PROVE  TypeOK'
    <3>1. ev' \in [Wakes -> WakeEvidence]
      BY <2>7, RecordTyped DEF FinalizerCompletes, FinalizerStatuses
    <3>2. stage' \in [Checkpoints -> Stages]
      BY <2>7 DEF TypeOK, FinalizerCompletes, Finalizes, Stages
    <3>3. effects' \in [Wakes -> SUBSET {"worker", "pushed", "closed", "merged"}]
      <4>1. \E e \in {"closed", "merged"} : effects' = [effects EXCEPT ![w] = @ \cup {e}]
        BY <2>7 DEF FinalizerCompletes, Finalizes, Effect
      <4> QED
        BY <4>1 DEF TypeOK
    <3> QED
      BY <2>7, <3>1, <3>2, <3>3 DEF TypeOK, FinalizerCompletes, AfterFinalization, Goto, local, checkout, Acting
  <2>8. ASSUME NEW c \in Checkpoints, FinalizerFails(w, c)
        PROVE  TypeOK'
    <3>1. faults' \in 0..MaxFaults
      BY <2>8, CostsTyped DEF FinalizerFails, CleanAt
    <3>2. tree' \subseteq Marks /\ ahead' \in [Checkpoints -> SUBSET Marks]
      BY <2>8 DEF TypeOK, FinalizerFails
    <3> QED
      BY ForgetsTyped, <2>8, <3>1, <3>2, EndTyped DEF TypeOK, FinalizerFails, End, Goto, FinalizerStatuses, Outcomes
  <2>9. CASE NothingToDo(w)
    <3>1. PICK d \in {"NO_OP", "BLOCKED"} :
            Returns(w, CoordinatedOutcome(w, d))
      BY <2>9 DEF NothingToDo
    <3>2. CoordinatedOutcome(w, d) \in Outcomes
      BY DEF CoordinatedOutcome, Outcomes
    <3> QED
      BY ForgetsTyped, <2>9, <3>1, <3>2, CostsTyped, OutcomeTyped DEF TypeOK, Returns, NothingToDo, Goto, checkout
  <2>10. ASSUME NEW c \in Checkpoints, Transition(w, c)
         PROVE  TypeOK'
    BY <2>10, CostsTyped, RecordTyped DEF TypeOK, Transition, Goto, checkout, Acting
  <2>11. CASE PreparationFails(w)
    <3>1. ev' \in [Wakes -> WakeEvidence]
      BY <2>11, EndTyped DEF PreparationFails, WorkerOutcome, WorkerStatuses, Outcomes
    <3>2. faults' \in 0..MaxFaults
      BY <2>11, CostsTyped DEF PreparationFails, Prepared
    <3> QED
      BY ForgetsTyped, <2>11, <3>1, <3>2 DEF TypeOK, PreparationFails, End, Goto, checkout
  <2>25. CASE SwitchBranch(w)
    BY <2>25 DEF TypeOK, SwitchBranch, local
  <2>12. CASE StartWorker(w)
    BY <2>12 DEF TypeOK, StartWorker, Effect, Goto, local, Acting
  <2>13. CASE WorkerValidated(w)
    <3>1. ev' \in [Wakes -> WakeEvidence]
      BY <2>13, RecordTyped DEF WorkerValidated, WorkerStatuses
    <3>2. ahead' \in [Checkpoints -> SUBSET Marks]
      BY <2>13, CommittedTyped DEF WorkerValidated
    <3>3. print' \in [Wakes -> SUBSET Marks]
      BY <2>13 DEF TypeOK, WorkerValidated
    <3> QED
      BY <2>13, <3>1, <3>2, <3>3, CostsTyped DEF TypeOK, WorkerValidated, Goto, Acting
  <2>14. CASE NotValidated(w)
    <3>1. ev' \in [Wakes -> WakeEvidence]
      BY <2>14, EndTyped DEF NotValidated, WorkerOutcome, WorkerStatuses, Outcomes
    <3>2. ahead' \in [Checkpoints -> SUBSET Marks]
      BY <2>14, CommittedTyped DEF NotValidated
    <3> QED
      BY ForgetsTyped, <2>14, <3>1, <3>2, CostsTyped DEF TypeOK, NotValidated, End, Goto
  <2>15. CASE NotCommitted(w)
    BY ForgetsTyped, <2>15, CostsTyped, EndTyped DEF TypeOK, NotCommitted, End, Goto, checkout, PublicationStatuses, Outcomes
  <2>16. CASE Commit(w)
    <3>1. PICK hook \in {{}, {Left}} :
            /\ Costs(hook # {})
            /\ ahead' = [ahead EXCEPT ![unit[w]] = @ \cup tree \cup hook]
            /\ tree' \in IF hook = {} THEN {{}} ELSE {{}, tree}
      BY <2>16 DEF Commit
    <3>2. tree' \subseteq Marks /\ ahead' \in [Checkpoints -> SUBSET Marks]
      BY <3>1 DEF TypeOK
    <3>3. faults' \in 0..MaxFaults
      BY <3>1, CostsTyped
    <3> QED
      BY <2>16, <3>2, <3>3 DEF TypeOK, Commit, Goto, local, Acting
  <2>17. CASE NotPushed(w)
    BY ForgetsTyped, <2>17, CostsTyped, EndTyped DEF TypeOK, NotPushed, CommitVerified, End, Goto, checkout, PublicationStatuses, Outcomes
  <2>18. CASE Push(w)
    BY <2>18 DEF TypeOK, Push, Pushes, Effect, Goto, local, Acting, Stages
  <2>19. CASE PushUncertain(w)
    <3>1. stage' \in [Checkpoints -> Stages]
      BY <2>19 DEF TypeOK, PushUncertain, Pushes, Stages
    <3>2. ahead' \in [Checkpoints -> SUBSET Marks]
      BY <2>19 DEF TypeOK, PushUncertain, Pushes
    <3>3. effects' \in [Wakes -> SUBSET {"worker", "pushed", "closed", "merged"}]
      BY <2>19 DEF TypeOK, PushUncertain, Pushes, Effect
    <3> QED
      BY ForgetsTyped, <2>19, <3>1, <3>2, <3>3, CostsTyped, EndTyped DEF TypeOK, PushUncertain, End, Goto, PublicationStatuses, Outcomes
  <2>24. CASE Open(w)
    BY <2>24 DEF TypeOK, Open, Opens, Stages, local, checkout
  <2>20. CASE Verify(w)
    BY ForgetsTyped, <2>20, EndTyped DEF TypeOK, Verify, End, Goto, checkout, PublicationStatuses, Outcomes
  <2>21. CASE VerifyUncertain(w)
    <3>1. stage' \in [Checkpoints -> Stages]
      BY <2>21 DEF TypeOK, VerifyUncertain, Opens, Stages
    <3> QED
      BY ForgetsTyped, <2>21, <3>1, CostsTyped, EndTyped DEF TypeOK, VerifyUncertain, End, Goto, checkout, PublicationStatuses, Outcomes
  <2>22. CASE Release(w)
    <3>1. ahead \in [Checkpoints -> SUBSET Marks]
      BY DEF TypeOK
    <3> QED
      BY <2>22, <3>1, OverTyped DEF TypeOK, Release, Goto, local
  <2>23. CASE Report(w)
    BY <2>23, NoEvidenceTyped DEF TypeOK, Report, Goto, local, checkout
  <2> QED
    BY <1>1, <2>2, <2>3, <2>4, <2>5, <2>6, <2>7, <2>8, <2>9, <2>10, <2>11, <2>12,
       <2>13, <2>14, <2>15, <2>16, <2>17, <2>18, <2>19, <2>20, <2>21, <2>22, <2>23, <2>24, <2>25
    DEF Step, Prepass, Coordinate, Work, Publish
<1>2. ASSUME NEW w \in Wakes, Disturb(w)
      PROVE  TypeOK'
  <2>1. CASE NoTransport(w)
    BY ForgetsTyped, <2>1, CostsTyped, EndTyped DEF TypeOK, NoTransport, End, Goto, checkout, FinalizerStatuses, Outcomes
  <2>2. CASE InvalidTransition(w)
    BY ForgetsTyped, <2>2, CostsTyped, OutcomeTyped DEF TypeOK, Returns, InvalidTransition, Goto, checkout, Outcomes
  <2>3. CASE ReleaseFails(w)
    <3>1. ahead \in [Checkpoints -> SUBSET Marks]
      BY DEF TypeOK
    <3> QED
      BY <2>3, <3>1, CostsTyped, OverTyped, OutcomeTyped DEF TypeOK, ReleaseFails, Goto, local, Outcomes
  <2>4. CASE Interrupt(w)
    <3>1. /\ ahead' \in [Checkpoints -> SUBSET Marks]
          /\ residue' \in BOOLEAN /\ branch' \in Places
      BY <2>4, CommittedTyped DEF TypeOK, Interrupt, Leaves
    <3> QED
      BY ForgetsTyped, <2>4, <3>1, CostsTyped, OutcomeTyped DEF TypeOK, Interrupt, Returns, Goto, Outcomes
  <2>5. CASE Crash(w)
    <3>1. PICK branches \in Committed(w) : Leaves(w, branches) /\ Over(w, branches)
      BY <2>5 DEF Crash
    <3>2. /\ branches \in [Checkpoints -> SUBSET Marks]
          /\ residue' \in BOOLEAN /\ branch' \in Places
      BY <3>1, CommittedTyped DEF TypeOK, Leaves
    <3> QED
      BY <2>5, <3>1, <3>2, CostsTyped, OverTyped, ForgetsTyped, NoEvidenceTyped DEF TypeOK, Crash, Goto
  <2>6. ASSUME NEW c \in Checkpoints, FinalizerUncertain(w, c)
        PROVE  TypeOK'
    <3>1. stage' \in [Checkpoints -> Stages]
      BY <2>6 DEF TypeOK, FinalizerUncertain, Finalizes, Stages
    <3>2. tree' = tree /\ branch' = branch /\ ahead' \in [Checkpoints -> SUBSET Marks]
      BY <2>6 DEF TypeOK, FinalizerUncertain, checkout
    <3>3. effects' \in [Wakes -> SUBSET {"worker", "pushed", "closed", "merged"}]
      BY <2>6 DEF TypeOK, FinalizerUncertain, Finalizes, Effect
    <3> QED
      BY ForgetsTyped, <2>6, <3>1, <3>2, <3>3, CostsTyped, EndTyped DEF TypeOK, FinalizerUncertain, End, Goto, FinalizerStatuses, Outcomes
  <2> QED
    BY <1>2, <2>1, <2>2, <2>3, <2>4, <2>5, <2>6 DEF Disturb
<1>3. CASE ResidueWrites
  BY <1>3 DEF TypeOK, ResidueWrites, wakes, local
<1>4. CASE ResidueEnds
  BY <1>4 DEF TypeOK, ResidueEnds, wakes, local, checkout
<1>5. CASE Approve
  BY <1>5 DEF TypeOK, Approve, wakes, local, checkout, Stages
<1>6. CASE Object
  BY <1>6, CostsTyped DEF TypeOK, Object, wakes, local, checkout, Stages
<1>7. CASE Unlock
  BY <1>7 DEF TypeOK, Unlock, local, checkout
<1>8. CASE Restore
  BY <1>8, DiscoveredTyped DEF TypeOK, Restore, wakes, local
<1>10. ASSUME NEW c \in Checkpoints, CheckOut(c)
       PROVE  TypeOK'
  BY <1>10 DEF TypeOK, CheckOut, wakes, local
<1>9. CASE UNCHANGED vars
  BY <1>9 DEF TypeOK, vars, wakes, local, checkout
<1> QED
  BY <1>1, <1>2, <1>3, <1>4, <1>5, <1>6, <1>7, <1>8, <1>9, <1>10 DEF Next

\* The types hold at first.
LEMMA TypeInit ==
  ASSUME Init
  PROVE  TypeOK
<1> USE DEF Init
<1>1. /\ pc \in [Wakes -> Acting \cup {"idle", "release", "report"}]
      /\ effects \in [Wakes -> SUBSET {"worker", "pushed", "closed", "merged"}]
      /\ unit \in [Wakes -> Checkpoints \cup {Nobody}]
  OBVIOUS
<1>2. /\ state \in [Wakes -> [Checkpoints -> Stages]]
      /\ stage \in [Checkpoints -> Stages]
  BY DEF Unknown, Stages
<1>3. /\ print \in [Wakes -> SUBSET (Wakes \cup {Left})]
      /\ ahead \in [Checkpoints -> SUBSET (Wakes \cup {Left})]
  OBVIOUS
<1>4. ev \in [Wakes -> WakeEvidence]
  BY NoEvidenceTyped
<1>5. /\ holder \in Wakes \cup {Nobody, Left}
      /\ tree \subseteq Wakes \cup {Left}
      /\ residue \in BOOLEAN
      /\ branch \in Places
  BY DEF Places
<1>6. faults \in 0..MaxFaults
  BY RuntimeWakeAssumption
<1> QED
  BY <1>1, <1>2, <1>3, <1>4, <1>5, <1>6 DEF TypeOK

\* The state, the evidence and the counters of every wake are of their types;
\* no wake ever counts a second worker attempt.
THEOREM TypeCorrect == Spec => []TypeOK
  BY TypeInit, TypeStep, PTL DEF Spec
-----------------------------------------------------------------------------
(* The inductive invariant, a conjunction over the wakes.                  *)

\* Stages that a checkpoint may reach without the wake that has seen it.
Later(s) ==
  IF s = "ready" THEN {"ready", "pushed"}
  ELSE IF s \in {"published", "approved"} THEN {"published", "approved"} ELSE {s}

\* A wake acts under the lock, and after its refresh beside no worker that was
\* left behind.
Alone(w) ==
  /\ pc[w] \in Acting \cup {"release"} => holder = w
  /\ pc[w] \in Acting \ {"refresh"} => ~residue

\* The stages at which a wake has a checkpoint worked on.
Directing == {"prepare", "working", "publish", "push", "verify"}

\* A checkpoint is chosen with the transition and forgotten with the action.
Chosen(w) == pc[w] \notin Directing => unit[w] = Nobody

\* Nothing is closed behind the back of a wake.
Seen(w) ==
  /\ pc[w] \in {"prepass", "coordinate"} =>
       \A c \in Checkpoints : stage[c] \in Later(state[w][c])
  /\ pc[w] \in Directing =>
       unit[w] \in Checkpoints /\ stage[unit[w]] \in {"ready", "pushed", "published", "approved"}

\* The changes and the commit are those of its own worker.
OwnWork(w) ==
  /\ pc[w] = "working" => tree = {w} /\ ahead[unit[w]] = {}
  /\ pc[w] = "publish" => /\ print[w] = {w} /\ ahead[unit[w]] = {}
                          /\ ev[w].worker_status = "VALIDATED"
  /\ pc[w] = "push" => /\ print[w] = {w}
                       /\ ev[w].worker_status = "VALIDATED"

\* What a wake has done so far is what its evidence says at that stage.
Recorded(w) ==
  /\ pc[w] \in {"idle", "refresh", "prepass"} => effects[w] = {} /\ ev[w] = NoEvidence
  /\ pc[w] \in {"refresh_again", "coordinate", "prepare"} => effects[w] = Announced(w)
  /\ pc[w] \in {"working", "publish", "push"} => effects[w] = Announced(w) \cup {"worker"}
  /\ pc[w] = "verify" => effects[w] = Announced(w) \cup {"worker", "pushed"}
  /\ pc[w] \in {"prepare", "working", "publish", "push", "verify"} => ev[w].worker_attempts = 1
  /\ pc[w] \in {"release", "report"} => Honest(w)

WakeInv(w) == Alone(w) /\ Chosen(w) /\ Seen(w) /\ OwnWork(w) /\ Recorded(w)

Inv == TypeOK /\ \A w \in Wakes : WakeInv(w)

\* What the evidence says when the action has ended,
LEMMA EndFields ==
  ASSUME TypeOK, NEW w \in Wakes, NEW o, NEW s
  PROVE  /\ End(w, o, "finalizer_status", s) =>
              /\ ev'[w].outcome = o /\ ev'[w].finalizer_status = s
              /\ ev'[w].worker_attempts = ev[w].worker_attempts
         /\ End(w, o, "worker_status", s) =>
              /\ ev'[w].outcome = o /\ ev'[w].finalizer_status = ev[w].finalizer_status
              /\ ev'[w].worker_attempts = ev[w].worker_attempts
         /\ End(w, o, "publication_status", s) =>
              /\ ev'[w].outcome = o /\ ev'[w].finalizer_status = ev[w].finalizer_status
              /\ ev'[w].worker_attempts = ev[w].worker_attempts
              /\ ev'[w].publication_status = s
<1>1. ev[w] \in WakeEvidence
  BY DEF TypeOK
<1>2. \A e \in WakeEvidence :
        /\ Ended(e, o, "finalizer_status", s).outcome = o
        /\ Ended(e, o, "finalizer_status", s).finalizer_status = s
        /\ Ended(e, o, "finalizer_status", s).worker_attempts = e.worker_attempts
  BY DEF Ended, WakeEvidence
<1>3. \A e \in WakeEvidence :
        /\ Ended(e, o, "worker_status", s).outcome = o
        /\ Ended(e, o, "worker_status", s).finalizer_status = e.finalizer_status
        /\ Ended(e, o, "worker_status", s).worker_attempts = e.worker_attempts
  BY DEF Ended, WakeEvidence
<1>4. \A e \in WakeEvidence :
        /\ Ended(e, o, "publication_status", s).outcome = o
        /\ Ended(e, o, "publication_status", s).finalizer_status = e.finalizer_status
        /\ Ended(e, o, "publication_status", s).worker_attempts = e.worker_attempts
        /\ Ended(e, o, "publication_status", s).publication_status = s
  BY DEF Ended, WakeEvidence
<1> QED
  BY <1>1, <1>2, <1>3, <1>4 DEF End, Forgets, TypeOK

\* when only its outcome has been set,
LEMMA OutcomeFields ==
  ASSUME TypeOK, NEW w \in Wakes, NEW o, ev' = [ev EXCEPT ![w].outcome = o]
  PROVE  /\ ev'[w].outcome = o /\ ev'[w].finalizer_status = ev[w].finalizer_status
         /\ ev'[w].worker_attempts = ev[w].worker_attempts
  BY DEF TypeOK, WakeEvidence

\* and when a status has been recorded.
LEMMA RecordFields ==
  ASSUME TypeOK, NEW w \in Wakes, NEW s
  PROVE  /\ Record(w, "worker_attempts", s) =>
              /\ ev'[w].worker_attempts = s /\ ev'[w].finalizer_status = ev[w].finalizer_status
         /\ Record(w, "finalizer_status", s) => ev'[w].finalizer_status = s
         /\ Record(w, "worker_status", s) =>
              /\ ev'[w].worker_status = s /\ ev'[w].finalizer_status = ev[w].finalizer_status
              /\ ev'[w].worker_attempts = ev[w].worker_attempts
  BY DEF TypeOK, WakeEvidence, Record

\* What a wake announces is one effect or none.
LEMMA AnnouncedCases ==
  ASSUME NEW w \in Wakes
  PROVE  /\ ev[w].finalizer_status = "CLOSURE_PUBLISHED" => Announced(w) = {"closed"}
         /\ ev[w].finalizer_status = "MERGED" => Announced(w) = {"merged"}
         /\ ev[w].finalizer_status \notin {"CLOSURE_PUBLISHED", "MERGED"} => Announced(w) = {}
  BY DEF Announced

\* A wake that has released the repository, or is about to, need only be honest.
LEMMA EndsWell ==
  ASSUME NEW w \in Wakes, WakeInv(w), pc[w] \in Acting, holder' = holder,
         pc'[w] = "release", unit'[w] = Nobody, Honest(w)'
  PROVE  WakeInv(w)'
  BY DEF WakeInv, Alone, Chosen, Directing, Seen, OwnWork, Recorded, Acting

\* An uncertain outcome is honest as long as a worker is counted.
LEMMA UncertainIsHonest ==
  ASSUME NEW w \in Wakes, ev[w].outcome = "INTERRUPTED",
         "worker" \in effects[w] => ev[w].worker_attempts = 1
  PROVE  Honest(w)
  BY DEF Honest

\* While a wake acts a worker of its is counted.
LEMMA WorkerIsCounted ==
  ASSUME NEW w \in Wakes, Recorded(w), pc[w] \in Acting, "worker" \in effects[w]
  PROVE  ev[w].worker_attempts = 1
  BY AnnouncedCases DEF Recorded, Acting
-----------------------------------------------------------------------------
(* The steps of a wake keep the invariant of every wake. *)

\* A wake writes nothing of another one.
LEMMA OthersKeep ==
  ASSUME TypeOK, NEW w \in Wakes, NEW v \in Wakes, v # w, Step(w) \/ Disturb(w)
  PROVE  /\ pc'[v] = pc[v] /\ ev'[v] = ev[v] /\ effects'[v] = effects[v]
         /\ state'[v] = state[v] /\ unit'[v] = unit[v] /\ print'[v] = print[v]
<1> USE DEF TypeOK
<1>1. ASSUME Acquire(w) \/ Contended(w) \/ Refresh(w) \/ RecoveryUncertain(w)
      PROVE  /\ pc'[v] = pc[v] /\ ev'[v] = ev[v] /\ effects'[v] = effects[v]
             /\ state'[v] = state[v] /\ unit'[v] = unit[v] /\ print'[v] = print[v]
  BY <1>1 DEF Acquire, Contended, Refresh, RecoveryUncertain, Returns, Forgets, Goto, local
<1>2. ASSUME Prepass(w)
      PROVE  /\ pc'[v] = pc[v] /\ ev'[v] = ev[v] /\ effects'[v] = effects[v]
             /\ state'[v] = state[v] /\ unit'[v] = unit[v] /\ print'[v] = print[v]
  BY <1>2 DEF Prepass, NoFinalization, FinalizerCompletes, FinalizerFails, Finalizes,
              Record, Effect, End, Forgets, Goto, local
<1>3. ASSUME Coordinate(w) \/ Work(w)
      PROVE  /\ pc'[v] = pc[v] /\ ev'[v] = ev[v] /\ effects'[v] = effects[v]
             /\ state'[v] = state[v] /\ unit'[v] = unit[v] /\ print'[v] = print[v]
  BY <1>3 DEF Coordinate, NothingToDo, Returns, Forgets, Transition, Work, SwitchBranch, PreparationFails, StartWorker,
              WorkerValidated, NotValidated, Record, Effect, End, Forgets, Goto, local
<1>4. ASSUME Publish(w)
      PROVE  /\ pc'[v] = pc[v] /\ ev'[v] = ev[v] /\ effects'[v] = effects[v]
             /\ state'[v] = state[v] /\ unit'[v] = unit[v] /\ print'[v] = print[v]
  BY <1>4 DEF Publish, NotCommitted, Commit, NotPushed, Push, PushUncertain, Pushes, Open,
              Verify, VerifyUncertain, Effect, End, Forgets, Goto, local
<1>5. ASSUME Release(w) \/ Report(w) \/ ReleaseFails(w) \/ Crash(w)
      PROVE  /\ pc'[v] = pc[v] /\ ev'[v] = ev[v] /\ effects'[v] = effects[v]
             /\ state'[v] = state[v] /\ unit'[v] = unit[v] /\ print'[v] = print[v]
  BY <1>5 DEF Release, Report, ReleaseFails, Crash, Over, Forgets, Goto, local
<1>6. ASSUME \/ NoTransport(w) \/ InvalidTransition(w) \/ Interrupt(w)
             \/ \E c \in Checkpoints : FinalizerUncertain(w, c)
      PROVE  /\ pc'[v] = pc[v] /\ ev'[v] = ev[v] /\ effects'[v] = effects[v]
             /\ state'[v] = state[v] /\ unit'[v] = unit[v] /\ print'[v] = print[v]
  BY <1>6 DEF NoTransport, InvalidTransition, Interrupt, Returns, Forgets, FinalizerUncertain, Finalizes,
              Effect, End, Forgets, Goto, local
<1> QED
  BY <1>1, <1>2, <1>3, <1>4, <1>5, <1>6 DEF Step, Disturb

\* A wake that does not act changes nothing shared, but may take a free lock.
LEMMA SharedKept ==
  ASSUME TypeOK, NEW w \in Wakes, Step(w) \/ Disturb(w), pc[w] \notin Acting \cup {"release"}
  PROVE  /\ tree' = tree /\ ahead' = ahead /\ stage' = stage /\ residue' = residue
         /\ holder' = holder \/ holder = Nobody
<1>1. Acquire(w) \/ Contended(w) \/ Report(w)
  BY DEF Step, Disturb, Refresh, RecoveryUncertain, Prepass, NoFinalization, FinalizerCompletes,
         FinalizerFails, Finalizes, Coordinate, NothingToDo, Transition, Work, SwitchBranch, PreparationFails,
         StartWorker, WorkerValidated, NotValidated, Publish, NotCommitted, Commit, NotPushed, Push,
         PushUncertain, Open, Verify, VerifyUncertain, Release, NoTransport,
         InvalidTransition, ReleaseFails, Interrupt, Crash, FinalizerUncertain, Acting
<1> QED
  BY <1>1 DEF Acquire, Contended, Report, checkout

\* So the invariant of the other wakes is kept.
LEMMA OthersStep ==
  ASSUME TypeOK, NEW w \in Wakes, NEW v \in Wakes, v # w, WakeInv(v), WakeInv(w),
         Step(w) \/ Disturb(w)
  PROVE  WakeInv(v)'
<1>1. /\ pc'[v] = pc[v] /\ ev'[v] = ev[v] /\ effects'[v] = effects[v]
      /\ state'[v] = state[v] /\ unit'[v] = unit[v] /\ print'[v] = print[v]
  BY OthersKeep
<1>2. Recorded(v)'
  BY <1>1 DEF WakeInv, Recorded, Announced, Honest
<1>3. CASE pc[w] \in Acting \cup {"release"}
  <2>1. pc[v] \notin Acting \cup {"release"}
    BY <1>3 DEF WakeInv, Alone
  <2> QED
    BY <1>1, <1>2, <2>1 DEF WakeInv, Alone, Chosen, Directing, Seen, OwnWork, Acting
<1>4. CASE pc[w] \notin Acting \cup {"release"}
  <2>1. /\ tree' = tree /\ ahead' = ahead /\ stage' = stage /\ residue' = residue
        /\ holder' = holder \/ holder = Nobody
    BY <1>4, SharedKept
  <2>2. holder = v => holder' = v
    BY <2>1, RuntimeWakeAssumption
  <2> QED
    BY <1>1, <1>2, <2>1, <2>2 DEF WakeInv, Alone, Chosen, Directing, Seen, OwnWork
<1> QED
  BY <1>3, <1>4

\* A wake keeps its own invariant
LEMMA OwnStep ==
  ASSUME TypeOK, NEW w \in Wakes, WakeInv(w), Step(w)
  PROVE  WakeInv(w)'
<1>a. Recorded(w)
  BY DEF WakeInv
<1>2. CASE Acquire(w)
  BY <1>2 DEF TypeOK, Acquire, Goto, local, WakeInv, Alone, Chosen, Directing, Seen, OwnWork, Recorded, Acting
<1>3. CASE Contended(w)
  <2>1. pc'[w] = "report" /\ effects'[w] = {}
    BY <1>3, <1>a DEF TypeOK, Contended, Goto, Recorded
  <2>2. ev[w].finalizer_status = "none"
    BY <1>3, <1>a DEF Contended, Recorded, NoEvidence
  <2>3. ev'[w].outcome = "RUNTIME_FAILURE" /\ ev'[w].finalizer_status = "none"
    BY <1>3, <2>2, OutcomeFields DEF Contended
  <2>4. Honest(w)'
    BY <2>1, <2>3 DEF Honest, Announced
  <2> QED
    BY <1>3, <2>1, <2>4
    DEF Contended, local, WakeInv, Alone, Chosen, Directing, Seen, OwnWork, Recorded, Acting
<1>4. CASE Refresh(w)
  <2>1. pc'[w] \in {"prepass", "coordinate"} /\ (pc'[w] = "prepass" => pc[w] = "refresh")
        /\ (pc'[w] = "coordinate" => pc[w] = "refresh_again")
    BY <1>4 DEF TypeOK, Refresh, Goto
  <2>2. \A c \in Checkpoints : stage'[c] \in Later(state'[w][c])
    BY <1>4 DEF TypeOK, Refresh, Discovered, Later, Stages
  <2>3. Recorded(w)'
    BY <1>4, <1>a, <2>1 DEF Refresh, Recorded, Announced
  <2> QED
    BY <1>4, <2>1, <2>2, <2>3 DEF WakeInv, Refresh, PossiblePriorWorker, Alone, Chosen, Directing, Seen, OwnWork, Acting
<1>5. CASE RecoveryUncertain(w)
  <2>1. Honest(w)'
    BY <1>5, <1>a, OutcomeFields, WorkerIsCounted DEF RecoveryUncertain, Returns, Forgets, Honest, Acting
  <2> QED
    BY <1>5, <2>1, EndsWell DEF TypeOK, RecoveryUncertain, Returns, Forgets, Goto, Acting
<1>6. CASE NoFinalization(w)
  <2>1. pc[w] = "prepass" /\ pc'[w] = "coordinate"
    BY <1>6 DEF TypeOK, NoFinalization, Goto
  <2>2. Recorded(w)'
    BY <1>6, <1>a, <2>1, RecordFields DEF NoFinalization, Recorded, Announced
  <2> QED
    BY <1>6, <2>1, <2>2 DEF WakeInv, NoFinalization, Alone, Chosen, Directing, Seen, OwnWork, local, Acting
<1>7. ASSUME NEW c \in Checkpoints, FinalizerCompletes(w, c)
      PROVE  WakeInv(w)'
  <2>1. pc[w] = "prepass" /\ pc'[w] = "refresh_again" /\ holder' = holder /\ residue' = residue
    BY <1>7 DEF TypeOK, FinalizerCompletes, AfterFinalization, Finalizes, Goto
  <2>2. \/ effects'[w] = {"closed"} /\ ev'[w].finalizer_status = "CLOSURE_PUBLISHED"
        \/ effects'[w] = {"merged"} /\ ev'[w].finalizer_status = "MERGED"
    BY <1>7, <1>a, RecordFields DEF TypeOK, FinalizerCompletes, Finalizes, Effect, Recorded
  <2>3. Recorded(w)'
    BY <2>1, <2>2 DEF Recorded, Announced
  <2> QED
    BY <1>7, <2>1, <2>3
    DEF FinalizerCompletes, local, WakeInv, Alone, Chosen, Directing, Seen, OwnWork, Acting
<1>8. ASSUME NEW c \in Checkpoints, FinalizerFails(w, c)
      PROVE  WakeInv(w)'
  <2>1. pc[w] = "prepass" /\ effects'[w] = {}
    BY <1>8, <1>a DEF FinalizerFails, Recorded
  <2>2. ev'[w].outcome = "RUNTIME_FAILURE" /\ ev'[w].finalizer_status = "RUNTIME_FAILURE"
    BY <1>8, EndFields DEF FinalizerFails
  <2>3. Honest(w)'
    BY <2>1, <2>2 DEF Honest, Announced
  <2> QED
    BY <1>8, <2>1, <2>3, EndsWell DEF TypeOK, FinalizerFails, End, Forgets, Goto, Acting
<1>9. CASE NothingToDo(w)
  <2>1. PICK d \in {"NO_OP", "BLOCKED"} :
          Returns(w, CoordinatedOutcome(w, d))
    BY <1>9 DEF NothingToDo
  <2>2. ev'[w].outcome = CoordinatedOutcome(w, d) /\ ev'[w].finalizer_status = ev[w].finalizer_status
    BY <2>1, OutcomeFields DEF Returns
  <2>3. effects'[w] = effects[w] /\ effects[w] = Announced(w) /\ Announced(w)' = Announced(w)
    BY <1>9, <1>a, <2>2 DEF NothingToDo, Recorded, Announced
  <2>4. Honest(w)'
    BY <2>2, <2>3, AnnouncedCases DEF Honest, CoordinatedOutcome
  <2> QED
    BY <1>9, <2>4, EndsWell DEF TypeOK, NothingToDo, Returns, Forgets, Goto, Acting
<1>10. ASSUME NEW c \in Checkpoints, Transition(w, c)
       PROVE  WakeInv(w)'
  <2>1. /\ pc[w] = "coordinate" /\ pc'[w] = "prepare" /\ unit'[w] = c
        /\ holder' = holder /\ residue' = residue /\ stage' = stage
    BY <1>10 DEF TypeOK, Transition, Goto
  <2>2. stage[c] \in {"ready", "pushed", "published", "approved"}
    BY <1>10, <2>1 DEF Transition, WakeInv, Directing, Seen, Later
  <2>3. Recorded(w)'
    BY <1>10, <1>a, <2>1, RecordFields DEF Transition, Recorded, Announced
  <2> QED
    BY <2>1, <2>2, <2>3 DEF WakeInv, Alone, Chosen, Directing, Seen, OwnWork, Acting
<1>11. CASE PreparationFails(w)
  <2>1. /\ pc[w] = "prepare" /\ effects'[w] = Announced(w)
        /\ ev'[w].outcome \in {"RUNTIME_FAILURE", "INTERRUPTED"}
        /\ ev'[w].finalizer_status = ev[w].finalizer_status
    BY <1>11, <1>a, EndFields DEF PreparationFails, WorkerOutcome, Recorded
  <2>2. Honest(w)'
    BY <2>1, AnnouncedCases DEF Honest, Announced
  <2> QED
    BY <1>11, <2>1, <2>2, EndsWell DEF TypeOK, PreparationFails, End, Forgets, Goto, Acting
<1>25. CASE SwitchBranch(w)
  <2>1. Recorded(w)'
    BY <1>25, <1>a DEF SwitchBranch, Recorded, Announced
  <2> QED
    BY <1>25, <2>1 DEF SwitchBranch, local, WakeInv, Alone, Chosen, Directing, Seen, OwnWork
<1>12. CASE StartWorker(w)
  <2>1. /\ pc[w] = "prepare" /\ pc'[w] = "working" /\ tree' = {w} /\ ahead'[unit'[w]] = {}
        /\ effects'[w] = effects[w] \cup {"worker"}
    BY <1>12 DEF TypeOK, StartWorker, Prepared, Effect, Goto, local
  <2>2. Recorded(w)'
    BY <1>12, <1>a, <2>1 DEF StartWorker, Recorded, Announced
  <2> QED
    BY <1>12, <2>1, <2>2 DEF StartWorker, local, WakeInv, Alone, Chosen, Directing, Seen, OwnWork, Acting
<1>13. CASE WorkerValidated(w)
  <2>1. /\ pc[w] = "working" /\ pc'[w] = "publish" /\ print'[w] = tree
        /\ ev'[w].worker_status = "VALIDATED" /\ ev'[w].finalizer_status = ev[w].finalizer_status
        /\ ev'[w].worker_attempts = ev[w].worker_attempts
    BY <1>13, RecordFields DEF TypeOK, WorkerValidated, Goto
  <2>2. Recorded(w)'
    BY <1>13, <1>a, <2>1 DEF WorkerValidated, Recorded, Announced
  <2> QED
    BY <1>13, <2>1, <2>2 DEF WorkerValidated, checkout, WakeInv, Alone, Chosen, Directing, Seen, OwnWork, Acting
<1>14. CASE NotValidated(w)
  <2>1. PICK s \in {"BOUNDARY_INVALID", "CHECK_FAILED", "CHECK_UNTRUSTWORTHY",
                "WORKER_UNTRUSTWORTHY"} :
          End(w, WorkerOutcome(s), "worker_status", s)
    BY <1>14 DEF NotValidated
  <2>2. /\ pc[w] = "working" /\ effects'[w] = Announced(w) \cup {"worker"}
        /\ ev[w].worker_attempts = 1
    BY <1>14, <1>a DEF NotValidated, Recorded
  <2>3. /\ ev'[w].outcome \in {"RUNTIME_FAILURE", "INTERRUPTED"}
        /\ ev'[w].finalizer_status = ev[w].finalizer_status /\ ev'[w].worker_attempts = 1
    BY <2>1, <2>2, EndFields DEF WorkerOutcome
  <2>4. Announced(w)' = Announced(w)
    BY <2>3 DEF Announced
  <2>5. Honest(w)'
    BY <2>2, <2>3, <2>4, AnnouncedCases DEF Honest
  <2> QED
    BY <1>14, <2>1, <2>2, <2>5, EndsWell DEF TypeOK, NotValidated, End, Forgets, Goto, Acting
<1>15. CASE NotCommitted(w)
  <2>1. PICK o \in {"RUNTIME_FAILURE", "INTERRUPTED"}, s \in PublicationStatuses :
          End(w, o, "publication_status", s)
    BY <1>15 DEF NotCommitted, PublicationStatuses
  <2>2. /\ pc[w] = "publish" /\ effects'[w] = Announced(w) \cup {"worker"}
        /\ ev[w].worker_attempts = 1
    BY <1>15, <1>a DEF NotCommitted, Recorded
  <2>3. /\ ev'[w].outcome \in {"RUNTIME_FAILURE", "INTERRUPTED"}
        /\ ev'[w].finalizer_status = ev[w].finalizer_status /\ ev'[w].worker_attempts = 1
    BY <2>1, <2>2, EndFields
  <2>4. Announced(w)' = Announced(w)
    BY <2>3 DEF Announced
  <2>5. Honest(w)'
    BY <2>2, <2>3, <2>4, AnnouncedCases DEF Honest
  <2> QED
    BY <1>15, <2>1, <2>2, <2>5, EndsWell DEF TypeOK, NotCommitted, End, Forgets, Goto, Acting
<1>16. CASE Commit(w)
  <2>1. /\ pc[w] = "publish" /\ pc'[w] = "push" /\ unit[w] \in Checkpoints
    BY <1>16 DEF TypeOK, Commit, Goto, WakeInv, Directing, Seen
  <2>2. print'[w] = {w} /\ ev'[w].worker_status = "VALIDATED"
    BY <1>16, <2>1 DEF Commit, WakeInv, OwnWork, local
  <2>3. Recorded(w)'
    BY <1>16, <1>a, <2>1 DEF Commit, Recorded, Announced
  <2> QED
    BY <1>16, <2>1, <2>2, <2>3 DEF Commit, local, WakeInv, Alone, Chosen, Directing, Seen, OwnWork, Acting
<1>17. CASE NotPushed(w)
  <2>1. PICK o \in {"RUNTIME_FAILURE", "INTERRUPTED"}, s \in PublicationStatuses :
          End(w, o, "publication_status", s)
    BY <1>17 DEF NotPushed, PublicationStatuses
  <2>2. /\ pc[w] = "push" /\ effects'[w] = Announced(w) \cup {"worker"}
        /\ ev[w].worker_attempts = 1
    BY <1>17, <1>a DEF NotPushed, Recorded
  <2>3. /\ ev'[w].outcome \in {"RUNTIME_FAILURE", "INTERRUPTED"}
        /\ ev'[w].finalizer_status = ev[w].finalizer_status /\ ev'[w].worker_attempts = 1
    BY <2>1, <2>2, EndFields
  <2>4. Announced(w)' = Announced(w)
    BY <2>3 DEF Announced
  <2>5. Honest(w)'
    BY <2>2, <2>3, <2>4, AnnouncedCases DEF Honest
  <2> QED
    BY <1>17, <2>1, <2>2, <2>5, EndsWell DEF TypeOK, NotPushed, End, Forgets, Goto, Acting
<1>18. CASE Push(w)
  <2>1. /\ pc[w] = "push" /\ pc'[w] = "verify" /\ effects'[w] = effects[w] \cup {"pushed"}
        /\ unit[w] \in Checkpoints
    BY <1>18 DEF TypeOK, Push, Pushes, Effect, Goto, WakeInv, Directing, Seen
  <2>2. stage'[unit'[w]] \in {"pushed", "published"}
    BY <1>18, <2>1 DEF TypeOK, Push, Pushes, local
  <2>3. Recorded(w)'
    BY <1>18, <1>a, <2>1 DEF Push, Recorded, Announced
  <2> QED
    BY <1>18, <2>1, <2>2, <2>3 DEF Push, local, WakeInv, Alone, Chosen, Directing, Seen, OwnWork, Acting
<1>19. CASE PushUncertain(w)
  <2>1. /\ pc[w] = "push" /\ effects'[w] \subseteq effects[w] \cup {"pushed"}
        /\ ev'[w].outcome = "INTERRUPTED" /\ ev'[w].worker_attempts = ev[w].worker_attempts
    BY <1>19, EndFields DEF TypeOK, PushUncertain, Pushes, Effect
  <2>2. Honest(w)'
    BY <2>1, <1>a DEF Honest, Recorded
  <2> QED
    BY <1>19, <2>1, <2>2, EndsWell DEF TypeOK, PushUncertain, End, Forgets, Goto, Acting
<1>24. CASE Open(w)
  <2>1. /\ pc[w] = "verify" /\ stage'[unit'[w]] = "published"
    BY <1>24 DEF TypeOK, Open, Opens, local, WakeInv, Directing, Seen
  <2>2. Recorded(w)'
    BY <1>24, <1>a, <2>1 DEF Open, Recorded, Announced
  <2> QED
    BY <1>24, <2>1, <2>2 DEF Open, local, checkout, WakeInv, Alone, Chosen, Directing, Seen, OwnWork, Acting
<1>20. CASE Verify(w)
  <2>1. /\ pc[w] = "verify" /\ effects'[w] = Announced(w) \cup {"worker", "pushed"}
        /\ ev'[w].outcome = "COMPLETED" /\ ev'[w].publication_status = "VERIFIED"
        /\ ev'[w].worker_attempts = 1
    BY <1>20, <1>a, EndFields DEF Verify, Recorded
  <2>2. Honest(w)'
    BY <2>1 DEF Honest
  <2> QED
    BY <1>20, <2>1, <2>2, EndsWell DEF TypeOK, Verify, End, Forgets, Goto, Acting
<1>21. CASE VerifyUncertain(w)
  <2>1. /\ pc[w] = "verify" /\ effects'[w] = effects[w]
        /\ ev'[w].outcome = "INTERRUPTED" /\ ev'[w].worker_attempts = ev[w].worker_attempts
    BY <1>21, EndFields DEF VerifyUncertain
  <2>2. Honest(w)'
    BY <2>1, <1>a DEF Honest, Recorded
  <2> QED
    BY <1>21, <2>1, <2>2, EndsWell DEF TypeOK, VerifyUncertain, End, Forgets, Goto, Acting
<1>22. CASE Release(w)
  BY <1>22
  DEF TypeOK, Release, local, Goto, WakeInv, Alone, Chosen, Directing, Seen, OwnWork, Recorded,
      Honest, Announced, Acting
<1>23. CASE Report(w)
  BY <1>23
  DEF TypeOK, Report, local, Goto, WakeInv, Alone, Chosen, Directing, Seen, OwnWork, Recorded, Acting
<1> QED
  BY <1>2, <1>3, <1>4, <1>5, <1>6, <1>7, <1>8, <1>9, <1>10, <1>11, <1>12,
     <1>13, <1>14, <1>15, <1>16, <1>17, <1>18, <1>19, <1>20, <1>21, <1>22, <1>23, <1>24, <1>25
  DEF Step, Prepass, Coordinate, Work, Publish

\* when it is disturbed, too.
LEMMA OwnDisturb ==
  ASSUME TypeOK, NEW w \in Wakes, WakeInv(w), Disturb(w)
  PROVE  WakeInv(w)'
<1>a. Recorded(w)
  BY DEF WakeInv
<1>1. CASE NoTransport(w)
  <2>1. /\ pc[w] = "prepass" /\ effects'[w] = {}
        /\ ev'[w].outcome = "RUNTIME_FAILURE" /\ ev'[w].finalizer_status = "none"
    BY <1>1, <1>a, EndFields DEF NoTransport, Recorded
  <2>2. Honest(w)'
    BY <2>1 DEF Honest, Announced
  <2> QED
    BY <1>1, <2>1, <2>2, EndsWell DEF TypeOK, NoTransport, End, Forgets, Goto, Acting
<1>2. CASE InvalidTransition(w)
  <2>1. /\ pc[w] = "coordinate" /\ effects'[w] = Announced(w)
        /\ ev'[w].outcome = "RUNTIME_FAILURE" /\ ev'[w].finalizer_status = ev[w].finalizer_status
    BY <1>2, <1>a, OutcomeFields DEF InvalidTransition, Returns, Recorded
  <2>2. Honest(w)'
    BY <2>1, AnnouncedCases DEF Honest, Announced
  <2> QED
    BY <1>2, <2>1, <2>2, EndsWell DEF TypeOK, InvalidTransition, Returns, Forgets, Goto, Acting
<1>3. CASE ReleaseFails(w)
  <2>1. /\ pc'[w] = "report" /\ effects'[w] = effects[w]
        /\ ev'[w].outcome = "INTERRUPTED" /\ ev'[w].worker_attempts = ev[w].worker_attempts
    BY <1>3, OutcomeFields DEF TypeOK, ReleaseFails, Goto
  <2>2. Honest(w)'
    BY <1>3, <1>a, <2>1 DEF ReleaseFails, Recorded, Honest
  <2> QED
    BY <1>3, <2>1, <2>2
    DEF ReleaseFails, local, WakeInv, Alone, Chosen, Directing, Seen, OwnWork, Recorded, Acting
<1>4. CASE Interrupt(w)
  <2>1. /\ effects'[w] = effects[w]
        /\ ev'[w].outcome = "INTERRUPTED" /\ ev'[w].worker_attempts = ev[w].worker_attempts
    BY <1>4, OutcomeFields DEF Interrupt, Returns, Forgets
  <2>2. Honest(w)'
    BY <1>4, <1>a, <2>1, WorkerIsCounted DEF Interrupt, Honest
  <2> QED
    BY <1>4, <2>2, EndsWell DEF TypeOK, Interrupt, Returns, Forgets, Goto
<1>5. CASE Crash(w)
  BY <1>5
  DEF TypeOK, Crash, Forgets, Goto, WakeInv, Alone, Chosen, Directing, Seen, OwnWork, Recorded, Acting
<1>6. ASSUME NEW c \in Checkpoints, FinalizerUncertain(w, c)
      PROVE  WakeInv(w)'
  <2>1. /\ pc[w] = "prepass" /\ "worker" \notin effects'[w]
        /\ ev'[w].outcome = "INTERRUPTED"
    BY <1>6, <1>a, EndFields DEF TypeOK, FinalizerUncertain, Finalizes, Effect, Recorded
  <2>2. Honest(w)'
    BY <2>1 DEF Honest
  <2> QED
    BY <1>6, <2>1, <2>2, EndsWell DEF TypeOK, FinalizerUncertain, End, Forgets, Goto, Acting
<1> QED
  BY <1>1, <1>2, <1>3, <1>4, <1>5, <1>6 DEF Disturb
-----------------------------------------------------------------------------
(* The theorems. *)

\* Supervisor, operator and a worker that was left behind keep the invariant.
LEMMA OutsideStep ==
  ASSUME Inv, NEW w \in Wakes,
         \/ ResidueWrites \/ ResidueEnds \/ Approve \/ Object \/ Unlock \/ Restore
         \/ \E c \in Checkpoints : CheckOut(c)
  PROVE  WakeInv(w)'
<1> TypeOK /\ WakeInv(w)
  BY DEF Inv
<1>1. /\ pc'[w] = pc[w] /\ ev'[w] = ev[w] /\ effects'[w] = effects[w]
      /\ state'[w] = state[w] /\ unit'[w] = unit[w] /\ print'[w] = print[w]
  BY DEF ResidueWrites, ResidueEnds, Approve, Object, Unlock, Restore, CheckOut, wakes, local
<1>2. Recorded(w)'
  BY <1>1 DEF WakeInv, Recorded, Announced, Honest
<1>3. CASE ResidueWrites
  BY <1>1, <1>2, <1>3 DEF ResidueWrites, wakes, WakeInv, Alone, Chosen, Directing, Seen, OwnWork, Acting
<1>4. CASE ResidueEnds
  BY <1>1, <1>2, <1>4 DEF ResidueEnds, wakes, checkout, WakeInv, Alone, Chosen, Directing, Seen, OwnWork
<1>5. CASE Approve \/ Object
  <2>1. PICK c \in Checkpoints :
          \/ stage[c] = "published" /\ stage' = [stage EXCEPT ![c] = "approved"]
          \/ stage[c] = "approved" /\ stage' = [stage EXCEPT ![c] = "published"]
    BY <1>5 DEF Approve, Object
  <2>2. /\ holder' = holder /\ residue' = residue /\ tree' = tree /\ ahead' = ahead
    BY <1>5 DEF Approve, Object, wakes, checkout
  <2>3. \A s : stage[c] \in Later(s) => stage'[c] \in Later(s)
    BY <2>1 DEF Later, TypeOK
  <2>4. \A d \in Checkpoints : d # c => stage'[d] = stage[d]
    BY <2>1 DEF TypeOK
  <2>5. stage'[c] \in {"approved", "published"}
    BY <2>1 DEF TypeOK
  <2>6. Seen(w)'
    BY <1>1, <2>3, <2>4, <2>5 DEF WakeInv, Directing, Seen
  <2> QED
    BY <1>1, <1>2, <2>2, <2>6 DEF WakeInv, Alone, Chosen, OwnWork
<1>6. CASE Unlock
  <2>1. holder # w
    BY <1>6, RuntimeWakeAssumption DEF Unlock
  <2> QED
    BY <1>1, <1>2, <1>6, <2>1 DEF Unlock, checkout, WakeInv, Alone, Chosen, Directing, Seen, OwnWork, Acting
<1>7. CASE Restore
  <2>1. holder # w
    BY <1>7, RuntimeWakeAssumption DEF Restore
  <2> QED
    BY <1>1, <1>2, <1>7, <2>1 DEF Restore, wakes, WakeInv, Alone, Chosen, Directing, Seen, OwnWork, Acting
<1>8. ASSUME NEW c \in Checkpoints, CheckOut(c)
      PROVE  WakeInv(w)'
  BY <1>1, <1>2, <1>8 DEF CheckOut, wakes, WakeInv, Alone, Chosen, Directing, Seen, OwnWork
<1> QED
  BY <1>3, <1>4, <1>5, <1>6, <1>7, <1>8

\* The invariant is inductive.
LEMMA InvStep ==
  ASSUME Inv, [Next]_vars
  PROVE  Inv'
<1>1. TypeOK'
  BY TypeStep DEF Inv
<1>2. ASSUME NEW v \in Wakes
      PROVE  WakeInv(v)'
  <2>1. ASSUME NEW w \in Wakes, Step(w) \/ Disturb(w)
        PROVE  WakeInv(v)'
    <3>1. CASE w = v
      BY <2>1, <3>1, OwnStep, OwnDisturb DEF Inv
    <3>2. CASE w # v
      BY <2>1, <3>2, OthersStep DEF Inv
    <3> QED
      BY <3>1, <3>2
  <2>2. CASE \/ ResidueWrites \/ ResidueEnds \/ Approve \/ Object \/ Unlock \/ Restore
             \/ \E c \in Checkpoints : CheckOut(c)
    BY <2>2, OutsideStep
  <2>3. CASE UNCHANGED vars
    BY <2>3 DEF vars, wakes, local, checkout, Inv, WakeInv, Alone, Chosen, Directing, Seen, OwnWork, Recorded,
                Honest, Announced
  <2> QED
    BY <2>1, <2>2, <2>3 DEF Next
<1> QED
  BY <1>1, <1>2 DEF Inv

\* It holds at first.
LEMMA InvInit ==
  ASSUME Init
  PROVE  Inv
<1>1. TypeOK
  BY TypeInit
<1>2. ASSUME NEW w \in Wakes
      PROVE  WakeInv(w)
  BY DEF Init, WakeInv, Alone, Chosen, Directing, Seen, OwnWork, Recorded, Acting
<1> QED
  BY <1>1, <1>2 DEF Inv

\* The invariant holds always.
THEOREM InvCorrect == Spec => []Inv
  BY InvInit, InvStep, PTL DEF Spec

\* No report hides a durable effect or a worker attempt, whatever has failed
\* before and however the wakes interleave.
THEOREM ReportsAreHonest == Spec => []ReportIsHonest
<1>1. Inv => ReportIsHonest
  BY DEF Inv, WakeInv, Recorded, ReportIsHonest
<1> QED
  BY <1>1, InvCorrect, PTL

\* Only a push makes a wake's work public.
LEMMA PushIsOwnWork ==
  ASSUME Inv, [Next]_vars, NEW w \in Wakes, "pushed" \in effects'[w] \ effects[w]
  PROVE  ahead[unit[w]] = {w} /\ ev[w].worker_status = "VALIDATED"
<1>1. TypeOK /\ WakeInv(w)
  BY DEF Inv
<1>2. PICK v \in Wakes : Step(v) \/ Disturb(v)
  BY DEF Next, ResidueWrites, ResidueEnds, Approve, Object, Unlock, Restore, CheckOut, vars, wakes
<1>3. v = w
  BY <1>1, <1>2, OthersKeep
<1>4. CASE pc[w] = "push"
  <2>1. ahead[unit[w]] = print[w]
    <3>1. effects'[w] # effects[w] /\ effects'[w] # {}
      OBVIOUS
    <3>2. Publish(w) \/ Interrupt(w) \/ Crash(w)
      BY <1>2, <1>3, <1>4
      DEF Step, Disturb, Acquire, Contended, Refresh, RecoveryUncertain, Prepass,
          NoFinalization, FinalizerCompletes, FinalizerFails, FinalizerUncertain, Finalizes,
          Coordinate, NothingToDo, Transition, Work, SwitchBranch, PreparationFails, StartWorker, WorkerValidated,
          NotValidated, Release, Report, NoTransport, InvalidTransition, ReleaseFails
    <3>3. Push(w) \/ PushUncertain(w)
      BY <1>1, <3>1, <3>2 DEF TypeOK, Publish, NotCommitted, Commit, NotPushed, Open, Verify, VerifyUncertain,
                        Interrupt, Crash
    <3> QED
      BY <3>3 DEF Push, PushUncertain, CommitVerified
  <2> QED
    BY <1>1, <1>4, <2>1 DEF WakeInv, OwnWork
<1>5. CASE pc[w] # "push"
  <2> USE <1>1 DEF TypeOK
  <2>1. Prepass(w) \/ (\E c \in Checkpoints : FinalizerUncertain(w, c)) =>
          effects'[w] \ effects[w] \subseteq {"closed", "merged"}
    <3>1. ASSUME NEW c \in Checkpoints, NEW from, NEW to, to \in {"closed", "merged"},
                 Finalizes(w, c, from, to)
          PROVE  effects'[w] \ effects[w] \subseteq {"closed", "merged"}
      BY <3>1 DEF Finalizes, Effect
    <3> QED
      BY <3>1 DEF Prepass, NoFinalization, FinalizerCompletes, FinalizerFails, FinalizerUncertain
  <2>2. Work(w) => effects'[w] \ effects[w] \subseteq {"worker"}
    <3>1. StartWorker(w) => effects'[w] = effects[w] \cup {"worker"}
      BY DEF StartWorker, Effect
    <3>2. SwitchBranch(w) \/ PreparationFails(w) \/ WorkerValidated(w) \/ NotValidated(w) => effects'[w] = effects[w]
      BY DEF SwitchBranch, PreparationFails, WorkerValidated, NotValidated
    <3> QED
      BY <3>1, <3>2 DEF Work
  <2>3. Publish(w) => effects'[w] = effects[w]
    BY <1>5 DEF Publish, NotCommitted, Commit, NotPushed, Push, PushUncertain, Open, Verify,
                VerifyUncertain
  <2>4. Acquire(w) \/ Contended(w) \/ Refresh(w) \/ RecoveryUncertain(w)
        \/ Coordinate(w) \/ Release(w) => effects'[w] = effects[w]
    BY DEF Acquire, Contended, Refresh, RecoveryUncertain, Coordinate, NothingToDo,
           Transition, Release
  <2>5. Report(w) \/ Crash(w) => effects'[w] = {}
    BY DEF Report, Crash
  <2>6. NoTransport(w) \/ InvalidTransition(w) \/ ReleaseFails(w) \/ Interrupt(w) =>
          effects'[w] = effects[w]
    BY DEF NoTransport, InvalidTransition, ReleaseFails, Interrupt
  <2> QED
    BY <1>2, <1>3, <2>1, <2>2, <2>3, <2>4, <2>5, <2>6 DEF Step, Disturb
<1> QED
  BY <1>4, <1>5

\* Nothing that a failed wake, a worker left behind or an aborted closure left
\* behind is ever published with a wake's own work.
THEOREM OnlyOwnWorkIsPublished == Spec => PublishesOwnWork
<1>1. Inv /\ [Next]_vars =>
        [\A w \in Wakes : "pushed" \in effects'[w] \ effects[w]
           => ahead[unit[w]] = {w} /\ ev[w].worker_status = "VALIDATED"]_vars
  BY PushIsOwnWork
<1> QED
  BY <1>1, InvCorrect, PTL DEF Spec, PublishesOwnWork

\* There is at most one worker.
LEMMA OneWorker ==
  ASSUME Inv
  PROVE  /\ Workers \in {0, 1}
         /\ Workers = 0 <=> Working = {} /\ ~residue
<1>1. CASE Working = {}
  BY <1>1, FS_EmptySet DEF Workers, Inv, TypeOK
<1>2. CASE Working # {}
  <2>1. PICK w \in Wakes : pc[w] = "working"
    BY <1>2 DEF Working
  <2>2. ~residue /\ Working = {w}
    BY <2>1 DEF Inv, WakeInv, Alone, Working, Acting
  <2>3. Cardinality(Working) = 1
    BY <2>2, FS_Singleton
  <2> QED
    BY <2>2, <2>3 DEF Workers
<1> QED
  BY <1>1, <1>2

\* No worker runs while a wake finalizes, prepares or publishes.
LEMMA NoWorker ==
  ASSUME Inv, NEW w \in Wakes, pc[w] \in Acting \ {"refresh", "working"},
         NEW p, p # "working", pc' = [pc EXCEPT ![w] = p], residue' = residue
  PROVE  Workers = 0 /\ Workers' = 0
<1>1. ~residue /\ Working = {}
  BY DEF Inv, WakeInv, Alone, Working, Acting
<1>2. ~residue' /\ Working' = {}
  BY <1>1 DEF Working, Inv, TypeOK
<1> QED
  BY <1>1, <1>2, FS_EmptySet DEF Workers

\* The only checkpoint worked on is that of the wake that acts.
LEMMA DirectedOf ==
  ASSUME Inv, NEW w \in Wakes, pc[w] \in Acting \cup {"release"}
  PROVE  Directed = {unit[w]} \ {Nobody}
<1>1. ASSUME NEW v \in Wakes, v # w
      PROVE  unit[v] = Nobody
  <2>1. holder = w
    BY DEF Inv, WakeInv, Alone
  <2>2. pc[v] \notin Acting \cup {"release"}
    BY <1>1, <2>1 DEF Inv, WakeInv, Alone
  <2> QED
    BY <2>2 DEF Inv, WakeInv, Chosen, Directing, Acting
<1> QED
  BY <1>1 DEF Directed

\* It is forgotten with the action,
LEMMA DirectedForgotten ==
  ASSUME Inv, NEW w \in Wakes, pc[w] \in Acting \cup {"release"}, Forgets(w)
  PROVE  Directed' = {}
<1>1. ASSUME NEW v \in Wakes
      PROVE  unit'[v] = Nobody
  <2>1. CASE v = w
    BY <2>1 DEF Forgets, Inv, TypeOK
  <2>2. CASE v # w
    <3>1. holder = w
      BY DEF Inv, WakeInv, Alone
    <3>2. pc[v] \notin Acting \cup {"release"}
      BY <2>2, <3>1 DEF Inv, WakeInv, Alone
    <3> QED
      BY <2>2, <3>2 DEF Forgets, Inv, TypeOK, WakeInv, Chosen, Directing, Acting
  <2> QED
    BY <2>1, <2>2
<1> QED
  BY <1>1 DEF Directed

\* and chosen by a transition only.
LEMMA DirectedStep ==
  ASSUME Inv, [Next]_vars,
         ~(\E w \in Wakes, c \in Checkpoints : Transition(w, c))
  PROVE  Directed' \in {Directed, {}}
<1>1. unit' = unit => Directed' = Directed
  BY DEF Directed
<1>2. ASSUME NEW w \in Wakes, Step(w) \/ Disturb(w)
      PROVE  unit' = unit \/ (pc[w] \in Acting \cup {"release"} /\ Forgets(w))
  <2>1. CASE \/ Acquire(w) \/ Contended(w) \/ Refresh(w) \/ RecoveryUncertain(w)
             \/ Prepass(w) \/ Coordinate(w)
    BY <2>1
    DEF Acquire, Contended, Refresh, RecoveryUncertain, Prepass, NoFinalization,
        FinalizerCompletes, FinalizerFails, Finalizes, Coordinate, NothingToDo, Returns, End,
        local, Acting
  <2>2. CASE Work(w) \/ Publish(w)
    BY <2>2
    DEF Work, SwitchBranch, PreparationFails, StartWorker, WorkerValidated, NotValidated,
        Publish, NotCommitted, Commit, NotPushed, Push, PushUncertain, Open, Verify,
        VerifyUncertain, End, local, Acting
  <2>3. CASE Release(w) \/ Report(w) \/ Disturb(w)
    BY <2>3
    DEF Release, Report, Disturb, NoTransport, InvalidTransition, ReleaseFails, Interrupt, Crash,
        FinalizerUncertain, Finalizes, Returns, End, local, Acting
  <2> QED
    BY <1>2, <2>1, <2>2, <2>3 DEF Step
<1>3. ASSUME NEW w \in Wakes, Step(w) \/ Disturb(w)
      PROVE  Directed' \in {Directed, {}}
  BY <1>1, <1>2, <1>3, DirectedForgotten
<1>4. CASE \/ ResidueWrites \/ ResidueEnds \/ Approve \/ Object \/ Unlock \/ Restore
           \/ (\E c \in Checkpoints : CheckOut(c)) \/ UNCHANGED vars
  BY <1>1, <1>4
  DEF ResidueWrites, ResidueEnds, Approve, Object, Unlock, Restore, CheckOut, vars, wakes, local
<1> QED
  BY <1>3, <1>4 DEF Next

\* A worker begins when it is started, and not otherwise.
LEMMA NoneBegins ==
  ASSUME Inv, [Next]_vars, Workers = 0, ~(\E w \in Wakes : StartWorker(w))
  PROVE  Workers' = 0
<1>1. Working = {} /\ ~residue
  BY OneWorker
<1>a. TypeOK
  BY DEF Inv
<1>2. ASSUME NEW w \in Wakes, Step(w) \/ Disturb(w)
      PROVE  pc'[w] # "working" /\ residue' = residue
  <2>1. pc[w] # "working" /\ pc \in [Wakes -> Acting \cup {"idle", "release", "report"}]
    BY <1>1, <1>a DEF Working, TypeOK
  <2>5. ~StartWorker(w)
    OBVIOUS
  <2>2. CASE \/ Acquire(w) \/ Contended(w) \/ Refresh(w) \/ RecoveryUncertain(w)
             \/ Prepass(w) \/ Coordinate(w)
    BY <1>1, <2>1, <2>2
    DEF Acquire, Contended, Refresh, RecoveryUncertain, Prepass, NoFinalization,
        FinalizerCompletes, AfterFinalization, FinalizerFails, Finalizes, Coordinate, NothingToDo,
        Transition, Returns, End, Goto
  <2>3. CASE Work(w) \/ Publish(w)
    <3>1. CASE Work(w)
      BY <1>1, <2>1, <2>5, <3>1
      DEF Work, SwitchBranch, PreparationFails, WorkerValidated, NotValidated, End, Goto
    <3>2. CASE NotCommitted(w) \/ Commit(w) \/ NotPushed(w) \/ Push(w)
      BY <1>1, <2>1, <3>2 DEF NotCommitted, Commit, NotPushed, Push, End, Goto
    <3>3. CASE PushUncertain(w) \/ Open(w) \/ Verify(w) \/ VerifyUncertain(w)
      BY <1>1, <2>1, <3>3 DEF PushUncertain, Open, Verify, VerifyUncertain, End, Goto
    <3> QED
      BY <2>3, <3>1, <3>2, <3>3 DEF Publish
  <2>4. CASE Release(w) \/ Report(w) \/ Disturb(w)
    <3>1. CASE Interrupt(w) \/ Crash(w)
      BY <1>1, <2>1, <3>1 DEF Interrupt, Crash, Leaves, Returns, Goto
    <3>2. CASE Release(w) \/ Report(w) \/ ReleaseFails(w) \/ InvalidTransition(w)
      BY <1>1, <2>1, <3>2 DEF Release, Report, ReleaseFails, InvalidTransition, Returns, Goto
    <3>3. CASE NoTransport(w) \/ \E c \in Checkpoints : FinalizerUncertain(w, c)
      BY <1>1, <2>1, <3>3 DEF NoTransport, FinalizerUncertain, End, Goto
    <3> QED
      BY <2>4, <3>1, <3>2, <3>3 DEF Disturb
  <2> QED
    BY <1>2, <2>2, <2>3, <2>4 DEF Step
<1>3. ASSUME NEW w \in Wakes, Step(w) \/ Disturb(w)
      PROVE  Working' = {} /\ ~residue'
  <2>1. ASSUME NEW v \in Wakes
        PROVE  pc'[v] # "working"
    <3>1. CASE v = w
      BY <1>2, <1>3, <3>1
    <3>2. CASE v # w
      BY <1>1, <1>a, <1>3, <3>2, OthersKeep DEF Working
    <3> QED
      BY <3>1, <3>2
  <2> QED
    BY <1>1, <1>2, <1>3, <2>1 DEF Working
<1>4. ASSUME \/ ResidueWrites \/ ResidueEnds \/ Approve \/ Object \/ Unlock \/ Restore
             \/ (\E c \in Checkpoints : CheckOut(c)) \/ UNCHANGED vars
      PROVE  Working' = {} /\ ~residue'
  <2>1. pc' = pc
    BY <1>4
    DEF ResidueWrites, ResidueEnds, Approve, Object, Unlock, Restore, CheckOut, vars, wakes
  <2>2. ~residue'
    BY <1>1, <1>4
    DEF ResidueWrites, ResidueEnds, Approve, Object, Unlock, Restore, CheckOut, vars
  <2> QED
    BY <1>1, <2>1, <2>2 DEF Working
<1>5. Working' = {} /\ ~residue'
  BY <1>3, <1>4 DEF Next
<1> QED
  BY <1>5, FS_EmptySet DEF Workers

\* A step that changes a stage is one of the abstract steps.
LEMMA StageStep ==
  ASSUME Inv, [Next]_vars, stage' # stage
  PROVE  Life!Next
<1> USE DEF Inv, TypeOK
<1>1. ASSUME NEW w \in Wakes, NEW c \in Checkpoints,
             FinalizerCompletes(w, c) \/ FinalizerUncertain(w, c)
      PROVE  Life!Next
  <2>1. Finalizes(w, c, "approved", "closed") \/ Finalizes(w, c, "closed", "merged")
    BY <1>1 DEF FinalizerCompletes, FinalizerUncertain
  <2>2. Workers = 0 /\ Workers' = 0
    BY <1>1, <2>1, NoWorker
    DEF FinalizerCompletes, AfterFinalization, FinalizerUncertain, Finalizes, End, Goto, Acting
  <2>3. Directed = {}
    BY <2>1, DirectedOf DEF Finalizes, WakeInv, Chosen, Directing, Acting
  <2>4. Directed' = {}
    <3>1. CASE FinalizerCompletes(w, c)
      BY <2>3, <3>1 DEF FinalizerCompletes, local, Directed
    <3>2. CASE FinalizerUncertain(w, c)
      BY <2>1, <3>2, DirectedForgotten DEF FinalizerUncertain, Finalizes, End, Acting
    <3> QED
      BY <1>1, <3>1, <3>2
  <2>5. Life!Finalize(c)
    BY <2>1, <2>2, <2>3, <2>4 DEF Finalizes, Life!Finalize, Life!Move
  <2> QED
    BY <2>2, <2>5 DEF Life!Next
<1>2. ASSUME NEW w \in Wakes, unit[w] \in Directed, Directed' \in {Directed, {}},
             Workers = 0, Workers' = 0, Pushes(w) \/ Opens(w),
             stage[unit[w]] \in {"ready", "pushed", "published", "approved"}
      PROVE  Life!Next
  <2>1. unit[w] \in Checkpoints
    BY <1>2 DEF Directed
  <2>2. Life!Publish(unit[w])
    BY <1>2, <2>1 DEF Pushes, Opens, Life!Publish, Life!Move
  <2> QED
    BY <1>2, <2>1, <2>2 DEF Life!Next
<1>3. ASSUME NEW w \in Wakes, Push(w) \/ PushUncertain(w) \/ Open(w) \/ VerifyUncertain(w)
      PROVE  Life!Next
  <2>1. pc[w] \in {"push", "verify"} /\ (Pushes(w) \/ Opens(w)) /\ residue' = residue
    BY <1>3 DEF Push, PushUncertain, Open, VerifyUncertain
  <2>2. unit[w] \in Checkpoints /\ stage[unit[w]] \in {"ready", "pushed", "published", "approved"}
    BY <2>1 DEF WakeInv, Seen, Directing
  <2>3. unit[w] \in Directed
    BY <2>2, RuntimeWakeAssumption DEF Directed
  <2>4. Workers = 0 /\ Workers' = 0
    <3>1. pc' = [pc EXCEPT ![w] = pc'[w]] /\ pc'[w] # "working"
      BY <1>3, <2>1 DEF Push, PushUncertain, Open, VerifyUncertain, End, Goto
    <3> QED
      BY <2>1, <3>1, NoWorker DEF Acting
  <2>5. Directed' \in {Directed, {}}
    <3>1. unit' = unit \/ Forgets(w)
      BY <1>3 DEF Push, PushUncertain, Open, VerifyUncertain, End, local
    <3>2. CASE unit' = unit
      BY <3>2 DEF Directed
    <3>3. CASE Forgets(w)
      BY <2>1, <3>3, DirectedForgotten DEF Acting
    <3> QED
      BY <3>1, <3>2, <3>3
  <2> QED
    BY <1>2, <2>1, <2>2, <2>3, <2>4, <2>5
<1>4. CASE Approve \/ Object
  <2>1. PICK c \in Checkpoints :
          \/ stage[c] = "published" /\ stage' = [stage EXCEPT ![c] = "approved"]
          \/ stage[c] = "approved" /\ stage' = [stage EXCEPT ![c] = "published"]
    BY <1>4 DEF Approve, Object
  <2>2. pc' = pc /\ residue' = residue /\ unit' = unit
    BY <1>4 DEF Approve, Object, wakes, local
  <2>3. Workers' = Workers /\ Directed' = Directed
    BY <2>2 DEF Workers, Working, Directed
  <2>4. Life!Judge(c)
    BY <2>1, <2>3 DEF Life!Judge, Life!Move
  <2> QED
    BY <2>4 DEF Life!Next
<1>5. CASE Restore
  <2>1. Workers' = Workers /\ Directed' = Directed /\ stage' = Discovered
    BY <1>5 DEF Restore, wakes, local, Workers, Working, Directed
  <2> QED
    BY <2>1 DEF Discovered, Life!Drop, Life!Next
<1>6. ASSUME NEW w \in Wakes, Step(w) \/ Disturb(w)
      PROVE  Life!Next
  BY <1>1, <1>3, <1>6
  DEF Step, Disturb, Acquire, Contended, Refresh, RecoveryUncertain, Prepass,
      NoFinalization, FinalizerFails, Coordinate, NothingToDo, Transition, Work, SwitchBranch,
      PreparationFails, StartWorker, WorkerValidated, NotValidated, Publish, NotCommitted, Commit,
      NotPushed, Verify, Release, Report, NoTransport, InvalidTransition, ReleaseFails, Interrupt, Crash
<1> QED
  BY <1>4, <1>5, <1>6 DEF Next, ResidueWrites, ResidueEnds, Unlock, CheckOut, vars

\* What is chosen is not closed: the coordinator has seen what the pre-pass did.
LEMMA ChoosesOpenWork ==
  ASSUME Inv, NEW w \in Wakes, NEW c \in Checkpoints, Transition(w, c)
  PROVE  Life!Direct(c)
<1> USE DEF Inv, TypeOK
<1>1. Workers = 0 /\ Workers' = 0
  BY NoWorker DEF Transition, Goto, Acting
<1>2. stage[c] \notin {"closed", "merged"} /\ stage' = stage
  BY DEF Transition, WakeInv, Seen, Later
<1>3. \A v \in Wakes : unit[v] = Nobody
  <2>1. pc[w] = "coordinate" /\ holder = w
    BY DEF Transition, WakeInv, Alone, Acting
  <2>2. \A v \in Wakes : pc[v] \notin Directing
    BY <2>1 DEF WakeInv, Alone, Directing, Acting
  <2> QED
    BY <2>2 DEF WakeInv, Chosen
<1>4. Directed = {} /\ Directed' = {c}
  BY <1>3, RuntimeWakeAssumption DEF Transition, Directed
<1> QED
  BY <1>1, <1>2, <1>4 DEF Life!Direct

\* Every step is one of the abstract steps, or changes nothing of them.
LEMMA LifeStep ==
  ASSUME Inv, [Next]_vars, Workers' \in {0, 1}
  PROVE  [Life!Next]_(Life!vars)
<1>1. CASE stage' # stage
  BY <1>1, StageStep
<1>2. ASSUME NEW w \in Wakes, NEW c \in Checkpoints, Transition(w, c)
      PROVE  Life!Next
  BY <1>2, ChoosesOpenWork DEF Life!Next
<1>3. ASSUME NEW w \in Wakes, StartWorker(w)
      PROVE  [Life!Next]_(Life!vars)
  <2>1. Workers \in {0, 1}
    BY OneWorker
  <2>2. stage' = stage /\ Directed' = Directed
    BY <1>3 DEF StartWorker, local, Directed
  <2>3. Directed # {}
    BY <1>3, RuntimeWakeAssumption DEF StartWorker, Inv, WakeInv, Seen, Directing, Directed
  <2> QED
    BY <2>1, <2>2, <2>3 DEF Life!Next, Life!Begin, Life!End, Life!vars
<1>4. CASE /\ stage' = stage
           /\ ~(\E w \in Wakes, c \in Checkpoints : Transition(w, c))
           /\ ~(\E w \in Wakes : StartWorker(w))
  <2>1. Workers \in {0, 1}
    BY OneWorker
  <2>2. Workers = 0 => Workers' = 0
    BY <1>4, NoneBegins
  <2>3. Directed' \in {Directed, {}}
    BY <1>4, DirectedStep
  <2> QED
    BY <1>4, <2>1, <2>2, <2>3 DEF Life!Next, Life!End
<1> QED
  BY <1>1, <1>2, <1>3, <1>4

\* The wakes of a repository together keep the promise of CheckpointLife: never
\* two workers at once, no remote change beside one, none chosen for what is
\* closed.
THEOREM LifeIsImplemented == Spec => ImplementsLife
<1>1. Init => Life!Init
  <2> SUFFICES ASSUME Init
               PROVE  Life!Init
    OBVIOUS
  <2>1. Working = {} /\ ~residue /\ Directed = {}
    BY DEF Init, Working, Directed
  <2> QED
    BY <2>1, FS_EmptySet DEF Init, Workers, Life!Init
<1>2. Inv => Workers \in {0, 1}
  BY OneWorker
<1>3. Inv /\ [Next]_vars /\ (Workers \in {0, 1})' => [Life!Next]_(Life!vars)
  BY LifeStep
<1> QED
  BY <1>1, <1>2, <1>3, InvCorrect, PTL DEF Spec, ImplementsLife, Life!Spec
=============================================================================
