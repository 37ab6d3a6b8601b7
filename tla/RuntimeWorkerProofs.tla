------------------------- MODULE RuntimeWorkerProofs -------------------------
(***************************************************************************)
(* Theorems about RuntimeWorker, for any branches, commits, paths and      *)
(* contents, any authorized transition with any number of checks, and any  *)
(* number of foreign changes.                                              *)
(***************************************************************************)
EXTENDS RuntimeWorker, TLAPS

Reading == {"inspect_branch", "inspect_staged", "inspect_unstaged", "inspected"}

\* A snapshot of the repository as it is.
Exact(s) ==
  /\ s.head = HeadOf(repo) /\ s.branch = BranchOf(repo)
  /\ s.staged = repo.staged /\ s.unstaged = Unstaged(repo)

\* What the phase says of the snapshots that were accepted.
ControlInv ==
  /\ phase \in {"start", "worker", "fingerprint", "judge", "check"} => pre # None
  /\ purpose = "post" => pre # None
  /\ pre # None => pre.head = request.head /\ pre.branch = request.branch
  /\ phase \in {"fingerprint", "judge"} => post # None /\ Boundary(post)
  /\ phase = "fingerprint" => DOMAIN entries \subseteq Changed(post)
  /\ phase = "judge" => DOMAIN print = Changed(post)

\* Only a process that was started and is not known to have ended is a residue.
ResidueInv ==
  residue => \/ phase \in {"worker", "check"}
             \/ phase = "done" /\ status \in {"WORKER_UNTRUSTWORTHY", "CHECK_UNTRUSTWORTHY"}

\* What an inspection that nobody disturbs has read is still so.
InspectionInv ==
  quiet =>
    /\ phase \in Reading => seen.head = HeadOf(repo)
    /\ phase \in Reading \ {"inspect_branch"} => seen.branch = BranchOf(repo)
    /\ phase \in {"inspect_unstaged", "inspected"} => seen.staged = repo.staged
    /\ phase = "inspected" => seen.unstaged = Unstaged(repo)
    /\ phase \in {"fingerprint", "judge"} => Exact(post)
    /\ phase = "fingerprint" => \A p \in DOMAIN entries : entries[p] = repo.tree[p]
    /\ phase = "judge" => \A p \in DOMAIN print : print[p] = repo.tree[p]

\* Contained checks that nobody disturbs all see the worker's worktree.
EvidenceInv ==
  /\ phase \in {"resolve", "compare", "switch", "create", "reinspect", "start", "worker"}
       => purpose # "post"
  /\ phase # "done" /\ purpose # "post" => DOMAIN evidence = {}
  /\ foreign = 0 => quiet
  /\ request.adapter = "contained" /\ foreign = 0
       => \A i \in DOMAIN evidence : evidence[i] = repo.tree

WorkerInv ==
  /\ ControlInv /\ ResidueInv /\ InspectionInv /\ EvidenceInv
  /\ ValidatedIsExact /\ ValidatedIsTested
-----------------------------------------------------------------------------
(* Type correctness. *)

Trees == [Paths -> Contents \cup {Clean, Unreadable}]

\* The branch and the commit that are asked for.
LEMMA RequestTyped ==
  ASSUME request \in Requests
  PROVE  /\ request.branch \in Branches /\ request.head \in Commits
         /\ NoCheck \notin DOMAIN request.checks
  <1>1. request \in Request
    BY RuntimeWorkerAssumption
  <1>2. request.branch \in Branches /\ request.head \in Commits /\ request.checks \in Seq(Kinds)
    BY <1>1 DEF Request
  <1> QED
    BY <1>2 DEF NoCheck

\* A branch moved, and HEAD at something else: a repository still.
LEMMA MovedTyped ==
  ASSUME NEW r \in Repository, Resolvable(r), NEW b \in Branches, NEW c \in Commits
  PROVE  LET m == [r EXCEPT !.refs[b] = c]
         IN  m \in Repository /\ Resolvable(m) /\ m.tree = r.tree /\ m.staged = r.staged
  BY RuntimeWorkerAssumption DEF Repository, Resolvable, HeadOf

\* HEAD at another existing branch, or detached at a commit.
LEMMA SwitchedTyped ==
  ASSUME NEW r \in Repository, NEW x \in Branches \cup Commits,
         x \in Branches => r.refs[x] # Absent
  PROVE  LET m == [r EXCEPT !.at = x]
         IN  m \in Repository /\ Resolvable(m) /\ m.tree = r.tree /\ m.staged = r.staged
  BY RuntimeWorkerAssumption DEF Repository, Resolvable, HeadOf

\* What anybody may do to branches and HEAD.
LEMMA HeadsTyped ==
  ASSUME NEW r \in Repository, Resolvable(r), NEW h \in HeadsOf(r)
  PROVE  h \in Repository /\ Resolvable(h)
  <1>1. CASE h = r
    BY <1>1
  <1>2. CASE \E b \in {r.at} \cap Branches, c \in Commits : h = [r EXCEPT !.refs[b] = c]
    BY <1>2, MovedTyped
  <1>3. CASE \E x \in Commits \cup {b \in Branches : r.refs[b] # Absent} : h = [r EXCEPT !.at = x]
    <2>1. PICK x \in Commits \cup {b \in Branches : r.refs[b] # Absent} : h = [r EXCEPT !.at = x]
      BY <1>3
    <2>2. x \in Branches => r.refs[x] # Absent
      BY RuntimeWorkerAssumption
    <2> QED
      BY <2>1, <2>2, SwitchedTyped
  <1>4. CASE \E b \in Branches \ {r.at} : h = [r EXCEPT !.refs[b] = Absent]
    BY <1>4 DEF Repository, Resolvable, HeadOf
  <1> QED
    BY <1>1, <1>2, <1>3, <1>4 DEF HeadsOf

\* The worktree and the index do not matter to it.
LEMMA WorktreeTyped ==
  ASSUME NEW r \in Repository, Resolvable(r), NEW t \in Trees, NEW s \in SUBSET Paths
  PROVE  With(r, t, s) \in Repository /\ Resolvable(With(r, t, s))
  BY DEF With, Repository, Resolvable, HeadOf, Trees

\* What a worker or a check may leave.
LEMMA TouchedTyped ==
  ASSUME NEW r \in Repository, Resolvable(r), NEW m \in Touched(r)
  PROVE  m \in Repository /\ Resolvable(m)
  <1>1. PICK h \in HeadsOf(r), t \in Trees, s \in SUBSET Paths :
               m = With(h, t, s)
    BY DEF Touched, Trees
  <1> QED
    BY <1>1, HeadsTyped, WorktreeTyped

\* What somebody else may do in one step.
LEMMA NudgedTyped ==
  ASSUME NEW r \in Repository, Resolvable(r), NEW m \in Nudged(r)
  PROVE  m \in Repository /\ Resolvable(m)
  <1>1. CASE \E p \in Paths, c \in Contents \cup {Clean, Unreadable} : m = [r EXCEPT !.tree[p] = c]
    BY <1>1 DEF Repository, Resolvable, HeadOf
  <1>2. CASE \E s \in SUBSET Paths : m = [r EXCEPT !.staged = s]
    BY <1>2 DEF Repository, Resolvable, HeadOf
  <1>3. CASE \E b \in Branches, c \in Commits : m = [r EXCEPT !.refs[b] = c]
    BY <1>3, MovedTyped
  <1>4. CASE m \in HeadsOf(r)
    BY <1>4, HeadsTyped
  <1> QED
    BY <1>1, <1>2, <1>3, <1>4 DEF Nudged

\* Every snapshot, fingerprint and status is of the expected kind, and a run has
\* a status exactly when it is over, whatever worker and checks do to the
\* repository.
THEOREM TypeCorrect == Spec => []TypeOK
  <1> USE RuntimeWorkerAssumption
  <1>1. Init => TypeOK
    <2> SUFFICES ASSUME Init
                 PROVE  TypeOK
      OBVIOUS
    <2>1. evidence = << >> /\ DOMAIN evidence = {}
      BY DEF Init
    <2>2. request \in Requests /\ repo \in Repository /\ Resolvable(repo)
      BY DEF Init
    <2> QED
      <3>1. DOMAIN evidence \subseteq DOMAIN request.checks
        BY <2>1
      <3>2. /\ seen = None /\ pre = None /\ post = None /\ started = FALSE /\ current = NoCheck
            /\ phase = "resolve" /\ purpose = "initial" /\ verdict = "none" /\ status = "none"
            /\ residue = FALSE /\ foreign = 0 /\ quiet = TRUE
        BY DEF Init
      <3>3. {seen, pre, post} \subseteq Snapshot \cup {None}
        BY <3>2
      <3>4. foreign \in 0..MaxForeign /\ status \in Statuses \cup {"none"} /\ quiet \in BOOLEAN
        BY <3>2
      <3> QED
        BY <2>2, <3>1, <3>2, <3>3, <3>4 DEF TypeOK, MayRaise
  <1>2. TypeOK /\ [Next]_vars => TypeOK'
    <2> SUFFICES ASSUME TypeOK, [Next]_vars
                 PROVE  TypeOK'
      OBVIOUS
    <2> USE DEF TypeOK
    <2>0. /\ request.branch \in Branches /\ request.head \in Commits
          /\ NoCheck \notin DOMAIN request.checks
      BY RequestTyped
    <2>1. CASE Resolve
      BY <2>1 DEF Resolve, Report, Goto, local, Statuses, MayRaise
    <2>2. CASE InitialInspection
      BY <2>2 DEF InitialInspection, Report, Goto, local, Statuses, MayRaise
    <2>3. CASE CompareBranch
      BY <2>3 DEF CompareBranch, Report, Goto, local, Statuses, MayRaise
    <2>4. CASE Switch
      <3>1. repo' \in Repository /\ Resolvable(repo')
        BY <2>0, <2>4, SwitchedTyped DEF Switch
      <3> QED
        BY <2>4, <3>1 DEF Switch, Goto, local, MayRaise
    <2>5. CASE CreateBranch
      <3>1. repo' \in Repository /\ Resolvable(repo')
        <4> DEFINE m == [repo EXCEPT !.refs[request.branch] = request.head]
        <4>1. m \in Repository /\ Resolvable(m) /\ m.refs[request.branch] = request.head
          BY <2>0, MovedTyped DEF Repository
        <4>2. repo' = repo \/ repo' = [m EXCEPT !.at = request.branch]
          BY <2>5 DEF CreateBranch, Repository
        <4> HIDE DEF m
        <4> QED
          BY <2>0, <4>1, <4>2, SwitchedTyped
      <3> QED
        BY <2>5, <3>1 DEF CreateBranch, Report, Goto, local, Statuses, MayRaise
    <2>6. CASE Reinspect
      BY <2>6 DEF Reinspect, Begin, Goto, local, MayRaise
    <2>7. CASE ValidatePrepared
      BY <2>7 DEF ValidatePrepared, Report, Goto, Statuses, MayRaise
    <2>8. CASE StartWorker
      BY <2>8 DEF StartWorker, Goto, MayRaise
    <2>9. CASE InspectHead
      <3>1. HeadOf(repo) \in Commits
        BY DEF Repository, Resolvable, HeadOf
      <3>2. seen' \in Snapshot
        BY <2>9, <3>1 DEF InspectHead, Snapshot
      <3> QED
        BY <2>9, <3>2 DEF InspectHead, Goto, local, MayRaise
    <2>10. CASE InspectBranch
      <3>1. seen' \in Snapshot
        BY <2>10 DEF InspectBranch, Snapshot, BranchOf
      <3> QED
        BY <2>10, <3>1 DEF InspectBranch, Goto, local, MayRaise
    <2>11. CASE InspectStaged
      <3>1. seen' \in Snapshot
        BY <2>11 DEF InspectStaged, Snapshot, Repository
      <3> QED
        BY <2>11, <3>1 DEF InspectStaged, Goto, local, MayRaise
    <2>12. CASE InspectUnstaged
      <3>1. seen' \in Snapshot
        BY <2>12 DEF InspectUnstaged, Snapshot, Unstaged
      <3> QED
        BY <2>12, <3>1 DEF InspectUnstaged, Goto, local, MayRaise
    <2>13. CASE ValidateBoundary
      BY <2>13 DEF ValidateBoundary, Report, Goto, Statuses, MayRaise
    <2>14. CASE FingerprintPath
      BY <2>14 DEF FingerprintPath, Report, Goto, Statuses, MayRaise
    <2>15. CASE FingerprintDone
      BY <2>15 DEF FingerprintDone, Goto, MayRaise
    <2>16. CASE FingerprintFails
      BY <2>16 DEF FingerprintFails, Report, Statuses, MayRaise
    <2>17. CASE WorkerCompletes
      <3>1. repo' \in Repository /\ Resolvable(repo')
        BY <2>17, TouchedTyped DEF WorkerCompletes
      <3> QED
        <4>1. /\ phase' = "inspect_head" /\ purpose' = "post" /\ seen' = None /\ residue' = FALSE
              /\ UNCHANGED <<request, status, pre, post, started, current, verdict, evidence,
                             foreign, quiet>>
              /\ phase # "done"
          BY <2>17 DEF WorkerCompletes, Begin, Goto, local
        <4>2. {seen', pre', post'} \subseteq Snapshot \cup {None}
          BY <4>1
        <4> QED
          BY <3>1, <4>1, <4>2 DEF MayRaise
    <2>18. CASE WorkerUncertain
      BY <2>18 DEF WorkerUncertain, Report, local, Statuses, MayRaise
    <2>19. CASE Judge
      <3>1. current' \in DOMAIN request.checks \cup {NoCheck}
            /\ (phase' = "check" => current' # NoCheck)
        BY <2>19, <2>0 DEF Judge, Report, Goto, Remaining
      <3>2. status' \in Statuses \cup {"none"} /\ (status' = "none") = (phase' # "done")
            /\ phase' \in {"check", "done"}
        BY <2>19 DEF Judge, Report, Goto, Statuses
      <3> QED
        BY <2>19, <3>1, <3>2 DEF Judge
    <2>20. CASE CheckCompletes
      <3>1. repo' \in Repository /\ Resolvable(repo')
        BY <2>20, TouchedTyped DEF CheckCompletes
      <3> QED
        <4>1. /\ phase' = "inspect_head" /\ purpose' = "post" /\ seen' = None /\ residue' = FALSE
              /\ UNCHANGED <<request, status, pre, post, started, current, foreign, quiet>>
              /\ phase # "done" /\ verdict' \in {"zero", "nonzero", "technical"}
          BY <2>20 DEF CheckCompletes, Begin, Goto
        <4>2. DOMAIN evidence' \subseteq DOMAIN evidence \cup {current}
          BY <2>20 DEF CheckCompletes
        <4>3. current \in DOMAIN request.checks
          BY <2>20 DEF CheckCompletes
        <4>4. {seen', pre', post'} \subseteq Snapshot \cup {None}
          BY <4>1
        <4>5. DOMAIN evidence' \subseteq DOMAIN request'.checks
          BY <4>1, <4>2, <4>3
        <4> QED
          BY <3>1, <4>1, <4>4, <4>5 DEF MayRaise
    <2>21. CASE CheckUncertain
      BY <2>21 DEF CheckUncertain, Report, local, Statuses, MayRaise
    <2>22. CASE Raise
      BY <2>22 DEF Raise, Raised, Report, local, Statuses, MayRaise
    <2>23. CASE Interrupt
      BY <2>23 DEF Interrupt, Report, local, Statuses, MayRaise
    <2>24. CASE Interfere
      <3>1. repo' \in Repository /\ Resolvable(repo')
        BY <2>24, NudgedTyped DEF Interfere
      <3> QED
        <4>1. foreign' \in 0..MaxForeign
          BY <2>24 DEF Interfere
        <4>2. UNCHANGED <<request, phase, status, purpose, seen, pre, post, started, current,
                          verdict, evidence, residue>> /\ quiet' \in BOOLEAN
          BY <2>24 DEF Interfere, control, local
        <4> QED
          BY <3>1, <4>1, <4>2 DEF MayRaise
    <2>25. CASE UNCHANGED vars
      BY <2>25 DEF vars, control, local, MayRaise
    <2> QED
      BY <2>1, <2>2, <2>3, <2>4, <2>5, <2>6, <2>7, <2>8, <2>9, <2>10, <2>11, <2>12, <2>13,
         <2>14, <2>15, <2>16, <2>17, <2>18, <2>19, <2>20, <2>21, <2>22, <2>23, <2>24, <2>25
      DEF Next, Runner, Prepare, Inspect, Execute, Done
  <1> QED
    BY <1>1, <1>2, PTL DEF Spec

-----------------------------------------------------------------------------
(* What the phases and the snapshots mean. *)

\* Every step keeps what the phase says of the accepted snapshots.
LEMMA ControlStep == TypeOK /\ ControlInv /\ [Next]_vars => ControlInv'
  <1> SUFFICES ASSUME TypeOK, ControlInv, [Next]_vars
               PROVE  ControlInv'
    OBVIOUS
  <1> USE DEF ControlInv
  <1>1. CASE Resolve
    BY <1>1 DEF Resolve, Goto, Report, local
  <1>2. CASE InitialInspection
    BY <1>2 DEF InitialInspection, Goto, Report, local
  <1>3. CASE CompareBranch
    BY <1>3 DEF CompareBranch, Goto, Report, local
  <1>4. CASE Switch
    BY <1>4 DEF Switch, Goto, local
  <1>5. CASE CreateBranch
    BY <1>5 DEF CreateBranch, Goto, Report, local
  <1>6. CASE Reinspect
    BY <1>6 DEF Reinspect, Begin, Goto, local
  <1>7. CASE ValidatePrepared
    BY <1>7 DEF ValidatePrepared, Goto, Report, Boundary, Prepared, Changed, TypeOK
  <1>8. CASE StartWorker
    BY <1>8 DEF StartWorker, Goto
  <1>9. CASE InspectHead
    BY <1>9 DEF InspectHead, Goto, local
  <1>10. CASE InspectBranch
    BY <1>10 DEF InspectBranch, Goto, local
  <1>11. CASE InspectStaged
    BY <1>11 DEF InspectStaged, Goto, local
  <1>12. CASE InspectUnstaged
    BY <1>12 DEF InspectUnstaged, Goto, local
  <1>13. CASE ValidateBoundary
    BY <1>13 DEF ValidateBoundary, Goto, Report, Boundary, Changed, TypeOK
  <1>14. CASE FingerprintPath
    BY <1>14 DEF FingerprintPath, Goto, Report, Unread, Changed, Boundary
  <1>15. CASE FingerprintDone
    BY <1>15 DEF FingerprintDone, Goto, Unread, Changed, Boundary
  <1>16. CASE FingerprintFails
    BY <1>16 DEF FingerprintFails, Report, Boundary, Changed
  <1>17. CASE WorkerCompletes
    BY <1>17 DEF WorkerCompletes, Begin, Goto, local
  <1>18. CASE WorkerUncertain
    BY <1>18 DEF WorkerUncertain, Report, local
  <1>19. CASE Judge
    BY <1>19 DEF Judge, Goto, Report, Boundary, Changed
  <1>20. CASE CheckCompletes
    BY <1>20 DEF CheckCompletes, Begin, Goto
  <1>21. CASE CheckUncertain
    BY <1>21 DEF CheckUncertain, Report, local
  <1>22. CASE Raise
    BY <1>22 DEF Raise, MayRaise, Report, local
  <1>23. CASE Interrupt
    BY <1>23 DEF Interrupt, Report, local
  <1>24. CASE Interfere
    BY <1>24 DEF Interfere, control, local, Boundary, Changed
  <1>25. CASE UNCHANGED vars
    BY <1>25 DEF vars, control, local, Boundary, Changed
  <1> QED
    BY <1>1, <1>2, <1>3, <1>4, <1>5, <1>6, <1>7, <1>8, <1>9, <1>10, <1>11, <1>12, <1>13, <1>14, <1>15, <1>16, <1>17, <1>18, <1>19, <1>20, <1>21, <1>22, <1>23, <1>24, <1>25
    DEF Next, Runner, Prepare, Inspect, Execute, Done

\* Every step keeps what is known of processes that may still run.
LEMMA ResidueStep == TypeOK /\ ResidueInv /\ [Next]_vars => ResidueInv'
  <1> SUFFICES ASSUME TypeOK, ResidueInv, [Next]_vars
               PROVE  ResidueInv'
    OBVIOUS
  <1> USE DEF ResidueInv
  <1>1. CASE Resolve
    BY <1>1 DEF Resolve, Goto, Report, local
  <1>2. CASE InitialInspection
    BY <1>2 DEF InitialInspection, Goto, Report, local
  <1>3. CASE CompareBranch
    BY <1>3 DEF CompareBranch, Goto, Report, local
  <1>4. CASE Switch
    BY <1>4 DEF Switch, Goto, local
  <1>5. CASE CreateBranch
    BY <1>5 DEF CreateBranch, Goto, Report, local
  <1>6. CASE Reinspect
    BY <1>6 DEF Reinspect, Begin, Goto, local
  <1>7. CASE ValidatePrepared
    BY <1>7 DEF ValidatePrepared, Goto, Report, TypeOK
  <1>8. CASE StartWorker
    BY <1>8 DEF StartWorker, Goto
  <1>9. CASE InspectHead
    BY <1>9 DEF InspectHead, Goto, local
  <1>10. CASE InspectBranch
    BY <1>10 DEF InspectBranch, Goto, local
  <1>11. CASE InspectStaged
    BY <1>11 DEF InspectStaged, Goto, local
  <1>12. CASE InspectUnstaged
    BY <1>12 DEF InspectUnstaged, Goto, local
  <1>13. CASE ValidateBoundary
    BY <1>13 DEF ValidateBoundary, Goto, Report, TypeOK
  <1>14. CASE FingerprintPath
    BY <1>14 DEF FingerprintPath, Goto, Report
  <1>15. CASE FingerprintDone
    BY <1>15 DEF FingerprintDone, Goto
  <1>16. CASE FingerprintFails
    BY <1>16 DEF FingerprintFails, Report
  <1>17. CASE WorkerCompletes
    BY <1>17 DEF WorkerCompletes, Begin, Goto, local
  <1>18. CASE WorkerUncertain
    BY <1>18 DEF WorkerUncertain, Report, local
  <1>19. CASE Judge
    BY <1>19 DEF Judge, Goto, Report
  <1>20. CASE CheckCompletes
    BY <1>20 DEF CheckCompletes, Begin, Goto
  <1>21. CASE CheckUncertain
    BY <1>21 DEF CheckUncertain, Report, local
  <1>22. CASE Raise
    BY <1>22 DEF Raise, MayRaise, Report, local
  <1>23. CASE Interrupt
    BY <1>23 DEF Interrupt, Report, local
  <1>24. CASE Interfere
    BY <1>24 DEF Interfere, control, local
  <1>25. CASE UNCHANGED vars
    BY <1>25 DEF vars, control, local
  <1> QED
    BY <1>1, <1>2, <1>3, <1>4, <1>5, <1>6, <1>7, <1>8, <1>9, <1>10, <1>11, <1>12, <1>13, <1>14, <1>15, <1>16, <1>17, <1>18, <1>19, <1>20, <1>21, <1>22, <1>23, <1>24, <1>25
    DEF Next, Runner, Prepare, Inspect, Execute, Done

\* Every step but a foreign one keeps what the inspection has read.
LEMMA InspectionStep == TypeOK /\ ControlInv /\ InspectionInv /\ [Next]_vars => InspectionInv'
  <1> SUFFICES ASSUME TypeOK, ControlInv, InspectionInv, [Next]_vars
               PROVE  InspectionInv'
    OBVIOUS
  <1> USE DEF InspectionInv
  <1>1. CASE Resolve
    BY <1>1 DEF Resolve, Reading, Goto, Report, local
  <1>2. CASE InitialInspection
    BY <1>2 DEF InitialInspection, Reading, Goto, Report, local
  <1>3. CASE CompareBranch
    BY <1>3 DEF CompareBranch, Reading, Goto, Report, local
  <1>4. CASE Switch
    BY <1>4 DEF Switch, Reading, Goto, local
  <1>5. CASE CreateBranch
    BY <1>5 DEF CreateBranch, Reading, Goto, Report, local
  <1>6. CASE Reinspect
    BY <1>6 DEF Reinspect, Reading, Begin, Goto, local
  <1>7. CASE ValidatePrepared
    BY <1>7 DEF ValidatePrepared, Reading, Goto, Report, TypeOK
  <1>8. CASE StartWorker
    BY <1>8 DEF StartWorker, Reading, Goto
  <1>9. CASE InspectHead
    BY <1>9 DEF InspectHead, Reading, Goto, local
  <1>10. CASE InspectBranch
    BY <1>10 DEF InspectBranch, Reading, Goto, local
  <1>11. CASE InspectStaged
    BY <1>11 DEF InspectStaged, Reading, Goto, local
  <1>12. CASE InspectUnstaged
    BY <1>12 DEF InspectUnstaged, Reading, Goto, local
  <1>13. CASE ValidateBoundary
    BY <1>13 DEF ValidateBoundary, Exact, Reading, Goto, Report, TypeOK
  <1>14. CASE FingerprintPath
    BY <1>14 DEF FingerprintPath, Exact, Reading, Goto, Report
  <1>15. CASE FingerprintDone
    BY <1>15 DEF FingerprintDone, Exact, Reading, Goto
  <1>16. CASE FingerprintFails
    BY <1>16 DEF FingerprintFails, Reading, Report
  <1>17. CASE WorkerCompletes
    BY <1>17 DEF WorkerCompletes, Reading, Begin, Goto, local
  <1>18. CASE WorkerUncertain
    BY <1>18 DEF WorkerUncertain, Reading, Report, local
  <1>19. CASE Judge
    BY <1>19 DEF Judge, Reading, Goto, Report
  <1>20. CASE CheckCompletes
    BY <1>20 DEF CheckCompletes, Reading, Begin, Goto
  <1>21. CASE CheckUncertain
    BY <1>21 DEF CheckUncertain, Reading, Report, local
  <1>22. CASE Raise
    BY <1>22 DEF Raise, Reading, Report, local
  <1>23. CASE Interrupt
    BY <1>23 DEF Interrupt, Reading, Report, local
  <1>24. CASE Interfere
    BY <1>24 DEF Interfere, Reading, control, local
  <1>25. CASE UNCHANGED vars
    BY <1>25 DEF vars, Exact, Reading, control, local
  <1> QED
    BY <1>1, <1>2, <1>3, <1>4, <1>5, <1>6, <1>7, <1>8, <1>9, <1>10, <1>11, <1>12, <1>13, <1>14, <1>15, <1>16, <1>17, <1>18, <1>19, <1>20, <1>21, <1>22, <1>23, <1>24, <1>25
    DEF Next, Runner, Prepare, Inspect, Execute, Done

\* Contained checks keep the worktree that the others saw.
LEMMA EvidenceStep == TypeOK /\ ControlInv /\ EvidenceInv /\ [Next]_vars => EvidenceInv'
  <1> SUFFICES ASSUME TypeOK, ControlInv, EvidenceInv, [Next]_vars
               PROVE  EvidenceInv'
    OBVIOUS
  <1> USE DEF EvidenceInv
  <1>1. CASE Resolve
    BY <1>1 DEF Resolve, Goto, Report, local
  <1>2. CASE InitialInspection
    BY <1>2 DEF InitialInspection, Goto, Report, local
  <1>3. CASE CompareBranch
    BY <1>3 DEF CompareBranch, Goto, Report, local
  <1>4. CASE Switch
    BY <1>4 DEF Switch, Goto, local
  <1>5. CASE CreateBranch
    BY <1>5 DEF CreateBranch, Goto, Report, local
  <1>6. CASE Reinspect
    BY <1>6 DEF Reinspect, Begin, Goto, local
  <1>7. CASE ValidatePrepared
    BY <1>7 DEF ValidatePrepared, Goto, Report, TypeOK
  <1>8. CASE StartWorker
    BY <1>8 DEF StartWorker, Goto
  <1>9. CASE InspectHead
    BY <1>9 DEF InspectHead, Goto, local
  <1>10. CASE InspectBranch
    BY <1>10 DEF InspectBranch, Goto, local
  <1>11. CASE InspectStaged
    BY <1>11 DEF InspectStaged, Goto, local
  <1>12. CASE InspectUnstaged
    BY <1>12 DEF InspectUnstaged, Goto, local
  <1>13. CASE ValidateBoundary
    BY <1>13 DEF ValidateBoundary, Goto, Report, TypeOK
  <1>14. CASE FingerprintPath
    BY <1>14 DEF FingerprintPath, Goto, Report
  <1>15. CASE FingerprintDone
    BY <1>15 DEF FingerprintDone, Goto
  <1>16. CASE FingerprintFails
    BY <1>16 DEF FingerprintFails, Report
  <1>17. CASE WorkerCompletes
    BY <1>17 DEF WorkerCompletes, Begin, Goto, local
  <1>18. CASE WorkerUncertain
    BY <1>18 DEF WorkerUncertain, Report, local
  <1>19. CASE Judge
    BY <1>19 DEF Judge, Goto, Report
  <1>20. CASE CheckCompletes
    BY <1>20 DEF CheckCompletes, Begin, Goto
  <1>21. CASE CheckUncertain
    BY <1>21 DEF CheckUncertain, Report, local
  <1>22. CASE Raise
    BY <1>22 DEF Raise, Report, local
  <1>23. CASE Interrupt
    BY <1>23 DEF Interrupt, Report, local
  <1>24. CASE Interfere
    BY <1>24, RuntimeWorkerAssumption DEF Interfere, TypeOK, control, local
  <1>25. CASE UNCHANGED vars
    BY <1>25 DEF vars, control, local
  <1> QED
    BY <1>1, <1>2, <1>3, <1>4, <1>5, <1>6, <1>7, <1>8, <1>9, <1>10, <1>11, <1>12, <1>13, <1>14, <1>15, <1>16, <1>17, <1>18, <1>19, <1>20, <1>21, <1>22, <1>23, <1>24, <1>25
    DEF Next, Runner, Prepare, Inspect, Execute, Done

-----------------------------------------------------------------------------
(* A validated run. *)

\* A run becomes validated by the judgement after the last inspection alone, and
\* then it is over.
LEMMA OnlyJudged ==
  ASSUME TypeOK, [Next]_vars, status' = "VALIDATED"
  PROVE  \/ UNCHANGED vars
         \/ /\ phase = "judge" /\ Remaining = {} /\ verdict \in {"none", "zero"}
            /\ UNCHANGED <<request, repo, post, print, evidence, foreign, quiet>>
  <1>1. CASE Judge
    BY <1>1 DEF Judge, Report, Goto, TypeOK
  <1>2. CASE UNCHANGED vars
    BY <1>2
  <1>3. ASSUME phase # "done", status' = status
        PROVE  FALSE
    BY <1>3 DEF TypeOK
  <1>4. CASE Resolve
    BY <1>3, <1>4 DEF Resolve, Goto, Report, local
  <1>5. CASE InitialInspection
    BY <1>3, <1>5 DEF InitialInspection, Goto, Report, local
  <1>6. CASE CompareBranch
    BY <1>3, <1>6 DEF CompareBranch, Goto, Report, local
  <1>7. CASE Switch
    BY <1>3, <1>7 DEF Switch, Goto, local
  <1>8. CASE CreateBranch
    BY <1>3, <1>8 DEF CreateBranch, Goto, Report, local
  <1>9. CASE Reinspect
    BY <1>3, <1>9 DEF Reinspect, Begin, Goto, local
  <1>10. CASE ValidatePrepared
    BY <1>3, <1>10 DEF ValidatePrepared, Goto, Report
  <1>11. CASE StartWorker
    BY <1>3, <1>11 DEF StartWorker, Goto
  <1>12. CASE InspectHead
    BY <1>3, <1>12 DEF InspectHead, Goto, local
  <1>13. CASE InspectBranch
    BY <1>3, <1>13 DEF InspectBranch, Goto, local
  <1>14. CASE InspectStaged
    BY <1>3, <1>14 DEF InspectStaged, Goto, local
  <1>15. CASE InspectUnstaged
    BY <1>3, <1>15 DEF InspectUnstaged, Goto, local
  <1>16. CASE ValidateBoundary
    BY <1>3, <1>16 DEF ValidateBoundary, Goto, Report
  <1>17. CASE FingerprintPath
    BY <1>3, <1>17 DEF FingerprintPath, Goto, Report
  <1>18. CASE FingerprintDone
    BY <1>3, <1>18 DEF FingerprintDone, Goto
  <1>19. CASE FingerprintFails
    BY <1>3, <1>19 DEF FingerprintFails, Report
  <1>20. CASE WorkerCompletes
    BY <1>3, <1>20 DEF WorkerCompletes, Begin, Goto, local
  <1>21. CASE WorkerUncertain
    BY <1>3, <1>21 DEF WorkerUncertain, Report, local
  <1>22. CASE CheckCompletes
    BY <1>3, <1>22 DEF CheckCompletes, Begin, Goto
  <1>23. CASE CheckUncertain
    BY <1>3, <1>23 DEF CheckUncertain, Report, local
  <1>24. CASE Raise
    BY <1>3, <1>24 DEF Raise, Report, local, Raised
  <1>25. CASE Interrupt
    BY <1>3, <1>25 DEF Interrupt, Report, local
  <1>26. CASE Interfere
    BY <1>3, <1>26 DEF Interfere, control, local
  <1> QED
    BY <1>1, <1>2, <1>4, <1>5, <1>6, <1>7, <1>8, <1>9, <1>10, <1>11, <1>12, <1>13, <1>14, <1>15, <1>16, <1>17, <1>18, <1>19, <1>20, <1>21, <1>22, <1>23, <1>24, <1>25, <1>26
    DEF Next, Runner, Prepare, Inspect, Execute, Done

\* The judgement of an undisturbed inspection is exact.
LEMMA ExactStep ==
  TypeOK /\ ControlInv /\ InspectionInv /\ ValidatedIsExact /\ [Next]_vars => ValidatedIsExact'
  <1> SUFFICES ASSUME TypeOK, ControlInv, InspectionInv, ValidatedIsExact, [Next]_vars,
                      status' = "VALIDATED", quiet'
               PROVE  ValidatedIsExact'
    BY DEF ValidatedIsExact
  <1>1. CASE UNCHANGED vars
    BY <1>1 DEF ValidatedIsExact, vars, control, local
  <1>2. CASE /\ phase = "judge"
             /\ UNCHANGED <<request, repo, post, print, evidence, foreign, quiet>>
    <2>1. /\ Exact(post) /\ Boundary(post) /\ DOMAIN print = Changed(post)
          /\ \A p \in DOMAIN print : print[p] = repo.tree[p]
          /\ pre.head = request.head /\ pre.branch = request.branch
      BY <1>2 DEF ControlInv, InspectionInv
    <2>2. BranchOf(repo) = request.branch /\ HeadOf(repo) = request.head
      BY <2>1 DEF Exact, Boundary
    <2>3. repo.at = request.branch /\ repo.refs[request.branch] = request.head
      BY <2>2, RequestTyped, RuntimeWorkerAssumption DEF BranchOf, HeadOf, TypeOK
    <2>4. Changed(post) = Changes(repo) /\ repo.staged = {}
      BY <2>1 DEF Exact, Boundary, Changed, Changes
    <2>5. Changes(repo) \subseteq request.permitted
      BY <2>1, <2>4 DEF Boundary
    <2> QED
      BY <1>2, <2>1, <2>3, <2>4, <2>5 DEF ValidatedIsExact
  <1> QED
    BY <1>1, <1>2, OnlyJudged

\* It is also of the worktree on which the checks were satisfied.
LEMMA TestedStep ==
  TypeOK /\ ControlInv /\ InspectionInv /\ EvidenceInv /\ ValidatedIsTested /\ [Next]_vars
    => ValidatedIsTested'
  <1> SUFFICES ASSUME TypeOK, ControlInv, InspectionInv, EvidenceInv, ValidatedIsTested,
                      [Next]_vars, status' = "VALIDATED",
                      request'.adapter = "contained", foreign' = 0
               PROVE  ValidatedIsTested'
    BY DEF ValidatedIsTested
  <1>1. CASE UNCHANGED vars
    BY <1>1 DEF ValidatedIsTested, vars, control, local
  <1>2. CASE /\ phase = "judge" /\ Remaining = {}
             /\ UNCHANGED <<request, repo, post, print, evidence, foreign, quiet>>
    <2>1. DOMAIN evidence = DOMAIN request.checks
      BY <1>2 DEF TypeOK, Remaining
    <2>2. /\ \A i \in DOMAIN evidence : evidence[i] = repo.tree
          /\ Exact(post) /\ DOMAIN print = Changed(post)
          /\ \A p \in DOMAIN print : print[p] = repo.tree[p]
      BY <1>2 DEF ControlInv, InspectionInv, EvidenceInv
    <2>3. \A p \in Paths : p \notin DOMAIN print => repo.tree[p] = Clean
      BY <2>2 DEF Exact, Changed, Unstaged
    <2> QED
      BY <1>2, <2>1, <2>2, <2>3 DEF ValidatedIsTested
  <1> QED
    BY <1>1, <1>2, OnlyJudged

\* The invariant of a worker run, inductive relative to its types.
THEOREM Invariance == Spec => []WorkerInv
  <1>1. Init => WorkerInv
    <2> SUFFICES ASSUME Init
                 PROVE  WorkerInv
      OBVIOUS
    <2>1. /\ pre = None /\ phase = "resolve" /\ purpose = "initial" /\ residue = FALSE
          /\ status = "none" /\ DOMAIN evidence = {} /\ quiet = TRUE
      BY DEF Init
    <2> QED
      BY <2>1 DEF WorkerInv, ControlInv, ResidueInv, InspectionInv, EvidenceInv, Reading,
                  ValidatedIsExact, ValidatedIsTested
  <1>2. TypeOK /\ WorkerInv /\ [Next]_vars => WorkerInv'
    BY ControlStep, ResidueStep, InspectionStep, EvidenceStep, ExactStep, TestedStep
    DEF WorkerInv
  <1> QED
    BY <1>1, <1>2, TypeCorrect, PTL DEF Spec

\* A validated run leaves the requested branch at the frozen commit with nothing
\* staged, changed only the permitted paths, and fingerprinted them as they are,
\* whatever worker, checks and others did before the last inspection.
THEOREM ValidatedExactly == Spec => []ValidatedIsExact
  BY Invariance, PTL DEF WorkerInv

\* With contained checks and nobody else, every declared check was satisfied on
\* the worktree that was fingerprinted.
THEOREM ValidatedAsTested == Spec => []ValidatedIsTested
  BY Invariance, PTL DEF WorkerInv

\* What may still be running is reported as interrupted or untrustworthy.
THEOREM ResidueReported == Spec => []ResidueIsReported
  <1>1. WorkerInv => ResidueIsReported
    BY DEF WorkerInv, ResidueInv, ResidueIsReported, Outcome
  <1> QED
    BY <1>1, Invariance, PTL

\* Preparation never touches worktree and index, and moves no existing branch.
THEOREM PreparationSafe == Spec => PreparationKeepsWork
  <1>1. TypeOK /\ [Next]_vars =>
          [Prepare =>
             /\ repo'.tree = repo.tree /\ repo'.staged = repo.staged
             /\ \A b \in Branches : repo'.refs[b] # repo.refs[b]
                  => repo.refs[b] = Absent /\ repo'.refs[b] = request.head]_vars
    <2> SUFFICES ASSUME TypeOK, Prepare
                 PROVE  /\ repo'.tree = repo.tree /\ repo'.staged = repo.staged
                        /\ \A b \in Branches : repo'.refs[b] # repo.refs[b]
                             => repo.refs[b] = Absent /\ repo'.refs[b] = request.head
      OBVIOUS
    <2>1. repo \in Repository /\ request.branch \in Branches
      BY RequestTyped DEF TypeOK
    <2>2. CASE Switch
      BY <2>1, <2>2 DEF Switch, Repository
    <2>3. CASE CreateBranch
      BY <2>1, <2>3 DEF CreateBranch, Repository
    <2>4. CASE repo' = repo
      BY <2>4
    <2> QED
      BY <2>2, <2>3, <2>4
      DEF Prepare, Resolve, InitialInspection, CompareBranch, Reinspect, ValidatePrepared, StartWorker
  <1> QED
    BY <1>1, TypeCorrect, PTL DEF Spec, PreparationKeepsWork

=============================================================================
