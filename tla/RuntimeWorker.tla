---------------------------- MODULE RuntimeWorker ----------------------------
(***************************************************************************)
(* run_runtime_worker of runtime_worker.py: HOST prepares the branch of an *)
(* authorized transition, has one worker attempt executed, executes the    *)
(* declared checks, and inspects the repository after the worker and after *)
(* every check.  The worker and the checks may do to the repository what   *)
(* they like, as far as their containment lets them; somebody else may     *)
(* change it between any two commands; commands fail; an interrupt arrives *)
(* anywhere.                                                               *)
(*                                                                         *)
(* The worktree is, for every path, Clean (as at HEAD), some other content *)
(* or Unreadable (a directory, a device, a file that cannot be opened).    *)
(* Unstaged and untracked paths are not told apart.                        *)
(***************************************************************************)
EXTENDS Integers, FiniteSets, Sequences

CONSTANTS
  Branches, Commits,
  Absent,           \* the commit of a branch that does not exist
  Detached,         \* the branch that a snapshot of a detached HEAD has
  Paths,            \* numbered in the order of their names
  Contents,         \* what a path may hold
  Clean, Unreadable,
  None,             \* no snapshot, no fingerprint
  Requests,         \* what the caller asks for
  MaxForeign        \* how often somebody else changes the repository

Kinds    == {"focused", "publication"}
Statuses == {"PREPARATION_FAILED", "WORKER_UNTRUSTWORTHY", "BOUNDARY_INVALID",
             "FOCUSED_UNSATISFIED", "PUBLICATION_UNSATISFIED",
             "CHECK_RUNTIME_FAILURE", "CHECK_UNTRUSTWORTHY", "VALIDATED"}

\* An authorized transition: whether its arguments have the required form; the
\* check executor, if there is one, and whether it denies writes; the intended
\* ref's observation, of the ref that was requested or not; the existing work,
\* of this checkpoint or not.
Request == [well_formed : BOOLEAN, ref_matches : BOOLEAN,
            adapter : {"none", "open", "contained"},
            match : {"none", "unique", "ambiguous"}, same_checkpoint : BOOLEAN,
            branch : Branches, head : Commits, permitted : SUBSET Paths,
            checks : Seq(Kinds)]

\* HEAD is at a branch or, detached, at a commit.
Repository == [refs : [Branches -> Commits \cup {Absent}], at : Branches \cup Commits,
               tree : [Paths -> Contents \cup {Clean, Unreadable}],
               staged : SUBSET Paths]

Snapshot == [head : Commits, branch : Branches \cup {Detached},
             staged : SUBSET Paths, unstaged : SUBSET Paths]

ASSUME RuntimeWorkerAssumption ==
  /\ Absent \notin Commits /\ Detached \notin Branches /\ Branches \cap Commits = {}
  /\ Clean \notin Contents /\ Unreadable \notin Contents \cup {Clean}
  /\ None \notin Snapshot
  /\ Paths \subseteq Nat /\ IsFiniteSet(Paths)
  /\ Requests \subseteq Request
  /\ MaxForeign \in Nat

VARIABLES
  request,   \* the arguments
  repo,      \* the repository
  phase,     \* the next step
  purpose,   \* what the inspection that is under way is for
  seen,      \* the snapshot it is taking: RepositoryInspection
  pre, post, \* pre, post
  started,   \* started
  entries,   \* the fingerprint that is being computed, by path
  print,     \* fingerprint
  current,   \* the check that was executed last
  verdict,   \* its completion
  evidence,  \* history: the worktree each satisfied check left
  status,    \* the result's status
  residue,   \* a worker or a check is still running
  foreign,   \* how often somebody else has changed the repository
  quiet      \* history: nobody else has, since the last inspection began

control == <<phase, status>>
local   == <<pre, post, started, entries, print, current, verdict, evidence>>
vars    == <<request, repo, control, purpose, seen, local, residue, foreign, quiet>>

HeadOf(r)   == IF r.at \in Branches THEN r.refs[r.at] ELSE r.at
BranchOf(r) == IF r.at \in Branches THEN r.at ELSE Detached
Unstaged(r) == {p \in Paths : r.tree[p] # Clean} \ r.staged
Changed(s)  == s.staged \cup s.unstaged
Changes(r)  == r.staged \cup Unstaged(r)

\* A repository whose HEAD can be resolved.
Resolvable(r) == HeadOf(r) # Absent

NoCheck == 0

Init ==
  /\ request \in Requests
  /\ repo \in Repository /\ Resolvable(repo)
  /\ phase = "resolve" /\ purpose = "initial" /\ seen = None
  /\ pre = None /\ post = None /\ started = FALSE
  /\ entries = None /\ print = None
  /\ current = NoCheck /\ verdict = "none" /\ evidence = <<>>
  /\ status = "none" /\ residue = FALSE /\ foreign = 0 /\ quiet = TRUE

Goto(p) == phase' = p /\ UNCHANGED status
Report(s) == phase' = "done" /\ status' = s

\* Mutation: a check that may still be running is a failed check.
OutcomeOfTheWorker(s) ==
  IF s \in {"WORKER_UNTRUSTWORTHY", "BOUNDARY_INVALID"}
  THEN "INTERRUPTED_OR_UNTRUSTWORTHY" ELSE "RUNTIME_EXECUTION_FAILURE"

\* report(): how a status that is not VALIDATED is classified.
Outcome(s) ==
  IF s \in {"WORKER_UNTRUSTWORTHY", "CHECK_UNTRUSTWORTHY", "BOUNDARY_INVALID"}
  THEN "INTERRUPTED_OR_UNTRUSTWORTHY" ELSE "RUNTIME_EXECUTION_FAILURE"

-----------------------------------------------------------------------------
(* Preparation. *)

\* The status of resolve_execution_baseline; it has a baseline if it is one of
\* the first two.
Resolution ==
  IF ~request.ref_matches THEN "INPUT_MISMATCH"
  ELSE CASE request.match = "none"      -> "NEW_WORK"
         [] request.match = "ambiguous" -> "AMBIGUOUS_EXISTING_WORK"
         [] OTHER -> IF request.same_checkpoint THEN "EXISTING_WORK" ELSE "INPUT_MISMATCH"

Resolve ==
  /\ phase = "resolve"
  /\ IF Resolution \notin {"NEW_WORK", "EXISTING_WORK"} \/ ~request.well_formed
     THEN Report("PREPARATION_FAILED")
     ELSE IF request.checks # <<>> /\ request.adapter = "none"
          THEN Report("CHECK_RUNTIME_FAILURE")
          ELSE Goto("inspect_head")
  /\ UNCHANGED <<request, repo, purpose, seen, local, residue, foreign, quiet>>

\* inspect_repository: four commands, one after the other.
Begin(why) == purpose' = why /\ seen' = None /\ Goto("inspect_head")

InspectHead ==
  /\ phase = "inspect_head"
  /\ seen' = [head |-> HeadOf(repo), branch |-> Detached, staged |-> {}, unstaged |-> {}]
  /\ quiet' = TRUE
  /\ Goto("inspect_branch")
  /\ UNCHANGED <<request, repo, purpose, local, residue, foreign>>

InspectBranch ==
  /\ phase = "inspect_branch"
  /\ seen' = [seen EXCEPT !.branch = BranchOf(repo)]
  /\ Goto("inspect_staged")
  /\ UNCHANGED <<request, repo, purpose, local, residue, foreign, quiet>>

InspectStaged ==
  /\ phase = "inspect_staged"
  /\ seen' = [seen EXCEPT !.staged = repo.staged]
  /\ Goto("inspect_unstaged")
  /\ UNCHANGED <<request, repo, purpose, local, residue, foreign, quiet>>

InspectUnstaged ==
  /\ phase = "inspect_unstaged"
  /\ seen' = [seen EXCEPT !.unstaged = Unstaged(repo)]
  /\ Goto("inspected")
  /\ UNCHANGED <<request, repo, purpose, local, residue, foreign, quiet>>

\* A clean worktree is required to prepare.
InitialInspection ==
  /\ phase = "inspected" /\ purpose = "initial"
  /\ IF Changed(seen) = {} THEN Goto("compare") ELSE Report("PREPARATION_FAILED")
  /\ UNCHANGED <<request, repo, purpose, seen, local, residue, foreign, quiet>>

\* The branch has to be where the baseline is; a new one need not exist yet.
CompareBranch ==
  /\ phase = "compare"
  /\ LET at == repo.refs[request.branch]
     IN  IF at = Absent
         THEN IF Resolution = "NEW_WORK" THEN Goto("create") ELSE Report("PREPARATION_FAILED")
         ELSE IF at # request.head THEN Report("PREPARATION_FAILED")
         ELSE IF seen.branch = request.branch THEN Goto("reinspect") ELSE Goto("switch")
  /\ UNCHANGED <<request, repo, purpose, seen, local, residue, foreign, quiet>>

\* git switch -- branch; if it has been deleted, git fails.
Switch ==
  /\ phase = "switch" /\ repo.refs[request.branch] # Absent
  /\ repo' = [repo EXCEPT !.at = request.branch]
  /\ Goto("reinspect")
  /\ UNCHANGED <<request, purpose, seen, local, residue, foreign, quiet>>

\* Mutation: git switch -C.
CreateOrReset ==
  /\ phase = "create"
  /\ repo' = [repo EXCEPT !.refs[request.branch] = request.head, !.at = request.branch]
  /\ Goto("reinspect")
  /\ UNCHANGED <<request, purpose, seen, local, residue, foreign, quiet>>

\* git switch -c branch head: it fails if the branch has come to exist.
CreateBranch ==
  /\ phase = "create"
  /\ IF repo.refs[request.branch] = Absent
     THEN /\ repo' = [repo EXCEPT !.refs[request.branch] = request.head, !.at = request.branch]
          /\ Goto("reinspect")
     ELSE UNCHANGED repo /\ Report("PREPARATION_FAILED")
  /\ UNCHANGED <<request, purpose, seen, local, residue, foreign, quiet>>

Reinspect ==
  /\ phase = "reinspect"
  /\ Begin("prepared")
  /\ UNCHANGED <<request, repo, local, residue, foreign, quiet>>

\* validate_pre_worker_preparation, and the branch that was prepared.
Prepared(s) ==
  /\ Changed(s) = {}
  /\ s.head = request.head
  /\ s.branch = request.branch

ValidatePrepared ==
  /\ phase = "inspected" /\ purpose = "prepared"
  /\ IF Prepared(seen)
     THEN pre' = seen /\ Goto("start")
     ELSE UNCHANGED pre /\ Report("PREPARATION_FAILED")
  /\ UNCHANGED <<request, repo, purpose, seen, post, started, entries, print, current,
                 verdict, evidence, residue, foreign, quiet>>

-----------------------------------------------------------------------------
(* The worker attempt and the checks. *)

\* What a process with the runner's own access to the repository can leave.
HeadsOf(r) ==
  {r}
  \cup {[r EXCEPT !.refs[b] = c] : b \in {r.at} \cap Branches, c \in Commits}
  \cup {[r EXCEPT !.refs[b] = Absent] : b \in Branches \ {r.at}}
  \cup {[r EXCEPT !.at = x] : x \in Commits \cup {b \in Branches : r.refs[b] # Absent}}

With(r, t, s) == [r EXCEPT !.tree = t, !.staged = s]

Touched(r) ==
  {With(h, t, s) :
     h \in HeadsOf(r), t \in [Paths -> Contents \cup {Clean, Unreadable}], s \in SUBSET Paths}

StartWorker ==
  /\ phase = "start"
  /\ started' = TRUE /\ residue' = TRUE
  /\ Goto("worker")
  /\ UNCHANGED <<request, repo, purpose, seen, pre, post, entries, print, current,
                 verdict, evidence, foreign, quiet>>

\* The executor attests that its attempt has ended.
WorkerCompletes ==
  /\ phase = "worker"
  /\ repo' \in Touched(repo) /\ residue' = FALSE
  /\ Begin("post")
  /\ UNCHANGED <<request, local, foreign, quiet>>

\* It does not attest it, or it raises an exception.
WorkerUncertain ==
  /\ phase = "worker"
  /\ Report("WORKER_UNTRUSTWORTHY")
  /\ UNCHANGED <<request, repo, purpose, seen, local, residue, foreign, quiet>>

\* Mutation: the snapshots' commits are not compared.
BoundaryOfPaths(s) ==
  s.branch = pre.branch /\ s.staged = {} /\ Changed(s) \subseteq request.permitted

\* inspect_boundary, after the worker and after every check.
Boundary(s) ==
  /\ s.head = pre.head /\ s.branch = pre.branch
  /\ Changed(s) \subseteq request.permitted
  /\ s.staged = {}

ValidateBoundary ==
  /\ phase = "inspected" /\ purpose = "post"
  /\ post' = seen
  /\ IF Boundary(seen)
     THEN entries' = <<>> /\ UNCHANGED print /\ Goto("fingerprint")
     ELSE print' = None /\ UNCHANGED entries /\ Report("BOUNDARY_INVALID")
  /\ UNCHANGED <<request, repo, purpose, seen, pre, started, current, verdict, evidence,
                 residue, foreign, quiet>>

\* fingerprint_worktree reads the changed paths in order.
Unread == Changed(post) \ DOMAIN entries

FingerprintPath ==
  /\ phase = "fingerprint"
  /\ \E p \in Unread :
       /\ \A q \in Unread : p <= q
       /\ IF repo.tree[p] = Unreadable
          THEN print' = None /\ UNCHANGED entries /\ Report("BOUNDARY_INVALID")
          ELSE /\ entries' = [q \in DOMAIN entries \cup {p} |->
                                IF q = p THEN repo.tree[p] ELSE entries[q]]
               /\ UNCHANGED print /\ Goto("fingerprint")
  /\ UNCHANGED <<request, repo, purpose, seen, pre, post, started, current,
                 verdict, evidence, residue, foreign, quiet>>

FingerprintDone ==
  /\ phase = "fingerprint" /\ Unread = {}
  /\ print' = entries
  /\ Goto("judge")
  /\ UNCHANGED <<request, repo, purpose, seen, pre, post, started, entries, current,
                 verdict, evidence, residue, foreign, quiet>>

\* The fingerprint or the repository's identity cannot be read.
FingerprintFails ==
  /\ phase \in {"fingerprint", "judge"}
  /\ print' = None /\ Report("BOUNDARY_INVALID")
  /\ UNCHANGED <<request, repo, purpose, seen, pre, post, started, entries, current,
                 verdict, evidence, residue, foreign, quiet>>

\* The checks in the order of their execution: the focused ones come first.
Precedes(i, j) ==
  LET a == request.checks[i] b == request.checks[j]
  IN  IF a = b THEN i < j ELSE a = "focused"

\* Mutation: the loop runs over the focused checks alone.
FocusedOnly == {i \in DOMAIN request.checks : request.checks[i] = "focused"} \ DOMAIN evidence

\* Mutation: a check that has been satisfied is executed again.
AllChecks == DOMAIN request.checks

Remaining == DOMAIN request.checks \ DOMAIN evidence

\* What follows a valid boundary: the judgement on the check that was executed
\* last, the next check, or the end.
Judge ==
  /\ phase = "judge"
  /\ IF verdict \in {"none", "zero"} /\ Remaining # {}
     THEN /\ current' \in {i \in Remaining : \A j \in Remaining \ {i} : Precedes(i, j)}
          /\ residue' = TRUE
          /\ Goto("check")
     ELSE /\ Report(CASE verdict = "technical" -> "CHECK_RUNTIME_FAILURE"
                      [] verdict = "nonzero" ->
                           IF request.checks[current] = "focused" THEN "FOCUSED_UNSATISFIED"
                           ELSE "PUBLICATION_UNSATISFIED"
                      [] OTHER -> "VALIDATED")
          /\ UNCHANGED <<current, residue>>
  /\ UNCHANGED <<request, repo, purpose, seen, pre, post, started, entries, print, verdict,
                 evidence, foreign, quiet>>

\* A check returns, reliably: with a code, or unable to run.
CheckCompletes ==
  /\ phase = "check"
  /\ repo' \in IF request.adapter = "contained" THEN {repo} ELSE Touched(repo)
  /\ verdict' \in {"zero", "nonzero", "technical"}
  /\ evidence' = IF verdict' = "zero"
                 THEN [i \in DOMAIN evidence \cup {current} |->
                         IF i = current THEN repo'.tree ELSE evidence[i]]
                 ELSE evidence
  /\ residue' = FALSE
  /\ Begin("post")
  /\ UNCHANGED <<request, pre, post, started, entries, print, current, foreign, quiet>>

\* It raises, is interrupted, or returns something else.
CheckUncertain ==
  /\ phase = "check"
  /\ Report("CHECK_UNTRUSTWORTHY")
  /\ UNCHANGED <<request, repo, purpose, seen, local, residue, foreign, quiet>>

-----------------------------------------------------------------------------
(* Failures and interference. *)

\* A step at which a command or a call may fail with an exception.
MayRaise == {"inspect_head", "inspect_branch", "inspect_staged", "inspect_unstaged",
             "inspected", "compare", "switch", "create"}

\* Mutation: the outcome of a failed preparation in place of its status.
RaisedOutcome == IF started THEN "WORKER_UNTRUSTWORTHY" ELSE "RUNTIME_EXECUTION_FAILURE"

\* except Exception
Raised == IF started THEN "WORKER_UNTRUSTWORTHY" ELSE "PREPARATION_FAILED"

Raise ==
  /\ phase \in MayRaise
  /\ Report(Raised)
  /\ UNCHANGED <<request, repo, purpose, seen, local, residue, foreign, quiet>>

\* except (KeyboardInterrupt, SystemExit)
Interrupt ==
  /\ phase \notin {"resolve", "check", "done"}
  /\ Report("WORKER_UNTRUSTWORTHY")
  /\ UNCHANGED <<request, repo, purpose, seen, local, residue, foreign, quiet>>

\* Somebody else edits or stages a path, moves a branch or switches to another.
Nudged(r) ==
  {[r EXCEPT !.tree[p] = c] : p \in Paths, c \in Contents \cup {Clean, Unreadable}}
  \cup {[r EXCEPT !.staged = s] : s \in SUBSET Paths}
  \cup {[r EXCEPT !.refs[b] = c] : b \in Branches, c \in Commits}
  \cup HeadsOf(r)

Interfere ==
  /\ phase # "done" /\ foreign < MaxForeign
  /\ repo' \in Nudged(repo) \ {repo}
  /\ foreign' = foreign + 1 /\ quiet' = FALSE
  /\ UNCHANGED <<request, control, purpose, seen, local, residue>>

Prepare == \/ Resolve \/ InitialInspection \/ CompareBranch \/ Switch \/ CreateBranch
           \/ Reinspect \/ ValidatePrepared \/ StartWorker
Inspect == \/ InspectHead \/ InspectBranch \/ InspectStaged \/ InspectUnstaged
           \/ ValidateBoundary \/ FingerprintPath \/ FingerprintDone \/ FingerprintFails
Execute == \/ WorkerCompletes \/ WorkerUncertain \/ Judge \/ CheckCompletes \/ CheckUncertain

Runner == Prepare \/ Inspect \/ Execute \/ Raise
Done   == phase = "done" /\ UNCHANGED vars
Next   == Runner \/ Interrupt \/ Interfere \/ Done

Spec == Init /\ [][Next]_vars

\* The runner takes its steps; the executors finish or join what they started
\* before they return, so a call to them returns.
FairSpec == Spec /\ WF_vars(Runner)

-----------------------------------------------------------------------------
(* Properties. *)

\* A snapshot, a fingerprint and the control state are of the expected kinds, and
\* a run has a status exactly when it is over.
TypeOK ==
  /\ request \in Requests /\ repo \in Repository /\ Resolvable(repo)
  /\ phase \in {"resolve", "compare", "reinspect", "start", "worker", "fingerprint", "judge",
                "check", "done"} \cup MayRaise
  /\ purpose \in {"initial", "prepared", "post"}
  /\ {seen, pre, post} \subseteq Snapshot \cup {None}
  /\ phase \in {"inspect_branch", "inspect_staged", "inspect_unstaged", "inspected"}
       => seen # None
  /\ started \in BOOLEAN /\ (started \/ phase = "start" => pre # None)
  /\ current \in DOMAIN request.checks \cup {NoCheck}
  /\ phase = "check" => current # NoCheck
  /\ verdict \in {"none", "zero", "nonzero", "technical"}
  /\ DOMAIN evidence \subseteq DOMAIN request.checks
  /\ status \in Statuses \cup {"none"}
  /\ (status = "none") = (phase # "done")
  /\ residue \in BOOLEAN /\ foreign \in 0..MaxForeign /\ quiet \in BOOLEAN

\* Whatever the worker and the checks did, and whatever somebody else did before
\* the last inspection began: a validated run leaves the requested branch
\* checked out on the frozen commit with nothing staged, every changed path is
\* permitted, and its fingerprint is of the worktree as it is
\* (runtime_worker.py:399-416, 442-473).
ValidatedIsExact ==
  (status = "VALIDATED" /\ quiet) =>
    /\ repo.at = request.branch /\ repo.refs[request.branch] = request.head
    /\ repo.staged = {}
    /\ Changes(repo) \subseteq request.permitted
    /\ DOMAIN print = Changes(repo)
    /\ \A p \in DOMAIN print : print[p] = repo.tree[p]

\* If the check executor denies writes and nobody else changes the repository,
\* a validated run has satisfied every declared check on the worktree it
\* fingerprinted (runtime_worker.py:444-473).
ValidatedIsTested ==
  (status = "VALIDATED" /\ request.adapter = "contained" /\ foreign = 0) =>
    /\ DOMAIN evidence = DOMAIN request.checks
    /\ \A i \in DOMAIN evidence : \A p \in Paths :
         evidence[i][p] = IF p \in DOMAIN print THEN print[p] ELSE Clean

\* A worker or a check that may still be running is never reported as a plain
\* failure, after which the caller may go on (runtime_worker.py:382-391, 437-462).
ResidueIsReported ==
  (phase = "done" /\ residue) => Outcome(status) = "INTERRUPTED_OR_UNTRUSTWORTHY"

\* A run that ends before its worker starts leaves the worktree and the index as
\* they were: they are not touched by preparation.  A branch that exists is
\* never moved by the runner, not even if it came to exist after it was looked
\* for, and one that it creates is at the frozen commit (runtime_worker.py:333-344).
PreparationKeepsWork ==
  [][Prepare =>
       /\ repo'.tree = repo.tree /\ repo'.staged = repo.staged
       /\ \A b \in Branches : repo'.refs[b] # repo.refs[b]
            => repo.refs[b] = Absent /\ repo'.refs[b] = request.head]_vars

\* Every run is over some day.
WorkerRunEnds == <>(phase = "done")

=============================================================================
