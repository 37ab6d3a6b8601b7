------------------------ MODULE RepositoryInvocation ------------------------
(***************************************************************************)
(* run_repository_invocation of runtime_invocation.py: any number of       *)
(* concurrent invocations of one repository, the lock entry they create    *)
(* with an atomic mkdir, the exceptions, keyboard interrupts and process   *)
(* deaths that can occur at each of their steps, and the external operator *)
(* who removes what a dead or untrustworthy invocation left behind.        *)
(***************************************************************************)
EXTENDS Naturals

CONSTANTS
  Invocations,  \* one element per call of run_repository_invocation
  Nobody,       \* creator of an absent lock entry
  Inodes,       \* directory identities (st_dev, st_ino)
  NoInode,      \* _RepositoryLock.identity = None
  Careful,      \* the operator removes only what no live invocation created
  FreshInodes,  \* the file system does not reuse an identity still remembered
  Faults        \* "mkdir", "lstat", "contents": operating-system failures

ASSUME InvocationAssumption ==
  /\ Nobody \notin Invocations
  /\ NoInode \notin Inodes
  /\ Careful \in BOOLEAN /\ FreshInodes \in BOOLEAN
  /\ Faults \subseteq {"mkdir", "lstat", "contents"}

VARIABLES
  pc,        \* where each invocation is in the envelope
  ev,        \* its result and InvocationEvidence
  identity,  \* _RepositoryLock.identity
  entry,     \* the lock entry in the common directory: creator and inode
  activity,  \* invocations that still have owned activity running
  escaping,  \* invocations an exception is leaving without a report
  supplied,  \* history: the result the action returned, if it did
  swapped    \* history: the entry was removed in one of its two blind windows

vars == <<pc, ev, identity, entry, activity, escaping, supplied, swapped>>

Outcomes == {"COMPLETED", "NO_OP", "BLOCKED", "RUNTIME_FAILURE", "INTERRUPTED"}
Stages == {"NONE", "REQUEST", "LOCK", "PREFLIGHT", "ACTION", "RELEASE"}

InTry == {"validate", "mkdir", "mark", "lstat", "preflight", "action"}
Live  == InTry \cup {"finally", "rmdir", "confirm", "return"}
Over  == {"reported", "raised", "dead"}

NoLock == [owner |-> Nobody, ino |-> NoInode]

\* The stage variable of the code, as a function of the step in progress
\* (REQUEST and REPOSITORY both precede the lock and are one step here).
StageAt(c) == CASE c = "validate"                 -> "REQUEST"
                [] c \in {"mkdir", "mark", "lstat"} -> "LOCK"
                [] c = "preflight"                -> "PREFLIGHT"
                [] OTHER                          -> "ACTION"

Init ==
  /\ pc = [p \in Invocations |-> "idle"]
  /\ ev = [p \in Invocations |->
            [outcome |-> "RUNTIME_FAILURE", stage |-> "NONE", acquired |-> FALSE,
             released |-> FALSE, started |-> FALSE, reliable |-> FALSE]]
  /\ identity = [p \in Invocations |-> NoInode]
  /\ entry = NoLock
  /\ activity = {}
  /\ escaping = {}
  /\ supplied = [p \in Invocations |-> "none"]
  /\ swapped = {}

Goto(p, c) == pc' = [pc EXCEPT ![p] = c]

\* The evidence of p with a result, a failure stage and a completion.
Concluded(p, o, s, r) ==
  [ev EXCEPT ![p] = [@ EXCEPT !.outcome = o, !.stage = s, !.reliable = r]]

-----------------------------------------------------------------------------
(* The try block. *)

Start(p) ==
  /\ pc[p] = "idle"
  /\ Goto(p, "validate")
  /\ UNCHANGED <<ev, identity, entry, activity, escaping, supplied, swapped>>

\* The request is well formed and the repository inspected.
Validate(p) ==
  /\ pc[p] = "validate"
  /\ Goto(p, "mkdir")
  /\ UNCHANGED <<ev, identity, entry, activity, escaping, supplied, swapped>>

\* Identities that mkdir may give to a new directory.
NewInodes ==
  IF FreshInodes THEN Inodes \ {identity[p] : p \in Invocations} ELSE Inodes

\* Mutation: mkdir(exist_ok=True).
MkdirOverExisting(p) ==
  /\ pc[p] = "mkdir"
  /\ \E i \in NewInodes : entry' = [owner |-> p, ino |-> i]
  /\ Goto(p, "mark")
  /\ UNCHANGED <<ev, identity, activity, escaping, supplied, swapped>>

\* Mutation: a contended entry is taken over.
MkdirTakesOver(p) ==
  /\ pc[p] = "mkdir"
  /\ entry' = [owner |-> p, ino |-> IF entry = NoLock THEN CHOOSE i \in NewInodes : TRUE ELSE entry.ino]
  /\ Goto(p, "mark")
  /\ UNCHANGED <<ev, identity, activity, escaping, supplied, swapped>>

Mkdir(p) ==
  /\ pc[p] = "mkdir"
  /\ entry = NoLock
  /\ \E i \in NewInodes : entry' = [owner |-> p, ino |-> i]
  /\ Goto(p, "mark")
  /\ UNCHANGED <<ev, identity, activity, escaping, supplied, swapped>>

MarkAcquired(p) ==
  /\ pc[p] = "mark"
  /\ ev' = [ev EXCEPT ![p].acquired = TRUE]
  /\ Goto(p, "lstat")
  /\ UNCHANGED <<identity, entry, activity, escaping, supplied, swapped>>

Lstat(p) ==
  /\ pc[p] = "lstat"
  /\ entry # NoLock
  /\ identity' = [identity EXCEPT ![p] = entry.ino]
  /\ Goto(p, "preflight")
  /\ UNCHANGED <<ev, entry, activity, escaping, supplied, swapped>>

\* The second inspection finds the same root and common directory.
Preflight(p) ==
  /\ pc[p] = "preflight"
  /\ ev' = [ev EXCEPT ![p].started = TRUE]
  /\ activity' = activity \cup {p}
  /\ Goto(p, "action")
  /\ UNCHANGED <<identity, entry, escaping, supplied, swapped>>

\* A trusted action has finished its activity when it returns, except that a
\* result it calls untrustworthy says nothing of what may still be running.
Residue(p, unknown) ==
  IF unknown THEN {activity, activity \ {p}} ELSE {activity \ {p}}

ActionReturns(p) ==
  /\ pc[p] = "action"
  /\ \E o \in Outcomes :
       /\ ev' = Concluded(p, o, "NONE", o # "INTERRUPTED")
       /\ supplied' = [supplied EXCEPT ![p] = o]
       /\ activity' \in Residue(p, o = "INTERRUPTED")
  /\ Goto(p, "finally")
  /\ UNCHANGED <<identity, entry, escaping, swapped>>

-----------------------------------------------------------------------------
(* The except clauses, then the finally clause. *)

\* ControlledInvocationFailure: the action attests that nothing still runs.
ActionFails(p) ==
  /\ pc[p] = "action"
  /\ ev' = Concluded(p, "RUNTIME_FAILURE", "ACTION", ev[p].started)
  /\ activity' \in Residue(p, FALSE)
  /\ Goto(p, "finally")
  /\ UNCHANGED <<identity, entry, escaping, supplied, swapped>>

\* Where an ordinary exception may be raised.
MayRaise(p) ==
  \/ pc[p] \in {"validate", "preflight", "action"}
  \/ pc[p] = "mkdir" /\ (entry # NoLock \/ "mkdir" \in Faults)
  \/ pc[p] = "lstat" /\ (entry = NoLock \/ "lstat" \in Faults)

\* Mutation: every exception is a runtime failure.
AlwaysRuntimeFailure(p) == "RUNTIME_FAILURE"

\* Mutation: an exception before the action is reported as nothing to do.
NoOpBeforeAction(p) == IF ev[p].started THEN "INTERRUPTED" ELSE "NO_OP"

\* Mutation: the stage is stored as the result.
OutcomeIsStage(p) == IF ev[p].started THEN "ACTION" ELSE "RUNTIME_FAILURE"

RaisedOutcome(p) ==
  IF ev[p].started THEN "INTERRUPTED" ELSE "RUNTIME_FAILURE"

Raise(p) ==
  /\ MayRaise(p)
  /\ ev' = Concluded(p, RaisedOutcome(p), StageAt(pc[p]), FALSE)
  /\ activity' \in Residue(p, TRUE)
  /\ Goto(p, "finally")
  /\ UNCHANGED <<identity, entry, escaping, supplied, swapped>>

\* KeyboardInterrupt or SystemExit at any step of the try block; at "mark" the
\* directory exists and lock.acquired is still False.
Interrupt(p) ==
  /\ pc[p] \in InTry
  /\ ev' = Concluded(p, "INTERRUPTED", StageAt(pc[p]), FALSE)
  /\ activity' \in Residue(p, TRUE)
  /\ Goto(p, "finally")
  /\ UNCHANGED <<identity, entry, escaping, supplied, swapped>>

\* A second interrupt inside an except clause, or one while the report is
\* built: the finally clause is unaffected and the caller gets an exception.
InterruptAgain(p) ==
  /\ \/ pc[p] = "finally" /\ ev[p].stage # "NONE"
     \/ pc[p] = "return"
  /\ p \notin escaping
  /\ escaping' = escaping \cup {p}
  /\ UNCHANGED <<pc, ev, identity, entry, activity, supplied, swapped>>

NoLockToRelease(p) ==
  /\ pc[p] = "finally"
  /\ ~ev[p].acquired
  /\ Goto(p, "return")
  /\ UNCHANGED <<ev, identity, entry, activity, escaping, supplied, swapped>>

\* Mutation: any directory of that name is recognised.
RecognisesAny(p) == identity[p] # NoInode /\ entry # NoLock

\* release() looks at the entry and recognises it as its own.
Recognised(p) == identity[p] # NoInode /\ entry # NoLock /\ entry.ino = identity[p]

CheckOwnership(p) ==
  /\ pc[p] = "finally"
  /\ ev[p].acquired
  /\ Recognised(p)
  /\ Goto(p, "rmdir")
  /\ UNCHANGED <<ev, identity, entry, activity, escaping, supplied, swapped>>

\* An invocation does not know its entry's identity yet, or no longer looks.
Blind(p) == pc[p] \in {"mark", "lstat", "rmdir"}

\* The entry disappears, seen from everybody else.
EntryGone(others) ==
  /\ entry # NoLock
  /\ entry' = NoLock
  /\ swapped' = swapped \cup {q \in others : Blind(q)}

\* It removes whatever directory has that name now.
Rmdir(p) ==
  /\ pc[p] = "rmdir"
  /\ EntryGone(Invocations \ {p})
  /\ Goto(p, "confirm")
  /\ UNCHANGED <<ev, identity, activity, escaping, supplied>>

MarkReleased(p) ==
  /\ pc[p] = "confirm"
  /\ ev' = [ev EXCEPT ![p].released = TRUE]
  /\ Goto(p, "return")
  /\ UNCHANGED <<identity, entry, activity, escaping, supplied, swapped>>

\* release() raises: an uncertain owner, a failing lstat or rmdir, or an
\* interrupt in it, even one after rmdir has taken effect.
ReleaseMayFail(p) ==
  \/ pc[p] = "finally" /\ ev[p].acquired
  \/ pc[p] \in {"rmdir", "confirm"}

\* Mutation: release waits until it recognises its entry.
ReleaseWaits(p) == FALSE

ReleaseRaises(p) ==
  /\ pc[p] = "finally" /\ ev[p].acquired
  /\ ~Recognised(p)

RmdirRaises(p) ==
  /\ pc[p] = "rmdir"
  /\ entry = NoLock \/ "contents" \in Faults

\* Mutation: a failed release is recorded but the result is kept.
ReleaseFailureIgnored(p) ==
  Concluded(p, ev[p].outcome, "RELEASE", ev[p].reliable)

FailedEvidence(p) == Concluded(p, "INTERRUPTED", "RELEASE", ev[p].reliable)

ReleaseFails(p) ==
  /\ ReleaseRaises(p) \/ RmdirRaises(p)
  /\ ev' = FailedEvidence(p)
  /\ Goto(p, "return")
  /\ UNCHANGED <<identity, entry, activity, escaping, supplied, swapped>>

InterruptRelease(p) ==
  /\ ReleaseMayFail(p)
  /\ ev' = FailedEvidence(p)
  /\ Goto(p, "return")
  /\ UNCHANGED <<identity, entry, activity, escaping, supplied, swapped>>

Return(p) ==
  /\ pc[p] = "return"
  /\ Goto(p, IF p \in escaping THEN "raised" ELSE "reported")
  /\ UNCHANGED <<ev, identity, entry, activity, escaping, supplied, swapped>>

-----------------------------------------------------------------------------
(* What the envelope does not control. *)

\* Abrupt process death; the children of the action may survive it.
Crash(p) ==
  /\ pc[p] \in Live
  /\ activity' \in Residue(p, TRUE)
  /\ Goto(p, "dead")
  /\ UNCHANGED <<ev, identity, entry, escaping, supplied, swapped>>

\* Activity left behind ends by itself.
Quiesce(p) ==
  /\ p \in activity /\ pc[p] # "action"
  /\ activity' = activity \ {p}
  /\ UNCHANGED <<pc, ev, identity, entry, escaping, supplied, swapped>>

Abandoned(p) == pc[p] \in Over /\ p \notin activity

\* External reconciliation of the entry.
Reconcile ==
  /\ EntryGone(Invocations)
  /\ Careful => Abandoned(entry.owner)
  /\ UNCHANGED <<pc, ev, identity, activity, escaping, supplied>>

-----------------------------------------------------------------------------
\* What an undisturbed invocation does next.
Step(p) ==
  \/ Validate(p) \/ Mkdir(p) \/ MarkAcquired(p) \/ Lstat(p) \/ Preflight(p)
  \/ ActionReturns(p) \/ ActionFails(p) \/ Raise(p)
  \/ NoLockToRelease(p) \/ CheckOwnership(p) \/ Rmdir(p) \/ MarkReleased(p)
  \/ ReleaseFails(p) \/ Return(p)

Disturb(p) ==
  Interrupt(p) \/ InterruptAgain(p) \/ InterruptRelease(p) \/ Crash(p)

Next ==
  \/ \E p \in Invocations : Start(p) \/ Step(p) \/ Disturb(p) \/ Quiesce(p)
  \/ Reconcile

Spec == Init /\ [][Next]_vars

\* The code is synchronous and the action it is given is bounded: an
\* invocation keeps taking its next step, and leftover children end.  Nothing
\* is assumed of interrupts, crashes or the start of an invocation.
StepFairness == \A p \in Invocations : WF_vars(Step(p)) /\ WF_vars(Quiesce(p))
FairSpec == Spec /\ StepFairness

\* With an operator who reconciles what is left behind.
OperatorSpec == FairSpec /\ WF_vars(Reconcile)
-----------------------------------------------------------------------------
(* Properties. *)

\* Type correctness of the envelope's state and of its evidence.
TypeOK ==
  /\ pc \in [Invocations -> Live \cup Over \cup {"idle"}]
  /\ ev \in [Invocations ->
             [outcome : Outcomes, stage : Stages, acquired : BOOLEAN,
              released : BOOLEAN, started : BOOLEAN, reliable : BOOLEAN]]
  /\ identity \in [Invocations -> Inodes \cup {NoInode}]
  /\ entry \in [owner : Invocations, ino : Inodes] \cup {NoLock}
  /\ activity \in SUBSET Invocations
  /\ escaping \in SUBSET Invocations
  /\ supplied \in [Invocations -> Outcomes \cup {"none"}]
  /\ swapped \in SUBSET Invocations

\* Two actions never run in one repository at the same time, whatever mixture
\* of contention, interrupts, crashes and reconciliation came before
\* (runtime_invocation.py:7-13, "all local invocations share that directory").
MutualExclusion ==
  \A p, q \in Invocations : pc[p] = "action" /\ pc[q] = "action" => p = q

\* Activity left over by an earlier invocation runs beside a later action only
\* when the earlier one told its caller not to trust it: no report with
\* completion_reliable, and none but INTERRUPTED, was made while its own
\* activity was still running (docstring lines 3-5 and 60-61).
ReliableMeansQuiet ==
  \A p \in activity : pc[p] = "reported" => /\ ev[p].outcome = "INTERRUPTED"
                                            /\ ~ev[p].reliable

\* An invocation that reports anything but INTERRUPTED leaves no lock entry of
\* its own behind, although it may have failed at any step of acquiring,
\* checking or removing it (lines 207-213).
CleanReportLeavesNoEntry ==
  \A p \in Invocations :
    pc[p] = "reported" /\ ev[p].outcome # "INTERRUPTED"
      => entry.owner # p /\ ev[p].released = ev[p].acquired

\* "The envelope never invents semantic completion or BLOCKED" (line 144), and
\* what it changes of a supplied result it changes to INTERRUPTED, naming the
\* release or the interrupted action as the place.
ResultIsSupplied ==
  \A p \in Invocations : pc[p] = "reported" =>
    /\ ev[p].outcome \in {"COMPLETED", "NO_OP", "BLOCKED"}
         => supplied[p] = ev[p].outcome
    /\ supplied[p] \notin {"none", ev[p].outcome}
         => ev[p].outcome = "INTERRUPTED" /\ ev[p].stage = "RELEASE"

\* "An existing entry is never stolen" (line 9): an entry disappears only by
\* the rmdir of its creator or once its creator is gone, and never changes
\* hands in place.
NeverStolen ==
  [][entry # NoLock /\ entry' # entry
       => /\ entry' = NoLock
          /\ \/ pc[entry.owner] = "rmdir" /\ pc'[entry.owner] = "confirm"
             \/ pc[entry.owner] \in Over]_vars

\* The identity check of release(): even beside an operator who removes live
\* entries, an rmdir takes away somebody else's entry only if its own was
\* removed between its mkdir and its first lstat, where it adopts the identity
\* of a newer entry, or between its last lstat and the rmdir (lines 84-102).
RemovesOwnEntry ==
  [][\A p \in Invocations :
       pc[p] = "rmdir" /\ pc'[p] = "confirm"
         => entry.owner = p \/ p \in swapped]_vars

\* Every invocation that is started ends in a report, an exception or a death:
\* the lock is non-blocking, so that nobody waits for anybody.
EveryInvocationEnds ==
  \A p \in Invocations : pc[p] = "validate" ~> pc[p] \in Over

\* With an operator, no sequence of crashes and interrupts wedges the
\* repository for good.
RepositoryFreedAgain == []<>(entry = NoLock)

\* What the abstract mutex sees of the envelope.
Running == {p \in Invocations : pc[p] = "action"}

Verdict ==
  [p \in Invocations |->
    IF pc[p] \notin Over THEN "none"
    ELSE IF pc[p] = "reported" /\ ev[p].outcome # "INTERRUPTED" THEN "clean"
    ELSE "unclean"]

Mutex == INSTANCE RepositoryMutex WITH
  holder <- entry.owner, running <- Running, verdict <- Verdict

\* Every behaviour of the envelope is one of the abstract mutex.
ImplementsMutex == Mutex!Spec

=============================================================================
