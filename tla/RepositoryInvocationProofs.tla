---------------------- MODULE RepositoryInvocationProofs ----------------------
(***************************************************************************)
(* Theorems about RepositoryInvocation, for any set of invocations and any *)
(* combination of operating-system failures.  Those that need the          *)
(* operator's discipline take Careful as a hypothesis, the one about the   *)
(* identity check takes FreshInodes.                                       *)
(***************************************************************************)
EXTENDS RepositoryInvocation, TLAPS

Early   == {"idle", "validate", "mkdir"}
Entered == {"lstat", "preflight", "action"}
Late    == {"finally", "rmdir", "confirm", "return", "reported"}

\* An invocation whose entry is in the common directory by right.
Holds(p) == \/ pc[p] \in Entered \cup {"mark", "rmdir"}
            \/ pc[p] = "finally" /\ ev[p].acquired

\* The evidence of an invocation agrees with its place in the try block.
EvidenceInv(p) ==
  /\ pc[p] \in InTry \cup {"idle"}
       => /\ ev[p].outcome = "RUNTIME_FAILURE" /\ supplied[p] = "none"
          /\ ~ev[p].reliable
          /\ (ev[p].acquired <=> pc[p] \in Entered)
          /\ (ev[p].started <=> pc[p] = "action")
  /\ pc[p] \in {"rmdir", "confirm"} => ev[p].acquired
  /\ pc[p] \in InTry \cup {"idle", "finally", "rmdir", "confirm"} => ~ev[p].released

\* Results are supplied ones, and only the release makes them worse.
ResultInv(p) ==
  pc[p] \in Late =>
    /\ ev[p].outcome \in {"COMPLETED", "NO_OP", "BLOCKED"}
         => supplied[p] = ev[p].outcome
    /\ supplied[p] \notin {"none", ev[p].outcome}
         => ev[p].outcome = "INTERRUPTED" /\ ev[p].stage = "RELEASE"

\* Whose activity is still running, and what is said of it.
ActivityInv(p) ==
  p \in activity =>
    /\ pc[p] \in Late \cup {"action", "raised", "dead"}
    /\ pc[p] \in Late => ev[p].outcome = "INTERRUPTED" /\ ~ev[p].reliable

\* The entry belongs to the invocation that is entitled to it.
HoldingInv(p) ==
  /\ Holds(p) => entry.owner = p
  /\ pc[p] \in Early \cup {"confirm"} => entry.owner # p

\* What a trustworthy result says of the entry.
ReleaseInv(p) ==
  /\ pc[p] = "finally" /\ ~ev[p].acquired /\ ev[p].outcome # "INTERRUPTED"
       => entry.owner # p
  /\ pc[p] \in {"return", "reported"} /\ ev[p].outcome # "INTERRUPTED"
       => entry.owner # p /\ ev[p].released = ev[p].acquired

LocalInv == \A p \in Invocations : EvidenceInv(p) /\ ResultInv(p) /\ ActivityInv(p)
EntryInv == \A p \in Invocations : HoldingInv(p) /\ ReleaseInv(p)
-----------------------------------------------------------------------------
(* Type correctness. *)

\* Directories get identities of the file system's.
LEMMA NewInodesAreInodes == NewInodes \subseteq Inodes
  BY DEF NewInodes

EvType == [outcome : Outcomes, stage : Stages, acquired : BOOLEAN,
           released : BOOLEAN, started : BOOLEAN, reliable : BOOLEAN]

\* A conclusion is well-typed evidence and changes three fields of one record.
LEMMA ConclusionTyped ==
  ASSUME ev \in [Invocations -> EvType], NEW p \in Invocations,
         NEW o \in Outcomes, NEW s \in Stages, NEW r \in BOOLEAN
  PROVE  /\ Concluded(p, o, s, r) \in [Invocations -> EvType]
         /\ \A q \in Invocations \ {p} : Concluded(p, o, s, r)[q] = ev[q]
         /\ Concluded(p, o, s, r)[p].outcome = o
         /\ Concluded(p, o, s, r)[p].stage = s
         /\ Concluded(p, o, s, r)[p].reliable = r
         /\ Concluded(p, o, s, r)[p].acquired = ev[p].acquired
         /\ Concluded(p, o, s, r)[p].released = ev[p].released
         /\ Concluded(p, o, s, r)[p].started = ev[p].started
  <1>1. ev[p] \in EvType
    OBVIOUS
  <1> DEFINE c == [ev[p] EXCEPT !.outcome = o, !.stage = s, !.reliable = r]
  <1>2. /\ c \in EvType
        /\ c.outcome = o /\ c.stage = s /\ c.reliable = r
        /\ c.acquired = ev[p].acquired /\ c.released = ev[p].released
        /\ c.started = ev[p].started
    BY <1>1 DEF EvType
  <1>3. Concluded(p, o, s, r) = [ev EXCEPT ![p] = c]
    BY DEF Concluded
  <1> HIDE DEF c
  <1> QED
    BY <1>2, <1>3

LEMMA StageTyped == \A c : StageAt(c) \in Stages
  BY DEF StageAt, Stages

LEMMA OutcomeTyped == \A p : RaisedOutcome(p) \in Outcomes
  BY DEF RaisedOutcome, Outcomes

\* The state of the envelope is well typed in every reachable state: in
\* particular its evidence is complete whatever the failure.
THEOREM TypeCorrect == Spec => []TypeOK
  <1>1. Init => TypeOK
    BY DEF Init, TypeOK, NoLock, Outcomes, Stages, Live, InTry, Over
  <1>2. TypeOK /\ [Next]_vars => TypeOK'
    <2> SUFFICES ASSUME TypeOK, [Next]_vars
                 PROVE  TypeOK'
      OBVIOUS
    <2> USE DEF TypeOK, Live, InTry, Over, Goto
    <2>1. ASSUME NEW p \in Invocations, Start(p)
          PROVE  TypeOK'
      BY <2>1 DEF Start
    <2>2. ASSUME NEW p \in Invocations, Validate(p)
          PROVE  TypeOK'
      BY <2>2 DEF Validate
    <2>3. ASSUME NEW p \in Invocations, Mkdir(p)
          PROVE  TypeOK'
      BY NewInodesAreInodes, <2>3 DEF Mkdir
    <2>4. ASSUME NEW p \in Invocations, MarkAcquired(p)
          PROVE  TypeOK'
      BY <2>4 DEF MarkAcquired
    <2>5. ASSUME NEW p \in Invocations, Lstat(p)
          PROVE  TypeOK'
      BY <2>5 DEF Lstat
    <2>6. ASSUME NEW p \in Invocations, Preflight(p)
          PROVE  TypeOK'
      BY <2>6 DEF Preflight
    <2>7. ASSUME NEW p \in Invocations, ActionReturns(p)
          PROVE  TypeOK'
      <3>1. PICK o \in Outcomes :
              /\ ev' = Concluded(p, o, "NONE", o # "INTERRUPTED")
              /\ supplied' = [supplied EXCEPT ![p] = o]
              /\ activity' \in Residue(p, o = "INTERRUPTED")
        BY <2>7 DEF ActionReturns
      <3>2. "NONE" \in Stages
        BY DEF Stages
      <3>3. ev' \in [Invocations -> EvType]
        BY <3>1, <3>2, ConclusionTyped DEF EvType
      <3> QED
        BY <2>7, <3>1, <3>3 DEF EvType, ActionReturns, Residue
    <2>8. ASSUME NEW p \in Invocations, ActionFails(p)
          PROVE  TypeOK'
      <3>1. "RUNTIME_FAILURE" \in Outcomes /\ "ACTION" \in Stages /\ ev[p].started \in BOOLEAN
        BY DEF Outcomes, Stages
      <3>2. ev' \in [Invocations -> EvType]
        BY <2>8, <3>1, ConclusionTyped DEF EvType, ActionFails
      <3> QED
        BY <2>8, <3>2 DEF EvType, ActionFails, Residue
    <2>9. ASSUME NEW p \in Invocations, Raise(p)
          PROVE  TypeOK'
      <3>1. RaisedOutcome(p) \in Outcomes /\ StageAt(pc[p]) \in Stages /\ FALSE \in BOOLEAN
        BY StageTyped, OutcomeTyped DEF Outcomes, Stages
      <3>2. ev' \in [Invocations -> EvType]
        BY <2>9, <3>1, ConclusionTyped DEF EvType, Raise
      <3> QED
        BY <2>9, <3>2 DEF EvType, Raise, Residue
    <2>10. ASSUME NEW p \in Invocations, NoLockToRelease(p)
          PROVE  TypeOK'
      BY <2>10 DEF NoLockToRelease
    <2>11. ASSUME NEW p \in Invocations, CheckOwnership(p)
          PROVE  TypeOK'
      BY <2>11 DEF CheckOwnership
    <2>12. ASSUME NEW p \in Invocations, Rmdir(p)
          PROVE  TypeOK'
      BY <2>12 DEF Rmdir, EntryGone
    <2>13. ASSUME NEW p \in Invocations, MarkReleased(p)
          PROVE  TypeOK'
      BY <2>13 DEF MarkReleased
    <2>14. ASSUME NEW p \in Invocations, ReleaseFails(p)
          PROVE  TypeOK'
      <3>1. "INTERRUPTED" \in Outcomes /\ "RELEASE" \in Stages /\ ev[p].reliable \in BOOLEAN
        BY DEF Outcomes, Stages
      <3>2. ev' \in [Invocations -> EvType]
        BY <2>14, <3>1, ConclusionTyped DEF EvType, ReleaseFails, FailedEvidence
      <3> QED
        BY <2>14, <3>2 DEF EvType, ReleaseFails, FailedEvidence
    <2>15. ASSUME NEW p \in Invocations, Return(p)
          PROVE  TypeOK'
      BY <2>15 DEF Return
    <2>16. ASSUME NEW p \in Invocations, Interrupt(p)
          PROVE  TypeOK'
      <3>1. "INTERRUPTED" \in Outcomes /\ StageAt(pc[p]) \in Stages /\ FALSE \in BOOLEAN
        BY StageTyped DEF Outcomes, Stages
      <3>2. ev' \in [Invocations -> EvType]
        BY <2>16, <3>1, ConclusionTyped DEF EvType, Interrupt
      <3> QED
        BY <2>16, <3>2 DEF EvType, Interrupt, Residue
    <2>17. ASSUME NEW p \in Invocations, InterruptAgain(p)
          PROVE  TypeOK'
      BY <2>17 DEF InterruptAgain
    <2>18. ASSUME NEW p \in Invocations, InterruptRelease(p)
          PROVE  TypeOK'
      <3>1. "INTERRUPTED" \in Outcomes /\ "RELEASE" \in Stages /\ ev[p].reliable \in BOOLEAN
        BY DEF Outcomes, Stages
      <3>2. ev' \in [Invocations -> EvType]
        BY <2>18, <3>1, ConclusionTyped DEF EvType, InterruptRelease, FailedEvidence
      <3> QED
        BY <2>18, <3>2 DEF EvType, InterruptRelease, FailedEvidence
    <2>19. ASSUME NEW p \in Invocations, Crash(p)
          PROVE  TypeOK'
      BY <2>19 DEF Crash, Residue
    <2>20. ASSUME NEW p \in Invocations, Quiesce(p)
          PROVE  TypeOK'
      BY <2>20 DEF Quiesce
    <2>21. CASE Reconcile
      BY <2>21 DEF Reconcile, EntryGone
    <2>22. CASE UNCHANGED vars
      BY <2>22 DEF vars
    <2> QED
      BY <2>1, <2>2, <2>3, <2>4, <2>5, <2>6, <2>7, <2>8, <2>9, <2>10, <2>11, <2>12, <2>13, <2>14, <2>15, <2>16, <2>17, <2>18, <2>19, <2>20, <2>21, <2>22 DEF Next, Step, Disturb
  <1> QED
    BY <1>1, <1>2, PTL DEF Spec
-----------------------------------------------------------------------------
(* The part of the invariant that needs no operator. *)

LocalParts(p) == EvidenceInv(p) /\ ResultInv(p) /\ ActivityInv(p)

\* What an invocation's evidence, result and activity say of each other is
\* preserved by every step of every invocation.
LEMMA LocalStep ==
  ASSUME TypeOK, LocalInv, [Next]_vars
  PROVE  LocalInv'
  <1> SUFFICES ASSUME NEW q \in Invocations
               PROVE  LocalParts(q)'
    BY DEF LocalInv, LocalParts
  <1>0. LocalParts(q)
    BY DEF LocalInv, LocalParts
  <1>1. ASSUME NEW p \in Invocations, Start(p)
        PROVE  LocalParts(q)'
    BY <1>0, <1>1
    DEF TypeOK, LocalParts, EvidenceInv, ResultInv, ActivityInv,
        Goto, InTry, Entered, Late, Start
  <1>2. ASSUME NEW p \in Invocations, Validate(p)
        PROVE  LocalParts(q)'
    BY <1>0, <1>2
    DEF TypeOK, LocalParts, EvidenceInv, ResultInv, ActivityInv,
        Goto, InTry, Entered, Late, Validate
  <1>3. ASSUME NEW p \in Invocations, Mkdir(p)
        PROVE  LocalParts(q)'
    BY <1>0, <1>3
    DEF TypeOK, LocalParts, EvidenceInv, ResultInv, ActivityInv,
        Goto, InTry, Entered, Late, Mkdir
  <1>4. ASSUME NEW p \in Invocations, MarkAcquired(p)
        PROVE  LocalParts(q)'
    BY <1>0, <1>4
    DEF TypeOK, LocalParts, EvidenceInv, ResultInv, ActivityInv,
        Goto, InTry, Entered, Late, MarkAcquired
  <1>5. ASSUME NEW p \in Invocations, Lstat(p)
        PROVE  LocalParts(q)'
    BY <1>0, <1>5
    DEF TypeOK, LocalParts, EvidenceInv, ResultInv, ActivityInv,
        Goto, InTry, Entered, Late, Lstat
  <1>6. ASSUME NEW p \in Invocations, Preflight(p)
        PROVE  LocalParts(q)'
    BY <1>0, <1>6
    DEF TypeOK, LocalParts, EvidenceInv, ResultInv, ActivityInv,
        Goto, InTry, Entered, Late, Preflight
  <1>7. ASSUME NEW p \in Invocations, ActionReturns(p)
        PROVE  LocalParts(q)'
    <2>1. PICK o \in Outcomes :
            /\ ev' = Concluded(p, o, "NONE", o # "INTERRUPTED")
            /\ supplied' = [supplied EXCEPT ![p] = o]
            /\ activity' \in Residue(p, o = "INTERRUPTED")
      BY <1>7 DEF ActionReturns
    <2>3. /\ ev'[p].outcome = o /\ ev'[p].stage = "NONE"
          /\ (ev'[p].reliable <=> (o # "INTERRUPTED"))
          /\ ev'[p].acquired = ev[p].acquired
          /\ ev'[p].released = ev[p].released
          /\ q # p => ev'[q] = ev[q]
      BY <2>1 DEF TypeOK, Concluded
    <2> QED
      BY <1>0, <1>7, <2>1, <2>3
      DEF TypeOK, LocalParts, EvidenceInv, ResultInv, ActivityInv,
          Goto, InTry, Entered, Late, ActionReturns, Residue
  <1>8. ASSUME NEW p \in Invocations, ActionFails(p)
        PROVE  LocalParts(q)'
    <2>2. /\ ev'[p].outcome = "RUNTIME_FAILURE" /\ ev'[p].stage = "ACTION"
          /\ (ev'[p].reliable <=> ev[p].started)
          /\ ev'[p].acquired = ev[p].acquired
          /\ ev'[p].released = ev[p].released
          /\ q # p => ev'[q] = ev[q]
      BY <1>8 DEF TypeOK, Concluded, ActionFails
    <2> QED
      BY <1>0, <1>8, <2>2
      DEF TypeOK, LocalParts, EvidenceInv, ResultInv, ActivityInv,
          Goto, InTry, Entered, Late, ActionFails, Residue
  <1>9. ASSUME NEW p \in Invocations, Raise(p)
        PROVE  LocalParts(q)'
    <2>2. /\ ev'[p].outcome = RaisedOutcome(p) /\ ev'[p].stage = StageAt(pc[p])
          /\ (ev'[p].reliable <=> FALSE)
          /\ ev'[p].acquired = ev[p].acquired
          /\ ev'[p].released = ev[p].released
          /\ q # p => ev'[q] = ev[q]
      BY <1>9 DEF TypeOK, Concluded, Raise
    <2> QED
      BY <1>0, <1>9, <2>2
      DEF TypeOK, LocalParts, EvidenceInv, ResultInv, ActivityInv,
          Goto, InTry, Entered, Late, Raise, RaisedOutcome, MayRaise, Residue
  <1>10. ASSUME NEW p \in Invocations, NoLockToRelease(p)
        PROVE  LocalParts(q)'
    BY <1>0, <1>10
    DEF TypeOK, LocalParts, EvidenceInv, ResultInv, ActivityInv,
        Goto, InTry, Entered, Late, NoLockToRelease
  <1>11. ASSUME NEW p \in Invocations, CheckOwnership(p)
        PROVE  LocalParts(q)'
    BY <1>0, <1>11
    DEF TypeOK, LocalParts, EvidenceInv, ResultInv, ActivityInv,
        Goto, InTry, Entered, Late, CheckOwnership
  <1>12. ASSUME NEW p \in Invocations, Rmdir(p)
        PROVE  LocalParts(q)'
    BY <1>0, <1>12
    DEF TypeOK, LocalParts, EvidenceInv, ResultInv, ActivityInv,
        Goto, InTry, Entered, Late, Rmdir, EntryGone
  <1>13. ASSUME NEW p \in Invocations, MarkReleased(p)
        PROVE  LocalParts(q)'
    BY <1>0, <1>13
    DEF TypeOK, LocalParts, EvidenceInv, ResultInv, ActivityInv,
        Goto, InTry, Entered, Late, MarkReleased
  <1>14. ASSUME NEW p \in Invocations, ReleaseFails(p)
        PROVE  LocalParts(q)'
    <2>2. /\ ev'[p].outcome = "INTERRUPTED" /\ ev'[p].stage = "RELEASE"
          /\ (ev'[p].reliable <=> ev[p].reliable)
          /\ ev'[p].acquired = ev[p].acquired
          /\ ev'[p].released = ev[p].released
          /\ q # p => ev'[q] = ev[q]
      BY <1>14 DEF TypeOK, Concluded, ReleaseFails, FailedEvidence
    <2> QED
      BY <1>0, <1>14, <2>2
      DEF TypeOK, LocalParts, EvidenceInv, ResultInv, ActivityInv,
          Goto, InTry, Entered, Late, ReleaseFails, FailedEvidence, ReleaseRaises, RmdirRaises
  <1>15. ASSUME NEW p \in Invocations, Return(p)
        PROVE  LocalParts(q)'
    BY <1>0, <1>15
    DEF TypeOK, LocalParts, EvidenceInv, ResultInv, ActivityInv,
        Goto, InTry, Entered, Late, Return
  <1>16. ASSUME NEW p \in Invocations, Interrupt(p)
        PROVE  LocalParts(q)'
    <2>2. /\ ev'[p].outcome = "INTERRUPTED" /\ ev'[p].stage = StageAt(pc[p])
          /\ (ev'[p].reliable <=> FALSE)
          /\ ev'[p].acquired = ev[p].acquired
          /\ ev'[p].released = ev[p].released
          /\ q # p => ev'[q] = ev[q]
      BY <1>16 DEF TypeOK, Concluded, Interrupt
    <2> QED
      BY <1>0, <1>16, <2>2
      DEF TypeOK, LocalParts, EvidenceInv, ResultInv, ActivityInv,
          Goto, InTry, Entered, Late, Interrupt, Residue
  <1>17. ASSUME NEW p \in Invocations, InterruptAgain(p)
        PROVE  LocalParts(q)'
    BY <1>0, <1>17
    DEF TypeOK, LocalParts, EvidenceInv, ResultInv, ActivityInv,
        Goto, InTry, Entered, Late, InterruptAgain
  <1>18. ASSUME NEW p \in Invocations, InterruptRelease(p)
        PROVE  LocalParts(q)'
    <2>2. /\ ev'[p].outcome = "INTERRUPTED" /\ ev'[p].stage = "RELEASE"
          /\ (ev'[p].reliable <=> ev[p].reliable)
          /\ ev'[p].acquired = ev[p].acquired
          /\ ev'[p].released = ev[p].released
          /\ q # p => ev'[q] = ev[q]
      BY <1>18 DEF TypeOK, Concluded, InterruptRelease, FailedEvidence
    <2> QED
      BY <1>0, <1>18, <2>2
      DEF TypeOK, LocalParts, EvidenceInv, ResultInv, ActivityInv,
          Goto, InTry, Entered, Late, InterruptRelease, FailedEvidence, ReleaseMayFail
  <1>19. ASSUME NEW p \in Invocations, Crash(p)
        PROVE  LocalParts(q)'
    BY <1>0, <1>19
    DEF TypeOK, LocalParts, EvidenceInv, ResultInv, ActivityInv,
        Goto, InTry, Entered, Late, Crash, Residue
  <1>20. ASSUME NEW p \in Invocations, Quiesce(p)
        PROVE  LocalParts(q)'
    BY <1>0, <1>20
    DEF TypeOK, LocalParts, EvidenceInv, ResultInv, ActivityInv,
        Goto, InTry, Entered, Late, Quiesce
  <1>21. CASE Reconcile
    BY <1>0, <1>21
    DEF TypeOK, LocalParts, EvidenceInv, ResultInv, ActivityInv,
        Goto, InTry, Entered, Late, Reconcile, EntryGone
  <1>22. CASE UNCHANGED vars
    BY <1>0, <1>22
    DEF TypeOK, LocalParts, EvidenceInv, ResultInv, ActivityInv,
        Goto, InTry, Entered, Late, vars
  <1> QED
    BY <1>1, <1>2, <1>3, <1>4, <1>5, <1>6, <1>7, <1>8, <1>9, <1>10, <1>11, <1>12, <1>13, <1>14, <1>15, <1>16, <1>17, <1>18, <1>19, <1>20, <1>21, <1>22 DEF Next, Step, Disturb

THEOREM LocalCorrect == Spec => []LocalInv
  <1>1. Init => LocalInv
    <2> SUFFICES ASSUME Init, NEW p \in Invocations
                 PROVE  EvidenceInv(p) /\ ResultInv(p) /\ ActivityInv(p)
      BY DEF LocalInv
    <2>1. pc[p] = "idle" /\ supplied[p] = "none" /\ activity = {}
      BY DEF Init
    <2>2. /\ ev[p].outcome = "RUNTIME_FAILURE"
          /\ ~ev[p].reliable /\ ~ev[p].acquired /\ ~ev[p].released /\ ~ev[p].started
      BY DEF Init
    <2> QED
      BY <2>1, <2>2 DEF EvidenceInv, ResultInv, ActivityInv, InTry, Entered, Late
  <1>2. TypeOK /\ LocalInv /\ [Next]_vars => LocalInv'
    BY LocalStep
  <1> QED
    BY <1>1, <1>2, TypeCorrect, PTL DEF Spec

\* Reports of reliable completion are truthful about running activity.
THEOREM ReliableReports == Spec => []ReliableMeansQuiet
  <1>1. TypeOK /\ LocalInv => ReliableMeansQuiet
    BY DEF TypeOK, LocalInv, ActivityInv, ReliableMeansQuiet, Late
  <1> QED
    BY <1>1, LocalCorrect, TypeCorrect, PTL

\* The envelope never invents a semantic result.
THEOREM ResultsAreSupplied == Spec => []ResultIsSupplied
  <1>1. LocalInv => ResultIsSupplied
    BY DEF LocalInv, ResultInv, ResultIsSupplied, Late
  <1> QED
    BY <1>1, LocalCorrect, PTL

-----------------------------------------------------------------------------
(* The part of the invariant that a careful operator guarantees. *)

EntryParts(p) == HoldingInv(p) /\ ReleaseInv(p)

\* Nobody owns an absent entry, and somebody owns any other.
LEMMA EntryOwner ==
  ASSUME TypeOK
  PROVE  entry.owner \in Invocations <=> entry # NoLock
  BY InvocationAssumption DEF TypeOK, NoLock

\* The entry stays with the invocation entitled to it, and an invocation with
\* a trustworthy result never owns it again.
LEMMA EntryStep ==
  ASSUME Careful, TypeOK, LocalInv, EntryInv, [Next]_vars
  PROVE  EntryInv'
  <1> SUFFICES ASSUME NEW q \in Invocations
               PROVE  EntryParts(q)'
    BY DEF EntryInv, EntryParts
  <1>0. EntryParts(q) /\ EvidenceInv(q)
    BY DEF EntryInv, EntryParts, LocalInv
  <1>1. ASSUME NEW p \in Invocations, Start(p)
        PROVE  EntryParts(q)'
    BY <1>0, <1>1
    DEF TypeOK, EntryParts, HoldingInv, ReleaseInv, Holds, EvidenceInv,
        Goto, Early, Entered, InTry, Start
  <1>2. ASSUME NEW p \in Invocations, Validate(p)
        PROVE  EntryParts(q)'
    BY <1>0, <1>2
    DEF TypeOK, EntryParts, HoldingInv, ReleaseInv, Holds, EvidenceInv,
        Goto, Early, Entered, InTry, Validate
  <1>3. ASSUME NEW p \in Invocations, Mkdir(p)
        PROVE  EntryParts(q)'
    <2>1. entry.owner # q /\ entry'.owner = p
      BY <1>3, EntryOwner DEF Mkdir
    <2> QED
      BY <1>0, <1>3, <2>1
      DEF TypeOK, EntryParts, HoldingInv, ReleaseInv, Holds, EvidenceInv,
          Goto, Early, Entered, InTry, Mkdir
  <1>4. ASSUME NEW p \in Invocations, MarkAcquired(p)
        PROVE  EntryParts(q)'
    BY <1>0, <1>4
    DEF TypeOK, EntryParts, HoldingInv, ReleaseInv, Holds, EvidenceInv,
        Goto, Early, Entered, InTry, MarkAcquired
  <1>5. ASSUME NEW p \in Invocations, Lstat(p)
        PROVE  EntryParts(q)'
    BY <1>0, <1>5
    DEF TypeOK, EntryParts, HoldingInv, ReleaseInv, Holds, EvidenceInv,
        Goto, Early, Entered, InTry, Lstat
  <1>6. ASSUME NEW p \in Invocations, Preflight(p)
        PROVE  EntryParts(q)'
    BY <1>0, <1>6
    DEF TypeOK, EntryParts, HoldingInv, ReleaseInv, Holds, EvidenceInv,
        Goto, Early, Entered, InTry, Preflight
  <1>7. ASSUME NEW p \in Invocations, ActionReturns(p)
        PROVE  EntryParts(q)'
    <2>1. PICK o \in Outcomes : ev' = Concluded(p, o, "NONE", o # "INTERRUPTED")
      BY <1>7 DEF ActionReturns
    <2>2. /\ ev'[p].acquired = ev[p].acquired /\ ev'[p].released = ev[p].released
          /\ q # p => ev'[q] = ev[q]
      BY <2>1 DEF TypeOK, Concluded
    <2> QED
      BY <1>0, <1>7, <2>2
      DEF TypeOK, EntryParts, HoldingInv, ReleaseInv, Holds, EvidenceInv,
          Goto, Early, Entered, InTry, ActionReturns
  <1>8. ASSUME NEW p \in Invocations, ActionFails(p)
        PROVE  EntryParts(q)'
    <2>1. /\ ev'[p].outcome = "RUNTIME_FAILURE"
          /\ ev'[p].acquired = ev[p].acquired /\ ev'[p].released = ev[p].released
          /\ q # p => ev'[q] = ev[q]
      BY <1>8 DEF TypeOK, Concluded, ActionFails
    <2> QED
      BY <1>0, <1>8, <2>1
      DEF TypeOK, EntryParts, HoldingInv, ReleaseInv, Holds, EvidenceInv,
          Goto, Early, Entered, InTry, ActionFails
  <1>9. ASSUME NEW p \in Invocations, Raise(p)
        PROVE  EntryParts(q)'
    <2>1. /\ ev'[p].outcome = RaisedOutcome(p)
          /\ ev'[p].acquired = ev[p].acquired /\ ev'[p].released = ev[p].released
          /\ q # p => ev'[q] = ev[q]
      BY <1>9 DEF TypeOK, Concluded, Raise
    <2> QED
      BY <1>0, <1>9, <2>1
      DEF TypeOK, EntryParts, HoldingInv, ReleaseInv, Holds, EvidenceInv,
          Goto, Early, Entered, InTry, Raise, RaisedOutcome, MayRaise
  <1>10. ASSUME NEW p \in Invocations, NoLockToRelease(p)
        PROVE  EntryParts(q)'
    BY <1>0, <1>10
    DEF TypeOK, EntryParts, HoldingInv, ReleaseInv, Holds, EvidenceInv,
        Goto, Early, Entered, InTry, NoLockToRelease
  <1>11. ASSUME NEW p \in Invocations, CheckOwnership(p)
        PROVE  EntryParts(q)'
    BY <1>0, <1>11
    DEF TypeOK, EntryParts, HoldingInv, ReleaseInv, Holds, EvidenceInv,
        Goto, Early, Entered, InTry, CheckOwnership
  <1>12. ASSUME NEW p \in Invocations, Rmdir(p)
        PROVE  EntryParts(q)'
    <2>1. entry.owner = p
      BY <1>12 DEF Rmdir, EntryInv, HoldingInv, Holds
    <2>2. entry'.owner \notin Invocations
      BY <1>12, InvocationAssumption DEF Rmdir, EntryGone, NoLock
    <2> QED
      BY <1>0, <1>12, <2>1, <2>2
      DEF TypeOK, EntryParts, HoldingInv, ReleaseInv, Holds, EvidenceInv,
          Goto, Early, Entered, InTry, Rmdir, EntryGone
  <1>13. ASSUME NEW p \in Invocations, MarkReleased(p)
        PROVE  EntryParts(q)'
    BY <1>0, <1>13
    DEF TypeOK, EntryParts, HoldingInv, ReleaseInv, Holds, EvidenceInv,
        Goto, Early, Entered, InTry, MarkReleased
  <1>14. ASSUME NEW p \in Invocations, ReleaseFails(p)
        PROVE  EntryParts(q)'
    <2>1. /\ ev'[p].outcome = "INTERRUPTED"
          /\ ev'[p].acquired = ev[p].acquired /\ ev'[p].released = ev[p].released
          /\ q # p => ev'[q] = ev[q]
      BY <1>14 DEF TypeOK, Concluded, ReleaseFails, FailedEvidence
    <2> QED
      BY <1>0, <1>14, <2>1
      DEF TypeOK, EntryParts, HoldingInv, ReleaseInv, Holds, EvidenceInv,
          Goto, Early, Entered, InTry, ReleaseFails, ReleaseRaises, RmdirRaises
  <1>15. ASSUME NEW p \in Invocations, Return(p)
        PROVE  EntryParts(q)'
    BY <1>0, <1>15
    DEF TypeOK, EntryParts, HoldingInv, ReleaseInv, Holds, EvidenceInv,
        Goto, Early, Entered, InTry, Return
  <1>16. ASSUME NEW p \in Invocations, Interrupt(p)
        PROVE  EntryParts(q)'
    <2>1. /\ ev'[p].outcome = "INTERRUPTED"
          /\ ev'[p].acquired = ev[p].acquired /\ ev'[p].released = ev[p].released
          /\ q # p => ev'[q] = ev[q]
      BY <1>16 DEF TypeOK, Concluded, Interrupt
    <2> QED
      BY <1>0, <1>16, <2>1
      DEF TypeOK, EntryParts, HoldingInv, ReleaseInv, Holds, EvidenceInv,
          Goto, Early, Entered, InTry, Interrupt
  <1>17. ASSUME NEW p \in Invocations, InterruptAgain(p)
        PROVE  EntryParts(q)'
    BY <1>0, <1>17
    DEF TypeOK, EntryParts, HoldingInv, ReleaseInv, Holds, EvidenceInv,
        Goto, Early, Entered, InTry, InterruptAgain
  <1>18. ASSUME NEW p \in Invocations, InterruptRelease(p)
        PROVE  EntryParts(q)'
    <2>1. /\ ev'[p].outcome = "INTERRUPTED"
          /\ ev'[p].acquired = ev[p].acquired /\ ev'[p].released = ev[p].released
          /\ q # p => ev'[q] = ev[q]
      BY <1>18 DEF TypeOK, Concluded, InterruptRelease, FailedEvidence
    <2> QED
      BY <1>0, <1>18, <2>1
      DEF TypeOK, EntryParts, HoldingInv, ReleaseInv, Holds, EvidenceInv,
          Goto, Early, Entered, InTry, InterruptRelease, ReleaseMayFail
  <1>19. ASSUME NEW p \in Invocations, Crash(p)
        PROVE  EntryParts(q)'
    BY <1>0, <1>19
    DEF TypeOK, EntryParts, HoldingInv, ReleaseInv, Holds, EvidenceInv,
        Goto, Early, Entered, InTry, Crash
  <1>20. ASSUME NEW p \in Invocations, Quiesce(p)
        PROVE  EntryParts(q)'
    BY <1>0, <1>20
    DEF TypeOK, EntryParts, HoldingInv, ReleaseInv, Holds, EvidenceInv,
        Goto, Early, Entered, InTry, Quiesce
  <1>21. CASE Reconcile
    <2>1. entry.owner \in Invocations /\ pc[entry.owner] \in Over
      BY <1>21, EntryOwner DEF Reconcile, EntryGone, Abandoned
    <2>2. entry'.owner \notin Invocations
      BY <1>21, InvocationAssumption DEF Reconcile, EntryGone, NoLock
    <2> QED
      BY <1>0, <1>21, <2>1, <2>2
      DEF EntryParts, HoldingInv, ReleaseInv, Holds, Early, Entered, Over,
          Reconcile
  <1>22. CASE UNCHANGED vars
    BY <1>0, <1>22 DEF EntryParts, HoldingInv, ReleaseInv, Holds, vars
  <1> QED
    BY <1>1, <1>2, <1>3, <1>4, <1>5, <1>6, <1>7, <1>8, <1>9, <1>10, <1>11, <1>12, <1>13, <1>14, <1>15, <1>16, <1>17, <1>18, <1>19, <1>20, <1>21, <1>22 DEF Next, Step, Disturb

THEOREM EntryCorrect == Careful => (Spec => []EntryInv)
  <1> SUFFICES ASSUME Careful
               PROVE  Spec => []EntryInv
    OBVIOUS
  <1>1. Init => EntryInv
    <2> SUFFICES ASSUME Init, NEW p \in Invocations
                 PROVE  EntryParts(p)
      BY DEF EntryInv, EntryParts
    <2>1. pc[p] = "idle" /\ entry.owner # p
      BY InvocationAssumption DEF Init, NoLock
    <2> QED
      BY <2>1 DEF EntryParts, HoldingInv, ReleaseInv, Holds, Early, Entered
  <1>2. TypeOK /\ LocalInv /\ EntryInv /\ [Next]_vars => EntryInv'
    BY EntryStep
  <1> QED
    BY <1>1, <1>2, TypeCorrect, LocalCorrect, PTL DEF Spec

\* Two actions never run at the same time, for any number of invocations.
THEOREM Exclusion == Careful => (Spec => []MutualExclusion)
  <1>1. EntryInv => MutualExclusion
    BY DEF EntryInv, HoldingInv, Holds, Entered, MutualExclusion
  <1> QED
    BY <1>1, EntryCorrect, PTL

\* A result other than INTERRUPTED implies that the entry has been given back.
THEOREM CleanReports == Careful => (Spec => []CleanReportLeavesNoEntry)
  <1>1. EntryInv => CleanReportLeavesNoEntry
    BY DEF EntryInv, ReleaseInv, CleanReportLeavesNoEntry
  <1> QED
    BY <1>1, EntryCorrect, PTL

\* An entry vanishes only by its creator's rmdir or once its creator is over.
THEOREM EntriesNeverStolen == Careful => (Spec => NeverStolen)
  <1> SUFFICES ASSUME Careful
               PROVE  Spec => NeverStolen
    OBVIOUS
  <1> DEFINE Gone ==
        entry # NoLock /\ entry' # entry
          => /\ entry' = NoLock
             /\ \/ pc[entry.owner] = "rmdir" /\ pc'[entry.owner] = "confirm"
                \/ pc[entry.owner] \in Over
  <1>1. TypeOK /\ EntryInv /\ [Next]_vars => [Gone]_vars
    <2> SUFFICES ASSUME TypeOK, EntryInv, Next
                 PROVE  Gone
      BY DEF vars
    <2>1. ASSUME NEW p \in Invocations, Rmdir(p)
          PROVE  Gone
      <3>1. entry.owner = p
        BY <2>1 DEF Rmdir, EntryInv, HoldingInv, Holds
      <3> QED
        BY <2>1, <3>1 DEF Rmdir, EntryGone, Goto, TypeOK
    <2>2. CASE Reconcile
      BY <2>2 DEF Reconcile, EntryGone, Abandoned
    <2>3. ASSUME NEW p \in Invocations, Mkdir(p)
          PROVE  Gone
      BY <2>3 DEF Mkdir
    <2>4. ASSUME entry' = entry
          PROVE  Gone
      BY <2>4
    <2> QED
      BY <2>1, <2>2, <2>3, <2>4
      DEF Next, Step, Disturb, Start, Validate, MarkAcquired, Lstat, Preflight,
          ActionReturns, ActionFails, Raise, NoLockToRelease, CheckOwnership,
          MarkReleased, ReleaseFails, Return, Interrupt, InterruptAgain,
          InterruptRelease, Crash, Quiesce
  <1> QED
    BY <1>1, TypeCorrect, EntryCorrect, PTL DEF Spec, NeverStolen

-----------------------------------------------------------------------------
(* What the identity check guarantees beside any operator. *)

\* Whoever lost its entry in no blind window still has it while blind, and
\* recognises no other.
IdentityInv ==
  \A q \in Invocations \ swapped :
    pc[q] \in {"mark", "lstat", "rmdir"} \/ Recognised(q) => entry.owner = q

\* A step that leaves entry and identities alone, and after which the one who
\* took it is blind only if it was before, or has just recognised its entry.
LEMMA IdentityKept ==
  ASSUME TypeOK, IdentityInv, UNCHANGED <<identity, entry, swapped>>,
         NEW p \in Invocations,
         \A q \in Invocations \ {p} : pc'[q] = pc[q],
         Blind(p)' => Blind(p) \/ Recognised(p)
  PROVE  IdentityInv'
  BY DEF IdentityInv, Recognised, Blind

\* The entry that disappears was nobody's, or its creator knows or is recorded.
LEMMA IdentityGone ==
  ASSUME TypeOK, IdentityInv, NEW others \in SUBSET Invocations, EntryGone(others),
         \A q \in others : pc'[q] = pc[q],
         \A q \in Invocations \ others : ~Blind(q)'
  PROVE  IdentityInv'
  BY DEF IdentityInv, EntryGone, Recognised, Blind, NoLock, TypeOK

\* An identity that nobody remembers is taken for nobody else's.
LEMMA IdentityStep ==
  ASSUME FreshInodes, TypeOK, IdentityInv, [Next]_vars
  PROVE  IdentityInv'
  <1>1. ASSUME NEW p \in Invocations, Mkdir(p)
        PROVE  IdentityInv'
    <2>1. PICK i \in Inodes \ {identity[q] : q \in Invocations} :
            entry' = [owner |-> p, ino |-> i]
      BY <1>1 DEF Mkdir, NewInodes
    <2>2. \A q \in Invocations : ~Recognised(q)'
      BY <1>1, <2>1 DEF Mkdir, Recognised
    <2>3. \A q \in Invocations \ swapped : pc[q] \notin {"mark", "lstat", "rmdir"}
      BY <1>1, InvocationAssumption DEF Mkdir, IdentityInv, NoLock
    <2> QED
      BY <1>1, <2>1, <2>2, <2>3 DEF Mkdir, Goto, IdentityInv, TypeOK
  <1>2. ASSUME NEW p \in Invocations, Lstat(p)
        PROVE  IdentityInv'
    BY <1>2 DEF Lstat, Goto, IdentityInv, Recognised, TypeOK
  <1>3. ASSUME NEW p \in Invocations, Rmdir(p)
        PROVE  IdentityInv'
    <2>1. /\ \A q \in Invocations \ {p} : pc'[q] = pc[q]
          /\ ~Blind(p)'
      BY <1>3 DEF Rmdir, Goto, TypeOK, Blind
    <2> QED
      BY <1>3, <2>1, IdentityGone DEF Rmdir
  <1>4. CASE Reconcile
    BY <1>4, IdentityGone DEF Reconcile
  <1>5. ASSUME NEW p \in Invocations, MarkAcquired(p) \/ CheckOwnership(p)
        PROVE  IdentityInv'
    <2>1. Blind(p) \/ Recognised(p)
      BY <1>5 DEF MarkAcquired, CheckOwnership, Blind
    <2> QED
      BY <1>5, <2>1, IdentityKept DEF MarkAcquired, CheckOwnership, Goto, TypeOK
  <1>6. ASSUME NEW p \in Invocations,
               \/ Start(p) \/ Validate(p) \/ Preflight(p) \/ ActionReturns(p) \/ ActionFails(p)
               \/ Raise(p) \/ NoLockToRelease(p) \/ MarkReleased(p) \/ ReleaseFails(p)
               \/ Return(p) \/ Interrupt(p) \/ InterruptRelease(p) \/ Crash(p)
        PROVE  IdentityInv'
    <2>1. /\ UNCHANGED <<identity, entry, swapped>>
          /\ \A q \in Invocations \ {p} : pc'[q] = pc[q]
          /\ ~Blind(p)'
      BY <1>6
      DEF TypeOK, Goto, Blind, Start, Validate, Preflight, ActionReturns, ActionFails, Raise,
          NoLockToRelease, MarkReleased, ReleaseFails, Return, Interrupt, InterruptRelease, Crash
    <2> QED
      BY <2>1, IdentityKept
  <1>7. ASSUME UNCHANGED <<pc, identity, entry, swapped>>
        PROVE  IdentityInv'
    BY <1>7 DEF IdentityInv, Recognised
  <1> QED
    BY <1>1, <1>2, <1>3, <1>4, <1>5, <1>6, <1>7
    DEF Next, Step, Disturb, InterruptAgain, Quiesce, vars

\* Even beside a careless operator an rmdir takes somebody else's entry only if
\* the own one was removed in a blind window, if identities are not reused.
THEOREM OnlyOwnEntryRemoved == FreshInodes => (Spec => RemovesOwnEntry)
  <1> SUFFICES ASSUME FreshInodes
               PROVE  Spec => RemovesOwnEntry
    OBVIOUS
  <1> DEFINE Own == \A p \in Invocations :
                      pc[p] = "rmdir" /\ pc'[p] = "confirm" => entry.owner = p \/ p \in swapped
  <1>1. Init => IdentityInv
    BY DEF Init, IdentityInv, Recognised
  <1>2. TypeOK /\ IdentityInv /\ [Next]_vars => IdentityInv'
    BY IdentityStep
  <1>3. IdentityInv => Own
    BY DEF IdentityInv
  <1> QED
    BY <1>1, <1>2, <1>3, TypeCorrect, PTL DEF Spec, RemovesOwnEntry

-----------------------------------------------------------------------------
(* The envelope implements the abstract mutex. *)

\* Every step of the envelope is a step of the mutex or leaves it unchanged.
LEMMA MutexStep ==
  ASSUME Careful, TypeOK, TypeOK', EntryInv, [Next]_vars
  PROVE  [Mutex!Next]_(Mutex!vars)
  <1> DEFINE Same == entry'.owner = entry.owner /\ Running' = Running /\ Verdict' = Verdict
             Done == [Mutex!Next]_(Mutex!vars)
  <1>0. ASSUME Same
        PROVE  Done
    BY <1>0 DEF Mutex!vars, Running, Verdict
  <1>1. ASSUME NEW p \in Invocations, Start(p)
        PROVE  Done
    <2>1. /\ \A q \in Invocations : q # p => pc'[q] = pc[q] /\ ev'[q] = ev[q]
          /\ entry' = entry
          /\ pc[p] \notin Over \cup {"action"} /\ pc'[p] \notin Over \cup {"action"}
          \/ UNCHANGED <<pc, ev, entry>>
      BY <1>1 DEF Start, TypeOK, Goto, Over
    <2> QED
      BY <1>0, <2>1 DEF Running, Verdict
  <1>2. ASSUME NEW p \in Invocations, Validate(p)
        PROVE  Done
    <2>1. /\ \A q \in Invocations : q # p => pc'[q] = pc[q] /\ ev'[q] = ev[q]
          /\ entry' = entry
          /\ pc[p] \notin Over \cup {"action"} /\ pc'[p] \notin Over \cup {"action"}
          \/ UNCHANGED <<pc, ev, entry>>
      BY <1>2 DEF Validate, TypeOK, Goto, Over
    <2> QED
      BY <1>0, <2>1 DEF Running, Verdict
  <1>3. ASSUME NEW p \in Invocations, MarkAcquired(p)
        PROVE  Done
    <2>1. /\ \A q \in Invocations : q # p => pc'[q] = pc[q] /\ ev'[q] = ev[q]
          /\ entry' = entry
          /\ pc[p] \notin Over \cup {"action"} /\ pc'[p] \notin Over \cup {"action"}
          \/ UNCHANGED <<pc, ev, entry>>
      BY <1>3 DEF MarkAcquired, TypeOK, Goto, Over
    <2> QED
      BY <1>0, <2>1 DEF Running, Verdict
  <1>4. ASSUME NEW p \in Invocations, Lstat(p)
        PROVE  Done
    <2>1. /\ \A q \in Invocations : q # p => pc'[q] = pc[q] /\ ev'[q] = ev[q]
          /\ entry' = entry
          /\ pc[p] \notin Over \cup {"action"} /\ pc'[p] \notin Over \cup {"action"}
          \/ UNCHANGED <<pc, ev, entry>>
      BY <1>4 DEF Lstat, TypeOK, Goto, Over
    <2> QED
      BY <1>0, <2>1 DEF Running, Verdict
  <1>5. ASSUME NEW p \in Invocations, NoLockToRelease(p)
        PROVE  Done
    <2>1. /\ \A q \in Invocations : q # p => pc'[q] = pc[q] /\ ev'[q] = ev[q]
          /\ entry' = entry
          /\ pc[p] \notin Over \cup {"action"} /\ pc'[p] \notin Over \cup {"action"}
          \/ UNCHANGED <<pc, ev, entry>>
      BY <1>5 DEF NoLockToRelease, TypeOK, Goto, Over
    <2> QED
      BY <1>0, <2>1 DEF Running, Verdict
  <1>6. ASSUME NEW p \in Invocations, CheckOwnership(p)
        PROVE  Done
    <2>1. /\ \A q \in Invocations : q # p => pc'[q] = pc[q] /\ ev'[q] = ev[q]
          /\ entry' = entry
          /\ pc[p] \notin Over \cup {"action"} /\ pc'[p] \notin Over \cup {"action"}
          \/ UNCHANGED <<pc, ev, entry>>
      BY <1>6 DEF CheckOwnership, TypeOK, Goto, Over
    <2> QED
      BY <1>0, <2>1 DEF Running, Verdict
  <1>7. ASSUME NEW p \in Invocations, MarkReleased(p)
        PROVE  Done
    <2>1. /\ \A q \in Invocations : q # p => pc'[q] = pc[q] /\ ev'[q] = ev[q]
          /\ entry' = entry
          /\ pc[p] \notin Over \cup {"action"} /\ pc'[p] \notin Over \cup {"action"}
          \/ UNCHANGED <<pc, ev, entry>>
      BY <1>7 DEF MarkReleased, TypeOK, Goto, Over
    <2> QED
      BY <1>0, <2>1 DEF Running, Verdict
  <1>8. ASSUME NEW p \in Invocations, ReleaseFails(p)
        PROVE  Done
    <2>1. /\ \A q \in Invocations : q # p => pc'[q] = pc[q] /\ ev'[q] = ev[q]
          /\ entry' = entry
          /\ pc[p] \notin Over \cup {"action"} /\ pc'[p] \notin Over \cup {"action"}
          \/ UNCHANGED <<pc, ev, entry>>
      BY <1>8 DEF ReleaseFails, ReleaseRaises, RmdirRaises, FailedEvidence, Concluded, TypeOK, Goto, Over
    <2> QED
      BY <1>0, <2>1 DEF Running, Verdict
  <1>9. ASSUME NEW p \in Invocations, InterruptAgain(p)
        PROVE  Done
    <2>1. /\ \A q \in Invocations : q # p => pc'[q] = pc[q] /\ ev'[q] = ev[q]
          /\ entry' = entry
          /\ pc[p] \notin Over \cup {"action"} /\ pc'[p] \notin Over \cup {"action"}
          \/ UNCHANGED <<pc, ev, entry>>
      BY <1>9 DEF InterruptAgain, TypeOK, Goto, Over
    <2> QED
      BY <1>0, <2>1 DEF Running, Verdict
  <1>10. ASSUME NEW p \in Invocations, InterruptRelease(p)
        PROVE  Done
    <2>1. /\ \A q \in Invocations : q # p => pc'[q] = pc[q] /\ ev'[q] = ev[q]
          /\ entry' = entry
          /\ pc[p] \notin Over \cup {"action"} /\ pc'[p] \notin Over \cup {"action"}
          \/ UNCHANGED <<pc, ev, entry>>
      BY <1>10 DEF InterruptRelease, ReleaseMayFail, FailedEvidence, Concluded, TypeOK, Goto, Over
    <2> QED
      BY <1>0, <2>1 DEF Running, Verdict
  <1>11. ASSUME NEW p \in Invocations, Quiesce(p)
        PROVE  Done
    <2>1. /\ \A q \in Invocations : q # p => pc'[q] = pc[q] /\ ev'[q] = ev[q]
          /\ entry' = entry
          /\ pc[p] \notin Over \cup {"action"} /\ pc'[p] \notin Over \cup {"action"}
          \/ UNCHANGED <<pc, ev, entry>>
      BY <1>11 DEF Quiesce, TypeOK, Goto, Over
    <2> QED
      BY <1>0, <2>1 DEF Running, Verdict
  <1>12. ASSUME NEW p \in Invocations, Mkdir(p)
        PROVE  Done
    <2>1. Mutex!Take(p)
      BY <1>12, EntryOwner DEF Mkdir, Goto, TypeOK, NoLock, Over, Running, Verdict, Mutex!Take
    <2> QED
      BY <2>1 DEF Mutex!Next
  <1>13. ASSUME NEW p \in Invocations, Preflight(p)
        PROVE  Done
    <2>1. Mutex!Begin(p)
      <3>1. entry.owner = p /\ entry' = entry
        BY <1>13 DEF Preflight, EntryInv, HoldingInv, Holds, Entered
      <3>2. Running' = Running \cup {p}
        BY <1>13 DEF Preflight, Goto, TypeOK, Running
      <3>3. Verdict' = Verdict /\ Verdict[p] = "none"
        BY <1>13 DEF Preflight, Goto, TypeOK, Verdict, Over
      <3> QED
        BY <3>1, <3>2, <3>3 DEF Mutex!Begin
    <2> QED
      BY <2>1 DEF Mutex!Next
  <1>14. ASSUME NEW p \in Invocations, ActionReturns(p)
        PROVE  Done
    <2>1. /\ \A q \in Invocations : q # p => pc'[q] = pc[q] /\ ev'[q] = ev[q]
          /\ entry' = entry /\ pc[p] = "action" /\ pc'[p] = "finally"
      BY <1>14 DEF ActionReturns, Concluded, TypeOK, Goto
    <2>2. Mutex!End(p)
      BY <2>1 DEF Running, Verdict, Over, Mutex!End
    <2> QED
      BY <2>2 DEF Mutex!Next
  <1>15. ASSUME NEW p \in Invocations, ActionFails(p)
        PROVE  Done
    <2>1. /\ \A q \in Invocations : q # p => pc'[q] = pc[q] /\ ev'[q] = ev[q]
          /\ entry' = entry /\ pc[p] = "action" /\ pc'[p] = "finally"
      BY <1>15 DEF ActionFails, Concluded, TypeOK, Goto
    <2>2. Mutex!End(p)
      BY <2>1 DEF Running, Verdict, Over, Mutex!End
    <2> QED
      BY <2>2 DEF Mutex!Next
  <1>16. ASSUME NEW p \in Invocations, Raise(p)
        PROVE  Done
    <2>1. /\ \A q \in Invocations : q # p => pc'[q] = pc[q] /\ ev'[q] = ev[q]
          /\ entry' = entry /\ pc[p] \notin Over /\ pc'[p] = "finally"
      BY <1>16 DEF Raise, MayRaise, Concluded, TypeOK, Goto, Over
    <2>2. CASE pc[p] = "action"
      <3>1. Mutex!End(p)
        BY <2>1, <2>2 DEF Running, Verdict, Over, Mutex!End
      <3> QED
        BY <3>1 DEF Mutex!Next
    <2>3. CASE pc[p] # "action"
      BY <1>0, <2>1, <2>3 DEF Running, Verdict, Over
    <2> QED
      BY <2>2, <2>3
  <1>17. ASSUME NEW p \in Invocations, Interrupt(p)
        PROVE  Done
    <2>1. /\ \A q \in Invocations : q # p => pc'[q] = pc[q] /\ ev'[q] = ev[q]
          /\ entry' = entry /\ pc[p] \notin Over /\ pc'[p] = "finally"
      BY <1>17 DEF Interrupt, InTry, Concluded, TypeOK, Goto, Over
    <2>2. CASE pc[p] = "action"
      <3>1. Mutex!End(p)
        BY <2>1, <2>2 DEF Running, Verdict, Over, Mutex!End
      <3> QED
        BY <3>1 DEF Mutex!Next
    <2>3. CASE pc[p] # "action"
      BY <1>0, <2>1, <2>3 DEF Running, Verdict, Over
    <2> QED
      BY <2>2, <2>3
  <1>18. ASSUME NEW p \in Invocations, Rmdir(p)
        PROVE  Done
    <2>1. entry.owner = p /\ pc[p] = "rmdir"
      BY <1>18 DEF Rmdir, EntryInv, HoldingInv, Holds
    <2>2. Mutex!Free
      <3>1. Running' = Running /\ p \notin Running
        BY <1>18 DEF Rmdir, Goto, TypeOK, Running
      <3>2. Verdict' = Verdict
        BY <1>18 DEF Rmdir, Goto, TypeOK, Verdict, Over
      <3> QED
        BY <1>18, <2>1, <3>1, <3>2, InvocationAssumption
        DEF Rmdir, EntryGone, NoLock, Mutex!Free
    <2> QED
      BY <2>2 DEF Mutex!Next
  <1>19. ASSUME NEW p \in Invocations, Return(p)
        PROVE  Done
    <2>1. /\ pc[p] = "return" /\ pc'[p] \in {"raised", "reported"}
          /\ \A q \in Invocations : q # p => pc'[q] = pc[q]
          /\ ev' = ev /\ entry' = entry
      BY <1>19 DEF Return, Goto, TypeOK
    <2>2. Running' = Running /\ p \notin Running /\ Verdict[p] = "none"
      BY <2>1 DEF Running, Verdict, Over
    <2>3. Verdict' = [Verdict EXCEPT ![p] = Verdict'[p]]
      BY <2>1 DEF Verdict
    <2>4. CASE Verdict'[p] = "clean"
      <3>1. entry.owner # p
        BY <2>1, <2>4 DEF Verdict, Over, EntryInv, ReleaseInv
      <3>2. Mutex!Settle(p)
        BY <2>1, <2>2, <2>3, <2>4, <3>1 DEF Mutex!Settle
      <3> QED
        BY <3>2 DEF Mutex!Next
    <2>5. CASE Verdict'[p] = "unclean"
      <3>1. Mutex!Abort(p)
        BY <2>1, <2>2, <2>3, <2>5 DEF Mutex!Abort
      <3> QED
        BY <3>1 DEF Mutex!Next
    <2> QED
      BY <2>1, <2>4, <2>5 DEF Verdict, Over
  <1>20. ASSUME NEW p \in Invocations, Crash(p)
        PROVE  Done
    <2>1. /\ pc[p] \notin Over /\ pc' = [pc EXCEPT ![p] = "dead"]
          /\ ev' = ev /\ entry' = entry
      BY <1>20 DEF Crash, Goto, Live, InTry, Over
    <2>2. Running' = Running \ {p}
      BY <2>1 DEF Running, TypeOK
    <2>3. Verdict' = [Verdict EXCEPT ![p] = "unclean"] /\ Verdict[p] = "none"
      BY <2>1 DEF Verdict, Over, TypeOK
    <2>4. Mutex!Abort(p)
      BY <2>1, <2>2, <2>3 DEF Mutex!Abort
    <2> QED
      BY <2>4 DEF Mutex!Next
  <1>21. CASE Reconcile
    <2>1. /\ entry # NoLock /\ entry' = NoLock /\ UNCHANGED <<pc, ev>>
          /\ pc[entry.owner] \in Over
      BY <1>21 DEF Reconcile, EntryGone, Abandoned
    <2>2. Running' = Running /\ Verdict' = Verdict /\ entry.owner \notin Running
      BY <2>1 DEF Running, Verdict, Over
    <2>3. Mutex!Free
      BY <2>1, <2>2, EntryOwner, InvocationAssumption DEF NoLock, Mutex!Free
    <2> QED
      BY <2>3 DEF Mutex!Next
  <1>22. CASE UNCHANGED vars
    BY <1>0, <1>22 DEF vars, Running, Verdict
  <1> QED
    BY <1>1, <1>2, <1>3, <1>4, <1>5, <1>6, <1>7, <1>8, <1>9, <1>10, <1>11, <1>12, <1>13, <1>14, <1>15, <1>16, <1>17, <1>18, <1>19, <1>20, <1>21, <1>22 DEF Next, Step, Disturb

\* The envelope implements the abstract mutex of RepositoryMutex.
THEOREM Implementation == Careful => (Spec => ImplementsMutex)
  <1> SUFFICES ASSUME Careful
               PROVE  Spec => Mutex!Spec
    BY DEF ImplementsMutex
  <1>1. Init => Mutex!Init
    BY DEF Init, NoLock, Running, Verdict, Over, Mutex!Init
  <1>2. TypeOK /\ TypeOK' /\ EntryInv /\ [Next]_vars => [Mutex!Next]_(Mutex!vars)
    BY MutexStep
  <1> QED
    BY <1>1, <1>2, TypeCorrect, EntryCorrect, PTL DEF Spec, Mutex!Spec
=============================================================================
