----------------------- MODULE RuntimePublicationProofs -----------------------
(***************************************************************************)
(* Theorems about RuntimePublication, for any set of contents and any      *)
(* number of foreign edits, commits, pushes and pull-request changes.      *)
(***************************************************************************)
EXTENDS RuntimePublication, SequenceTheorems, TLAPS

Refusing   == {"inspect", "fingerprint", "observe_remote", "observe_pr", "objects"}
Staging    == {"staged_paths", "staged_bytes", "staged_index", "commit"}
Committed  == {"commit_parent", "commit_clean", "commit_tree", "commit_failed"}
Publishing == {"push", "verify_remote", "create_pr", "verify_pr"}

NobodyYet(h) == \A i \in 1..Len(h) : h[i].by # "runner"

\* What the publication may have changed so far.
EffectsInv ==
  /\ pc \in Refusing \cup {"add"} => effects = {}
  /\ pc \in Staging \cup Committed \cup {"rev_parse", "push"}
       => effects \cap {"push", "pr"} = {}

\* What the result says of it, and that no result is written before the end.
ResultInv ==
  /\ pc # "done" => result.status = "none" /\ result.outcome = "none" /\ result.local = Absent
  /\ pc \in Refusing \cup Staging \cup {"add", "rev_parse"} => local = Absent
  /\ pc \in Committed \cup Publishing => local # Absent
  /\ RefusedIsHarmless /\ UnverifiedEffectIsUncertain

\* The publication has no commit on the branch before git commit, nor after an
\* outcome that denies one.
CommitInv ==
  /\ pc \in Refusing \cup Staging \cup {"add"} => NobodyYet(head)
  /\ NoHiddenCommit

\* The remote branch is at a commit it has reached.
RemoteInv ==
  /\ remote \in reached
  /\ pc \in {"create_pr", "verify_pr"} => local \in reached
  /\ RemoteEvidenceIsTrue

\* What is known of the frozen commit if nobody moves HEAD meanwhile.
ExactInv ==
  /\ Verifying /\ ~moved => head = local
  /\ pc \in {"commit_clean", "commit_tree"} /\ ~moved => Len(local) = 1
  /\ pc \in Publishing /\ ~moved => ExactlyValidated(local)
  /\ VerifiedIsExact

PublicationInv == EffectsInv /\ ResultInv /\ CommitInv /\ RemoteInv /\ ExactInv
-----------------------------------------------------------------------------
(* Type correctness. *)

LEMMA BaseTyped == Base \in Histories /\ Len(Base) = 0
  BY DEF Base, Histories

\* A commit on top of a branch.
LEMMA CommitTyped ==
  ASSUME NEW h \in Histories, NEW c \in Contents,
         NEW who \in {"runner", "other", "elsewhere"}
  PROVE  /\ Append(h, Commit(who, c)) \in Histories
         /\ Len(Append(h, Commit(who, c))) = Len(h) + 1
         /\ Append(h, Commit(who, c)) # Base
         /\ \A i \in 1..Len(h) : Append(h, Commit(who, c))[i] = h[i]
         /\ Append(h, Commit(who, c))[Len(h) + 1].by = who
  <1>1. Commit(who, c) \in [by : {"runner", "other", "elsewhere"}, tree : Contents]
    BY DEF Commit
  <1>2. Commit(who, c).by = who
    BY DEF Commit
  <1> HIDE DEF Commit
  <1> QED
    BY <1>1, <1>2, AppendProperties DEF Histories, Base

\* The last commit of a branch undone.
LEMMA UndoTyped ==
  ASSUME NEW h \in Histories, h # Base
  PROVE  /\ SubSeq(h, 1, Len(h) - 1) \in Histories
         /\ Len(SubSeq(h, 1, Len(h) - 1)) = Len(h) - 1
         /\ \A i \in 1..(Len(h) - 1) : SubSeq(h, 1, Len(h) - 1)[i] = h[i]
  <1> DEFINE C == [by : {"runner", "other", "elsewhere"}, tree : Contents]
  <1>1. h \in Seq(C) /\ h # << >>
    BY DEF Histories, Base
  <1>2. Len(h) \in Nat \ {0}
    BY <1>1, EmptySeq
  <1>3. \A i \in 1..(Len(h) - 1) : h[i] \in C
    <2> SUFFICES ASSUME NEW i \in 1..(Len(h) - 1)
                 PROVE  h[i] \in C
      OBVIOUS
    <2>1. i \in 1..Len(h)
      BY <1>2
    <2> QED
      BY <1>1, <2>1, ElementOfSeq
  <1> DEFINE u == SubSeq(h, 1, Len(h) - 1)
  <1>4. /\ u \in Seq(C)
        /\ Len(u) = IF 1 <= Len(h) - 1 THEN Len(h) - 1 - 1 + 1 ELSE 0
        /\ \A i \in 1 .. Len(h) - 1 - 1 + 1 : u[i] = h[1 + i - 1]
    BY <1>2, <1>3, SubSeqProperties
  <1>5. Len(u) = Len(h) - 1
    <2>1. Len(u) = IF 1 <= Len(h) - 1 THEN Len(h) - 1 - 1 + 1 ELSE 0
      BY <1>4
    <2> HIDE DEF u
    <2> DEFINE n == Len(h)
               m == Len(u)
    <2>2. n \in Nat \ {0} /\ m = IF 1 <= n - 1 THEN n - 1 - 1 + 1 ELSE 0
      BY <1>2, <2>1
    <2> HIDE DEF n, m
    <2>3. m = n - 1
      BY <2>2
    <2> QED
      BY <2>3 DEF n, m
  <1>6. \A i \in 1..(Len(h) - 1) : u[i] = h[i]
    <2> SUFFICES ASSUME NEW i \in 1..(Len(h) - 1)
                 PROVE  u[i] = h[i]
      OBVIOUS
    <2>1. i \in 1 .. Len(h) - 1 - 1 + 1 /\ 1 + i - 1 = i
      BY <1>2
    <2> HIDE DEF u
    <2> QED
      BY <1>4, <2>1
  <1> QED
    BY <1>4, <1>5, <1>6 DEF Histories

\* Every state of the publication, its world and its result are well typed.
THEOREM TypeCorrect == Spec => []TypeOK
  <1> USE PublicationAssumption
  <1>1. Init => TypeOK
    <2> SUFFICES ASSUME Init
                 PROVE  TypeOK
      OBVIOUS
    <2>1. remote \in Histories \cup {Absent} /\ pr \in {"none", "open"}
      BY BaseTyped DEF Init
    <2>2. result = Result("none", "none", Absent, Absent)
      BY DEF Init
    <2>3. work \in Contents /\ index \in Contents /\ foreign \in 0..MaxForeign
      BY DEF Init
    <2>4. stray \in BOOLEAN /\ moved \in BOOLEAN
      BY DEF Init
    <2> QED
      BY <2>1, <2>2, <2>3, <2>4, BaseTyped DEF Init, TypeOK, Result
  <1>2. TypeOK /\ [Next]_vars => TypeOK'
    <2> SUFFICES ASSUME TypeOK, [Next]_vars
                 PROVE  TypeOK'
      OBVIOUS
    <2> USE DEF TypeOK, Goto, Finish, Fail, Uncertain, Result, Statuses, world, code, ghost
    <2>1. CASE Inspect
      BY <2>1 DEF Inspect, Observe
    <2>2. CASE Fingerprint
      BY <2>2 DEF Fingerprint, Observe
    <2>3. CASE ObserveRemote
      BY <2>3 DEF ObserveRemote, Observe
    <2>4. CASE ObservePr
      BY <2>4 DEF ObservePr, Observe, ValidPr
    <2>5. CASE ExpectedObjects
      BY <2>5 DEF ExpectedObjects, Observe
    <2>6. CASE Add
      BY <2>6 DEF Add
    <2>7. CASE StagedPaths
      BY <2>7 DEF StagedPaths, Observe
    <2>8. CASE StagedBytes
      BY <2>8 DEF StagedBytes, Observe
    <2>9. CASE StagedIndex
      BY <2>9 DEF StagedIndex, Observe
    <2>10. CASE GitCommit
      <3>1. head' \in Histories /\ index' \in Contents
        <4>1. CASE \E c \in Contents \ {Top(head)} :
                     head' = Append(head, Commit("runner", c)) /\ index' = c
          <5>1. PICK c \in Contents :
                  head' = Append(head, Commit("runner", c)) /\ index' = c
            BY <4>1
          <5> QED
            BY <5>1, CommitTyped
        <4>2. CASE UNCHANGED <<head, index>>
          BY <4>2
        <4> QED
          BY <2>10, <4>1, <4>2 DEF GitCommit
      <3>2. effects' \subseteq {"index", "commit", "push", "pr"}
        BY <2>10 DEF GitCommit
      <3> QED
        BY <2>10, <3>1, <3>2 DEF GitCommit
    <2>11. CASE RevParse
      BY <2>11 DEF RevParse
    <2>12. CASE CommitParent
      BY <2>12 DEF CommitParent, Observe
    <2>13. CASE CommitClean
      BY <2>13 DEF CommitClean, Observe
    <2>14. CASE CommitTree
      BY <2>14 DEF CommitTree, Observe, AfterVerification
    <2>15. CASE CommitReportedFailed
      BY <2>15 DEF CommitReportedFailed
    <2>16. CASE Push
      <3>1. PICK applied \in BOOLEAN :
              /\ PushEffect(applied)
              /\ \/ Goto("verify_remote")
                 \/ ~applied /\ Fail("COMMITTED_UNPUBLISHED")
                 \/ Uncertain("REMOTE_UNTRUSTWORTHY")
        BY <2>16 DEF Push
      <3>2. remote' \in Histories \cup {Absent}
        BY <2>16, <3>1 DEF Push, PushEffect
      <3>3. effects' \subseteq {"index", "commit", "push", "pr"}
        BY <3>1 DEF PushEffect
      <3> QED
        BY <2>16, <3>1, <3>2, <3>3 DEF Push
    <2>17. CASE VerifyRemote
      BY <2>17 DEF VerifyRemote, Observe
    <2>18. CASE CreatePr
      <3>1. pr' \in {"none", "open", "closed", "retargeted"}
            /\ effects' \subseteq {"index", "commit", "push", "pr"}
        BY <2>18 DEF CreatePr
      <3> QED
        BY <2>18, <3>1 DEF CreatePr, PrUntrustworthy
    <2>19. CASE VerifyPr
      BY <2>19 DEF VerifyPr, PrUntrustworthy
    <2>20. CASE EditWorktree
      BY <2>20 DEF EditWorktree, Acts
    <2>21. CASE StageWorktree
      BY <2>21 DEF StageWorktree, Acts
    <2>22. CASE MoveHead
      <3>1. head' \in Histories
        <4>1. CASE head' = Append(head, Commit("other", index))
          BY <4>1, CommitTyped
        <4>2. CASE head # Base /\ head' = SubSeq(head, 1, Len(head) - 1)
          BY <4>2, UndoTyped
        <4> QED
          BY <2>22, <4>1, <4>2 DEF MoveHead
      <3> QED
        BY <2>22, <3>1 DEF MoveHead, Acts
    <2>23. CASE MoveRemote
      <3>1. remote' \in Histories \cup {Absent}
        <4>1. CASE remote # Absent /\ remote' = Append(remote, Commit("elsewhere", Validated))
          <5>1. remote \in Histories
            BY <4>1
          <5> QED
            BY <4>1, <5>1, CommitTyped
        <4>2. CASE remote' \in {Absent, Base}
          BY <4>2, BaseTyped
        <4> QED
          BY <2>23, <4>1, <4>2 DEF MoveRemote
      <3> QED
        BY <2>23, <3>1 DEF MoveRemote, Acts
    <2>24. CASE MovePr
      BY <2>24 DEF MovePr, Acts
    <2>25. CASE UNCHANGED vars
      BY <2>25 DEF vars
    <2> QED
      BY <2>1, <2>2, <2>3, <2>4, <2>5, <2>6, <2>7, <2>8, <2>9, <2>10, <2>11, <2>12, <2>13, <2>14, <2>15, <2>16, <2>17, <2>18, <2>19, <2>20, <2>21, <2>22, <2>23, <2>24, <2>25 DEF Next, Step, Foreign
  <1> QED
    BY <1>1, <1>2, PTL DEF Spec
-----------------------------------------------------------------------------
(* The invariant. *)

LEMMA BranchFacts ==
  ASSUME TypeOK
  PROVE  head # Absent /\ Base # Absent /\ Len(head) \in Nat
  BY PublicationAssumption, BaseTyped, LenProperties DEF TypeOK, Histories

\* Moving HEAD puts no commit of the publication on the branch.
LEMMA MoveHeadByOthers ==
  ASSUME TypeOK, MoveHead
  PROVE  NobodyYet(head) => NobodyYet(head')
  <1>1. head \in Histories /\ index \in Contents /\ Len(head) \in Nat
    BY BranchFacts DEF TypeOK
  <1>2. CASE head' = Append(head, Commit("other", index))
    <2>1. /\ Len(head') = Len(head) + 1 /\ head'[Len(head) + 1].by = "other"
          /\ \A i \in 1..Len(head) : head'[i] = head[i]
      BY <1>1, <1>2, CommitTyped
    <2> QED
      BY <1>1, <2>1 DEF NobodyYet
  <1>3. CASE head # Base /\ head' = SubSeq(head, 1, Len(head) - 1)
    <2>1. /\ Len(head') = Len(head) - 1
          /\ \A i \in 1..(Len(head) - 1) : head'[i] = head[i]
      BY <1>1, <1>3, UndoTyped
    <2> QED
      BY <1>1, <2>1 DEF NobodyYet
  <1> QED
    BY <1>2, <1>3 DEF MoveHead

\* Every step, of the publication or of anybody else, keeps what it has done,
\* what it says of it, and what it knows of the frozen commit in agreement.
LEMMA InvStep ==
  ASSUME TypeOK, PublicationInv, [Next]_vars
  PROVE  PublicationInv'
  <1> USE DEF PublicationInv, EffectsInv, ResultInv, CommitInv, RemoteInv, ExactInv,
              RefusedIsHarmless, UnverifiedEffectIsUncertain, NoHiddenCommit,
              RemoteEvidenceIsTrue, VerifiedIsExact, ExactlyValidated, NobodyYet,
              Refusing, Staging, Committed, Publishing, Verifying,
              Goto, Finish, Fail, Uncertain, Result, world, code, ghost
  <1>1. CASE Inspect
    BY <1>1, BranchFacts DEF Inspect, Observe
  <1>2. CASE Fingerprint
    BY <1>2, BranchFacts DEF Fingerprint, Observe
  <1>3. CASE ObserveRemote
    BY <1>3, BranchFacts DEF ObserveRemote, Observe
  <1>4. CASE ObservePr
    BY <1>4, BranchFacts DEF ObservePr, Observe, ValidPr
  <1>5. CASE ExpectedObjects
    BY <1>5, BranchFacts DEF ExpectedObjects, Observe
  <1>6. CASE Add
    BY <1>6, BranchFacts DEF Add
  <1>7. CASE StagedPaths
    BY <1>7, BranchFacts DEF StagedPaths, Observe
  <1>8. CASE StagedBytes
    BY <1>8, BranchFacts DEF StagedBytes, Observe
  <1>9. CASE StagedIndex
    BY <1>9, BranchFacts DEF StagedIndex, Observe
  <1>10. CASE GitCommit
    BY <1>10, BranchFacts DEF GitCommit
  <1>11. CASE RevParse
    BY <1>11, BranchFacts, BaseTyped DEF RevParse
  <1>12. CASE CommitParent
    BY <1>12, BranchFacts DEF CommitParent, Observe
  <1>13. CASE CommitClean
    BY <1>13, BranchFacts DEF CommitClean, Observe
  <1>14. CASE CommitTree
    BY <1>14, BranchFacts DEF CommitTree, Observe, AfterVerification, Top
  <1>15. CASE CommitReportedFailed
    BY <1>15, BranchFacts DEF CommitReportedFailed
  <1>16. CASE Push
    BY <1>16, BranchFacts DEF Push, PushEffect
  <1>17. CASE VerifyRemote
    BY <1>17, BranchFacts DEF VerifyRemote, Observe
  <1>18. CASE CreatePr
    BY <1>18, BranchFacts DEF CreatePr, PrUntrustworthy
  <1>19. CASE VerifyPr
    BY <1>19, BranchFacts DEF VerifyPr, PrUntrustworthy, ValidPr
  <1>20. CASE EditWorktree
    BY <1>20, BranchFacts DEF EditWorktree, Acts
  <1>21. CASE StageWorktree
    BY <1>21, BranchFacts DEF StageWorktree, Acts
  <1>22. CASE MoveHead
    <2>1. NobodyYet(head) => NobodyYet(head')
      BY <1>22, MoveHeadByOthers
    <2> QED
      BY <1>22, <2>1, BranchFacts DEF MoveHead, Acts
  <1>23. CASE MoveRemote
    BY <1>23, BranchFacts DEF MoveRemote, Acts
  <1>24. CASE MovePr
    BY <1>24, BranchFacts DEF MovePr, Acts
  <1>25. CASE UNCHANGED vars
    BY <1>25 DEF vars
  <1> QED
    BY <1>1, <1>2, <1>3, <1>4, <1>5, <1>6, <1>7, <1>8, <1>9, <1>10, <1>11, <1>12, <1>13, <1>14, <1>15, <1>16, <1>17, <1>18, <1>19, <1>20, <1>21, <1>22, <1>23, <1>24, <1>25 DEF Next, Step, Foreign

THEOREM InvCorrect == Spec => []PublicationInv
  <1>1. Init => PublicationInv
    BY BaseTyped
    DEF Init, Result, PublicationInv, EffectsInv, ResultInv, CommitInv, RemoteInv,
        ExactInv, RefusedIsHarmless, UnverifiedEffectIsUncertain, NoHiddenCommit,
        RemoteEvidenceIsTrue, VerifiedIsExact, NobodyYet, Refusing, Staging,
        Committed, Publishing, Verifying
  <1>2. TypeOK /\ PublicationInv /\ [Next]_vars => PublicationInv'
    BY InvStep
  <1> QED
    BY <1>1, <1>2, TypeCorrect, PTL DEF Spec

\* A refused publication has changed nothing, every effect that could not be
\* verified is reported as untrustworthy, and an outcome that names no commit
\* hides none.
THEOREM OutcomesAreHonest == Spec => []ResultIsHonest
  <1>1. PublicationInv => ResultIsHonest
    BY DEF PublicationInv, ResultInv, CommitInv, ResultIsHonest
  <1> QED
    BY <1>1, InvCorrect, PTL

\* A remote head that a result names as its own has been one.
THEOREM EvidenceIsTrue == Spec => []RemoteEvidenceIsTrue
  <1>1. PublicationInv => RemoteEvidenceIsTrue
    BY DEF PublicationInv, RemoteInv
  <1> QED
    BY <1>1, InvCorrect, PTL

\* A verified publication is exactly the validated content on the baseline,
\* unless HEAD moved while it was being verified.
THEOREM ExactPublication == Spec => []VerifiedIsExact
  <1>1. PublicationInv => VerifiedIsExact
    BY DEF PublicationInv, ExactInv
  <1> QED
    BY <1>1, InvCorrect, PTL

=============================================================================
