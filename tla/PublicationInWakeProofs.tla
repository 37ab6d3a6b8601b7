------------------------ MODULE PublicationInWakeProofs ------------------------
(***************************************************************************)
(* RuntimePublication implements the publication of RuntimeWake, for any   *)
(* contents.                                                               *)
(***************************************************************************)
EXTENDS PublicationInWake, RuntimePublicationProofs

Preparing == Refusing \cup Staging \cup {"add"}

\* The checkout, while nobody else acts: up to the commit the branch is the
\* baseline, and what was validated is what is there.
LocalAlone ==
  /\ work # Original
  /\ pc \notin {"inspect", "done"} => ~stray
  /\ pc \notin {"inspect", "fingerprint", "done"} => work = Validated
  /\ pc \in Preparing => head = Base
  /\ head # Base => index = Top(head)
  /\ pc \in Committed \cup Publishing => local = head /\ head # Base
  /\ pc \in Publishing => Top(head) = Validated

\* The remote branch and the pull request: only what the publication did.
RemoteAlone ==
  /\ remote = IF "push" \in effects THEN local
              ELSE IF mode = "NEW_WORK" THEN Absent ELSE Base
  /\ pr = IF mode = "NEW_WORK" /\ "pr" \notin effects THEN "none" ELSE "open"
  /\ "pr" \in effects => mode = "NEW_WORK"
  /\ "push" \in effects => head # Base
  /\ pc \in {"create_pr", "verify_pr"} => "push" \in effects
  /\ pc \in {"verify_remote", "create_pr"} => "pr" \notin effects
  /\ pc = "create_pr" => mode = "NEW_WORK"
  /\ pc = "verify_pr" /\ mode = "NEW_WORK" => "pr" \in effects

Undisturbed == foreign = 0 => LocalAlone /\ RemoteAlone
-----------------------------------------------------------------------------
(* The invariant of a publication that is left alone. *)

\* A new commit is on top of the branch.
LEMMA CommitOnTop ==
  ASSUME NEW h \in Histories, NEW c \in Contents
  PROVE  /\ Append(h, Commit("runner", c)) # Base
         /\ Top(Append(h, Commit("runner", c))) = c
<1>1. Commit("runner", c) \in [by : {"runner", "other", "elsewhere"}, tree : Contents]
  BY DEF Commit
<1>2. Commit("runner", c).tree = c
  BY DEF Commit
<1> DEFINE k == Commit("runner", c)
<1> HIDE DEF k
<1>3. Append(h, k) # Base /\ Append(h, k)[Len(Append(h, k))] = k
  BY <1>1, AppendProperties DEF Histories, Base, k
<1> QED
  BY <1>2, <1>3 DEF Top, k

\* Somebody else's step is counted.
LEMMA ForeignIsCounted ==
  ASSUME TypeOK, Foreign
  PROVE  foreign' # 0
  BY PublicationAssumption DEF TypeOK, Foreign, EditWorktree, StageWorktree, MoveHead, MoveRemote,
     MovePr, Acts

LEMMA UndisturbedStep ==
  ASSUME TypeOK, PublicationInv, Undisturbed, [Next]_vars
  PROVE  Undisturbed'
<1> SUFFICES ASSUME foreign' = 0
             PROVE  (LocalAlone /\ RemoteAlone)'
  BY DEF Undisturbed
<1>a. foreign = 0
  BY ForeignIsCounted
  DEF Next, Step, Inspect, Fingerprint, ObserveRemote, ObservePr, ExpectedObjects, Add,
      StagedPaths, StagedBytes, StagedIndex, GitCommit, RevParse, CommitParent, CommitClean,
      CommitTree, CommitReportedFailed, Push, VerifyRemote, CreatePr, VerifyPr, Observe, vars
<1>b. LocalAlone /\ RemoteAlone
  BY <1>a DEF Undisturbed
<1>c. head \in Histories /\ Base # Absent /\ EffectsInv
  BY BranchFacts DEF TypeOK, PublicationInv
<1> USE DEF EffectsInv, Preparing, Refusing, Staging, Committed, Publishing, Goto, Finish, Fail,
            Uncertain, world, code, ghost
<1>1. CASE Inspect \/ Fingerprint \/ ObserveRemote \/ ObservePr \/ ExpectedObjects
  <2>1. LocalAlone'
    BY <1>1, <1>b DEF Inspect, Fingerprint, ObserveRemote, ObservePr, ExpectedObjects, Observe,
                      LocalAlone, Top
  <2>2. RemoteAlone'
    BY <1>1, <1>b DEF Inspect, Fingerprint, ObserveRemote, ObservePr, ExpectedObjects, Observe,
                      RemoteAlone
  <2> QED
    BY <2>1, <2>2
<1>2. CASE Add
  BY <1>2, <1>b DEF Add, LocalAlone, RemoteAlone
<1>3. CASE StagedPaths \/ StagedBytes \/ StagedIndex
  BY <1>3, <1>b DEF StagedPaths, StagedBytes, StagedIndex, Observe, LocalAlone, RemoteAlone, Top
<1>4. CASE GitCommit
  <2>1. head' # Base => index' = Top(head')
    <3>1. CASE \E c \in Contents \ {Top(head)} :
                 head' = Append(head, Commit("runner", c)) /\ index' = c
      <4>1. PICK c \in Contents : head' = Append(head, Commit("runner", c)) /\ index' = c
        BY <3>1
      <4> QED
        BY <1>c, <4>1, CommitOnTop
    <3>2. CASE UNCHANGED <<head, index>>
      BY <1>4, <1>b, <3>2 DEF GitCommit, LocalAlone
    <3> QED
      BY <1>4, <3>1, <3>2 DEF GitCommit
  <2>2. LocalAlone'
    BY <1>4, <1>b, <2>1 DEF GitCommit, LocalAlone
  <2>3. RemoteAlone'
    BY <1>4, <1>b, <1>c DEF GitCommit, RemoteAlone
  <2> QED
    BY <2>2, <2>3
<1>5. CASE RevParse
  <2>1. LocalAlone'
    BY <1>5, <1>b DEF RevParse, LocalAlone, Top
  <2>2. RemoteAlone'
    BY <1>5, <1>b, <1>c DEF RevParse, RemoteAlone
  <2> QED
    BY <2>1, <2>2
<1>6. CASE CommitParent \/ CommitClean \/ CommitTree \/ CommitReportedFailed
  <2>1. LocalAlone'
    BY <1>6, <1>b DEF CommitParent, CommitClean, CommitTree, CommitReportedFailed, Observe,
                      AfterVerification, LocalAlone, Top
  <2>2. RemoteAlone'
    BY <1>6, <1>b DEF CommitParent, CommitClean, CommitTree, CommitReportedFailed, Observe,
                      AfterVerification, RemoteAlone
  <2> QED
    BY <2>1, <2>2
<1>7. CASE Push
  <2>1. LocalAlone'
    BY <1>7, <1>b DEF Push, LocalAlone, Top
  <2>2. RemoteAlone'
    BY <1>7, <1>b, <1>c DEF Push, PushEffect, RemoteAlone, LocalAlone
  <2> QED
    BY <2>1, <2>2
<1>8. CASE VerifyRemote
  <2>1. "push" \in effects \/ remote # local
    BY <1>8, <1>b, BranchFacts DEF VerifyRemote, Observe, LocalAlone, RemoteAlone
  <2>2. LocalAlone'
    BY <1>8, <1>b DEF VerifyRemote, Observe, LocalAlone, Top
  <2>3. RemoteAlone'
    BY <1>8, <1>b, <2>1 DEF VerifyRemote, Observe, RemoteAlone
  <2> QED
    BY <2>2, <2>3
<1>9. CASE CreatePr \/ VerifyPr
  <2>1. LocalAlone'
    BY <1>9, <1>b DEF CreatePr, VerifyPr, PrUntrustworthy, LocalAlone, Top
  <2>2. RemoteAlone'
    BY <1>9, <1>b DEF CreatePr, VerifyPr, PrUntrustworthy, RemoteAlone
  <2> QED
    BY <2>1, <2>2
<1>10. CASE Foreign
  BY <1>10, ForeignIsCounted
<1>11. CASE UNCHANGED vars
  BY <1>11, <1>b DEF vars, LocalAlone, RemoteAlone, Top
<1> QED
  BY <1>1, <1>2, <1>3, <1>4, <1>5, <1>6, <1>7, <1>8, <1>9, <1>10, <1>11 DEF Next, Step

\* As long as nobody else acts, checkout, remote branch and pull request are as
\* the publication left them.
THEOREM AloneCorrect == Spec => []Undisturbed
<1>1. Init => Undisturbed
  BY DEF Init, Undisturbed, LocalAlone, RemoteAlone, Preparing, Refusing, Staging, Committed,
         Publishing
<1>2. TypeOK /\ PublicationInv /\ Undisturbed /\ [Next]_vars => Undisturbed'
  BY UndisturbedStep
<1> QED
  BY <1>1, <1>2, TypeCorrect, InvCorrect, PTL DEF Spec
-----------------------------------------------------------------------------
(* The steps of the wake, in terms of what its variables stand for. *)

\* What no step of the publication changes, but for a push.
SameUnit == mode' = mode /\ (("push" \in effects') = ("push" \in effects))

PushedAs(pushed) == OfThis({"worker"} \cup IF pushed THEN {"pushed"} ELSE {})

LEMMA ReleasesWhenDone ==
  /\ WakePc = "release" <=> pc = "done"
  /\ WakePc' = "release" <=> pc' = "done"
  BY DEF WakePc

\* As long as the publication runs, the wake knows what it works on.
LEMMA Remembers ==
  ASSUME WakePc # "release"
  PROVE  OfThis(WakeUnit)[This] = Unit /\ OfThis(WakePrint)[This] = {This}
  BY ReleasesWhenDone DEF WakeUnit, WakePrint, OfThis

LEMMA NothingHappens ==
  ASSUME WakePc' = WakePc, Evidence' = Evidence, WakeTree' = WakeTree, WakeAhead' = WakeAhead,
         WakeStage' = WakeStage, WakeFaults' = WakeFaults, SameUnit
  PROVE  UNCHANGED Wake!vars
<1>1. (pc = "done")' = (pc = "done")
  BY ReleasesWhenDone
<1>2. WakeUnit' = WakeUnit /\ WakePrint' = WakePrint /\ WakeState' = WakeState
  BY <1>1 DEF SameUnit, WakeUnit, WakePrint, WakeState
<1> QED
  BY <1>2 DEF SameUnit, Wake!vars, Wake!wakes, Wake!local, Wake!checkout, OfThis, OfUnit

LEMMA Continues ==
  ASSUME mode' = mode, WakePc # "release", WakePc' # "release"
  PROVE  UNCHANGED Wake!local
<1>1. WakeUnit' = WakeUnit /\ WakePrint' = WakePrint /\ WakeState' = WakeState
  BY ReleasesWhenDone DEF WakeUnit, WakePrint, WakeState
<1> QED
  BY <1>1 DEF Wake!local, OfThis, OfUnit

LEMMA Keeps ==
  ASSUME SameUnit
  PROVE  /\ WakePc # "release" /\ WakePc' # "release" => UNCHANGED Wake!local
         /\ PushedAs("push" \in effects)' = PushedAs("push" \in effects)
         /\ WakeStage' = WakeStage => OfUnit(WakeStage)' = OfUnit(WakeStage)
         /\ WakeTree' = WakeTree /\ WakeAhead' = WakeAhead => UNCHANGED Wake!checkout
<1>1. WakePc # "release" /\ WakePc' # "release" => UNCHANGED Wake!local
  BY Continues DEF SameUnit
<1> QED
  BY <1>1 DEF SameUnit, PushedAs, Wake!checkout, OfThis, OfUnit

LEMMA Ending ==
  ASSUME NEW s, NEW o, WakePc' = "release",
         Evidence' = Wake!Ended(Evidence, o, "publication_status", s)
  PROVE  Wake!End(This, o, "publication_status", s)
<1>1. WakeUnit' = "nobody" /\ WakePrint' = {} /\ WakeState' = "merged"
  BY ReleasesWhenDone DEF WakeUnit, WakePrint, WakeState
<1>2. Wake!Forgets(This)
  BY <1>1 DEF Wake!Forgets, Wake!Unknown, OfThis, OfUnit
<1> QED
  BY <1>2 DEF Wake!End, Wake!Goto, OfThis

LEMMA Costing ==
  ASSUME NEW adverse \in BOOLEAN,
         IF adverse THEN WakeFaults = 0 /\ WakeFaults' = 1 ELSE WakeFaults' = WakeFaults
  PROVE  Wake!Costs(adverse)
  BY DEF Wake!Costs

LEMMA EndsUncommitted ==
  ASSUME WakePc = "publish", WakePc' = "release",
         NEW s, NEW o,
         \/ o = "RUNTIME_FAILURE" /\ s \in {"REFUSED", "COMMIT_FAILED"}
         \/ o = "INTERRUPTED" /\ s \in {"STAGING_UNTRUSTWORTHY", "LOCAL_UNTRUSTWORTHY"},
         Evidence' = Wake!Ended(Evidence, o, "publication_status", s),
         WakeTree' = WakeTree, WakeAhead' = WakeAhead, WakeStage' = WakeStage, SameUnit,
         IF WakeTree = {This} THEN WakeFaults = 0 /\ WakeFaults' = 1 ELSE WakeFaults' = WakeFaults
  PROVE  Wake!NotCommitted(This)
<1>1. OfThis(WakePc)[This] = "publish" /\ OfThis(WakePrint)[This] = {This}
  BY Remembers DEF OfThis
<1>2. Wake!Costs(WakeTree = OfThis(WakePrint)[This])
  BY <1>1, Costing
<1> QED
  BY <1>1, <1>2, Ending, Keeps DEF Wake!NotCommitted, PushedAs

LEMMA Commits ==
  ASSUME WakePc = "publish", WakePc' = "push", WakeTree = {This}, WakeAhead = {},
         Evidence' = Evidence, WakeStage' = WakeStage, SameUnit,
         \/ WakeAhead' = {This} /\ WakeTree' = {} /\ WakeFaults' = WakeFaults
         \/ /\ WakeAhead' = {This, Others} /\ WakeTree' \in {{}, {This}}
            /\ WakeFaults = 0 /\ WakeFaults' = 1
  PROVE  Wake!Commit(This)
<1>1. OfThis(WakePc)[This] = "publish" /\ OfThis(WakePrint)[This] = {This}
      /\ OfThis(WakeUnit)[This] = Unit
      /\ OfThis(Evidence)' = OfThis(Evidence) /\ Wake!Goto(This, "push")
  BY Remembers DEF OfThis, Wake!Goto
<1>2. \E hook \in {{}, {Others}} :
         /\ Wake!Costs(hook # {})
         /\ OfUnit(WakeAhead)' = [OfUnit(WakeAhead) EXCEPT ![OfThis(WakeUnit)[This]] = @ \cup WakeTree \cup hook]
         /\ WakeTree' \in IF hook = {} THEN {{}} ELSE {{}, WakeTree}
  <2>1. CASE WakeAhead' = {This} /\ WakeTree' = {} /\ WakeFaults' = WakeFaults
    <3>1. Wake!Costs({} # {})
      BY <2>1 DEF Wake!Costs
    <3>2. OfUnit(WakeAhead)' = [OfUnit(WakeAhead) EXCEPT ![OfThis(WakeUnit)[This]] = @ \cup WakeTree \cup {}]
      BY <1>1, <2>1 DEF OfUnit
    <3> QED
      BY <2>1, <3>1, <3>2
  <2>2. CASE /\ WakeAhead' = {This, Others} /\ WakeTree' \in {{}, {This}}
             /\ WakeFaults = 0 /\ WakeFaults' = 1
    <3>1. Wake!Costs({Others} # {})
      BY <2>2 DEF Wake!Costs
    <3>2. OfUnit(WakeAhead)' = [OfUnit(WakeAhead) EXCEPT ![OfThis(WakeUnit)[This]] = @ \cup WakeTree \cup {Others}]
      BY <1>1, <2>2 DEF OfUnit
    <3> QED
      BY <2>2, <3>1, <3>2
  <2> QED
    BY <2>1, <2>2
<1> QED
  BY <1>1, <1>2, Keeps DEF Wake!Commit, PushedAs

LEMMA EndsUnpushed ==
  ASSUME WakePc = "push", WakePc' = "release",
         NEW s, NEW o,
         \/ s = "LOCAL_UNTRUSTWORTHY" /\ o = "INTERRUPTED"
         \/ s = "COMMITTED_UNPUBLISHED" /\ o \in {"INTERRUPTED", "RUNTIME_FAILURE"},
         Evidence' = Wake!Ended(Evidence, o, "publication_status", s),
         WakeTree' = WakeTree, WakeAhead' = WakeAhead, WakeStage' = WakeStage, SameUnit,
         IF WakeAhead = {This} THEN WakeFaults = 0 /\ WakeFaults' = 1 ELSE WakeFaults' = WakeFaults
  PROVE  Wake!NotPushed(This)
<1>1. OfThis(WakePc)[This] = "push"
  BY DEF OfThis
<1>2. Wake!CommitVerified(This) <=> WakeAhead = {This}
  BY Remembers DEF Wake!CommitVerified, OfUnit
<1>3. Wake!CommitVerified(This) \in BOOLEAN
  BY DEF Wake!CommitVerified
<1>4. Wake!Costs(Wake!CommitVerified(This))
  BY <1>2, <1>3, Costing
<1> QED
  BY <1>1, <1>4, Ending, Keeps DEF Wake!NotPushed, PushedAs

\* What a push changes, for the wake.
PushSeen ==
  /\ WakeStage' = IF WakeStage = "ready" THEN "pushed" ELSE "published"
  /\ WakeAhead' = {} /\ ("push" \in effects)' /\ mode' = mode

LEMMA Pushing ==
  ASSUME PushSeen, WakePc # "release"
  PROVE  Wake!Pushes(This) /\ (WakePc' # "release" => UNCHANGED Wake!local)
<1>1. OfThis(WakeUnit)[This] = Unit /\ mode' = mode
  BY Remembers DEF PushSeen
<1> QED
  BY <1>1, Continues DEF PushSeen, Wake!Pushes, Wake!Effect, OfThis, OfUnit

LEMMA PushDone ==
  ASSUME WakePc = "push", WakeAhead = {This}, PushSeen, WakePc' = "verify", Evidence' = Evidence,
         WakeTree' = WakeTree, WakeFaults' = WakeFaults
  PROVE  Wake!Push(This)
<1>1. OfThis(WakePc)[This] = "push" /\ Wake!CommitVerified(This) /\ Wake!Goto(This, "verify")
      /\ OfThis(Evidence)' = OfThis(Evidence)
  BY Remembers DEF OfThis, OfUnit, Wake!CommitVerified, Wake!Goto
<1> QED
  BY <1>1, Pushing DEF Wake!Push

LEMMA PushLost ==
  ASSUME WakePc = "push", WakeAhead = {This}, WakePc' = "release", PushSeen,
         Evidence' = Wake!Ended(Evidence, "INTERRUPTED", "publication_status", "REMOTE_UNTRUSTWORTHY"),
         WakeTree' = WakeTree, WakeFaults = 0, WakeFaults' = 1
  PROVE  Wake!PushUncertain(This)
<1>1. OfThis(WakePc)[This] = "push" /\ Wake!CommitVerified(This) /\ Wake!Costs(TRUE)
  BY Remembers DEF OfThis, OfUnit, Wake!CommitVerified, Wake!Costs
<1> QED
  BY <1>1, Pushing, Ending DEF Wake!PushUncertain

LEMMA PushUnseen ==
  ASSUME WakePc = "push", WakeAhead = {This}, WakePc' = "release", SameUnit,
         Evidence' = Wake!Ended(Evidence, "INTERRUPTED", "publication_status", "REMOTE_UNTRUSTWORTHY"),
         WakeTree' = WakeTree, WakeAhead' = WakeAhead, WakeStage' = WakeStage,
         WakeFaults = 0, WakeFaults' = 1
  PROVE  Wake!PushUncertain(This)
<1>1. OfThis(WakePc)[This] = "push" /\ Wake!CommitVerified(This) /\ Wake!Costs(TRUE)
  BY Remembers DEF OfThis, OfUnit, Wake!CommitVerified, Wake!Costs
<1> QED
  BY <1>1, Keeps, Ending DEF Wake!PushUncertain, PushedAs, Wake!checkout

LEMMA Opening ==
  ASSUME WakePc # "release", WakeStage = "pushed", WakeStage' = "published"
  PROVE  Wake!Opens(This)
  BY Remembers DEF Wake!Opens, OfUnit

LEMMA PrOpened ==
  ASSUME WakePc = "verify", WakePc' = "verify", WakeStage = "pushed", WakeStage' = "published",
         Evidence' = Evidence, WakeTree' = WakeTree, WakeAhead' = WakeAhead,
         WakeFaults' = WakeFaults, SameUnit
  PROVE  Wake!Open(This)
<1>1. OfThis(WakePc)[This] = "verify" /\ UNCHANGED <<OfThis(WakePc), OfThis(Evidence)>>
  BY DEF OfThis
<1> QED
  BY <1>1, Opening, Keeps DEF Wake!Open, PushedAs

LEMMA PrVerified ==
  ASSUME WakePc = "verify", WakePc' = "release", WakeStage # "pushed", WakeStage' = WakeStage,
         Evidence' = Wake!Ended(Evidence, "COMPLETED", "publication_status", "VERIFIED"),
         WakeTree' = WakeTree, WakeAhead' = WakeAhead, WakeFaults' = WakeFaults, SameUnit
  PROVE  Wake!Verify(This)
<1>1. OfThis(WakePc)[This] = "verify" /\ OfUnit(WakeStage)[OfThis(WakeUnit)[This]] # "pushed"
  BY Remembers DEF OfThis, OfUnit
<1> QED
  BY <1>1, Ending, Keeps DEF Wake!Verify, PushedAs

LEMMA RemoteUnseen ==
  ASSUME WakePc = "verify", WakePc' = "release", WakeStage' = WakeStage, SameUnit,
         Evidence' = Wake!Ended(Evidence, "INTERRUPTED", "publication_status", "REMOTE_UNTRUSTWORTHY"),
         WakeTree' = WakeTree, WakeAhead' = WakeAhead, WakeFaults = 0, WakeFaults' = 1
  PROVE  Wake!VerifyUncertain(This)
<1>1. OfThis(WakePc)[This] = "verify" /\ Wake!Costs(TRUE)
  BY DEF OfThis, Wake!Costs
<1> QED
  BY <1>1, Ending, Keeps DEF Wake!VerifyUncertain, PushedAs

LEMMA PrUnseen ==
  ASSUME WakePc = "verify", WakePc' = "release", SameUnit,
         Wake!Opens(This) \/ WakeStage' = WakeStage,
         Evidence' = Wake!Ended(Evidence, "INTERRUPTED", "publication_status", "PR_UNTRUSTWORTHY"),
         WakeTree' = WakeTree, WakeAhead' = WakeAhead, WakeFaults = 0, WakeFaults' = 1
  PROVE  Wake!VerifyUncertain(This)
<1>1. OfThis(WakePc)[This] = "verify" /\ Wake!Costs(TRUE)
  BY DEF OfThis, Wake!Costs
<1>2. Wake!Opens(This) \/ OfUnit(WakeStage)' = OfUnit(WakeStage)
  BY Keeps
<1>3. Wake!End(This, "INTERRUPTED", "publication_status", "PR_UNTRUSTWORTHY")
  BY Ending
<1> QED
  BY <1>1, <1>2, <1>3, Keeps DEF Wake!VerifyUncertain, PushedAs
-----------------------------------------------------------------------------
(* The steps of the publication. *)

Alone == TypeOK /\ PublicationInv /\ LocalAlone /\ RemoteAlone

Untouched == effects \cap {"push", "pr"} = {}

Seen == <<mode, work, stray, head>>

LEMMA NoNews ==
  ASSUME result' = result
  PROVE  Evidence' = Evidence
  BY DEF Evidence

LEMMA News ==
  ASSUME PublicationInv, pc # "done", NEW s, NEW o, NEW l, NEW r, result' = Result(s, o, l, r)
  PROVE  Evidence' = Wake!Ended(Evidence, o, "publication_status", s) /\ result'.status = s
<1>1. result'.status = s /\ result'.outcome = o
  BY DEF Result
<1> DEFINE started == [Evidence EXCEPT !["publication_status"] = s]
<1>2. started = [outcome |-> result.outcome, worker_attempts |-> 1,
                 finalizer_status |-> "NO_FINALIZATION", worker_status |-> "VALIDATED",
                 publication_status |-> s]
  BY DEF Evidence
<1> HIDE DEF started
<1>3. [started EXCEPT !.outcome = o] =
        [outcome |-> o, worker_attempts |-> 1,
         finalizer_status |-> "NO_FINALIZATION", worker_status |-> "VALIDATED",
         publication_status |-> s]
  BY <1>2
<1> QED
  BY <1>1, <1>3 DEF Evidence, Wake!Ended, started

\* Before the commit.
LEMMA Uncommitted ==
  ASSUME head = Base, work # Original
  PROVE  /\ WakeTree = Owners(work = Validated /\ ~stray) /\ WakeAhead = {}
         /\ pc # "done" /\ pc \notin Publishing => WakePc = "publish" /\ WakeFaults = 0
         /\ pc = "done" => WakePc = "release"
         /\ pc = "done" /\ result.status # "VERIFIED"
              => WakeFaults = IF WakeTree = {This} THEN 1 ELSE 0
  BY DEF WakeTree, WakeAhead, WakePc, WakeFaults, Top, Publishing

LEMMA UncommittedNext ==
  ASSUME head' = Base, work' # Original
  PROVE  /\ WakeTree' = Owners(work' = Validated /\ ~stray') /\ WakeAhead' = {}
         /\ pc' # "done" /\ pc' \notin Publishing => WakePc' = "publish" /\ WakeFaults' = 0
         /\ pc' = "done" => WakePc' = "release"
         /\ pc' = "done" /\ result'.status # "VERIFIED"
              => WakeFaults' = IF WakeTree' = {This} THEN 1 ELSE 0
  BY DEF WakeTree, WakeAhead, WakePc, WakeFaults, Top, Publishing

LEMMA StillUncommitted ==
  ASSUME head = Base, work # Original, UNCHANGED Seen, pc # "done", pc \notin Publishing,
         Untouched, Untouched'
  PROVE  /\ WakeTree' = WakeTree /\ WakeAhead' = WakeAhead /\ WakeStage' = WakeStage /\ SameUnit
         /\ WakePc = "publish" /\ WakeFaults = 0
<1>1. WakeTree' = WakeTree /\ WakeAhead' = WakeAhead /\ WakePc = "publish" /\ WakeFaults = 0
  BY Uncommitted, UncommittedNext DEF Seen
<1>2. WakeStage' = WakeStage /\ SameUnit
  BY DEF Seen, Untouched, WakeStage, SameUnit
<1> QED
  BY <1>1, <1>2

LEMMA PreparationGoesOn ==
  ASSUME head = Base, work # Original, UNCHANGED Seen, pc # "done", pc \notin Publishing,
         Untouched, Untouched', pc' # "done", pc' \notin Publishing, result' = result
  PROVE  UNCHANGED Wake!vars
<1>1. WakePc' = "publish" /\ WakeFaults' = 0
  BY UncommittedNext DEF Seen
<1> QED
  BY <1>1, StillUncommitted, NoNews, NothingHappens

LEMMA PreparationEnds ==
  ASSUME PublicationInv, head = Base, work # Original, UNCHANGED Seen, pc # "done",
         pc \notin Publishing, Untouched, Untouched',
         NEW s, NEW o, NEW l, NEW r, pc' = "done", result' = Result(s, o, l, r),
         \/ o = "RUNTIME_FAILURE" /\ s \in {"REFUSED", "COMMIT_FAILED"}
         \/ o = "INTERRUPTED" /\ s \in {"STAGING_UNTRUSTWORTHY", "LOCAL_UNTRUSTWORTHY"}
  PROVE  Wake!NotCommitted(This)
<1>1. Evidence' = Wake!Ended(Evidence, o, "publication_status", s) /\ result'.status # "VERIFIED"
  BY News
<1>2. WakePc' = "release" /\ WakeFaults' = IF WakeTree' = {This} THEN 1 ELSE 0
  BY <1>1, UncommittedNext DEF Seen
<1> QED
  BY <1>1, <1>2, StillUncommitted, EndsUncommitted

\* Between commit and push.
LEMMA Unpushed ==
  ASSUME head # Base, "push" \notin effects
  PROVE  /\ WakeAhead = Owners(Top(head) = Validated)
         /\ pc \notin {"done", "create_pr", "verify_pr"} => WakePc = "push"
         /\ pc \notin {"done", "create_pr", "verify_pr"}
              => WakeFaults = IF Top(head) = Validated THEN 0 ELSE 1
  BY DEF WakeAhead, WakePc, WakeFaults

LEMMA UnpushedNext ==
  ASSUME head' # Base, "push" \notin effects'
  PROVE  /\ WakeAhead' = Owners(Top(head') = Validated)
         /\ pc' = "done" => WakePc' = "release"
         /\ pc' = "done" /\ result'.status # "VERIFIED" => WakeFaults' = 1
         /\ pc' \notin {"done", "create_pr", "verify_pr"} => WakePc' = "push"
         /\ pc' \notin {"done", "create_pr", "verify_pr"}
              => WakeFaults' = IF Top(head') = Validated THEN 0 ELSE 1
  BY DEF WakeAhead, WakePc, WakeFaults, Top

LEMMA StillUnpushed ==
  ASSUME head # Base, UNCHANGED <<Seen, index, effects>>, "push" \notin effects
  PROVE  /\ WakeTree' = WakeTree /\ WakeAhead' = WakeAhead /\ WakeStage' = WakeStage /\ SameUnit
         /\ Top(head') = Top(head)
  BY DEF Seen, WakeTree, WakeAhead, WakeStage, SameUnit, Top

LEMMA VerificationGoesOn ==
  ASSUME head # Base, UNCHANGED <<Seen, index, effects>>, "push" \notin effects,
         pc \notin {"done", "create_pr", "verify_pr"},
         pc' \notin {"done", "create_pr", "verify_pr"}, result' = result
  PROVE  UNCHANGED Wake!vars
<1>1. WakePc' = WakePc /\ WakeFaults' = WakeFaults
  BY Unpushed, UnpushedNext, StillUnpushed DEF Seen
<1> QED
  BY <1>1, StillUnpushed, NoNews, NothingHappens

LEMMA VerificationEnds ==
  ASSUME PublicationInv, head # Base, UNCHANGED <<Seen, index, effects>>, "push" \notin effects,
         pc \notin {"done", "create_pr", "verify_pr"},
         NEW s, NEW o, NEW l, NEW r, pc' = "done", result' = Result(s, o, l, r),
         \/ s = "LOCAL_UNTRUSTWORTHY" /\ o = "INTERRUPTED"
         \/ s = "COMMITTED_UNPUBLISHED" /\ o \in {"INTERRUPTED", "RUNTIME_FAILURE"}
  PROVE  Wake!NotPushed(This)
<1>1. Evidence' = Wake!Ended(Evidence, o, "publication_status", s) /\ result'.status # "VERIFIED"
  BY News
<1>2. WakePc = "push" /\ WakePc' = "release" /\ WakeFaults' = 1
  BY <1>1, Unpushed, UnpushedNext DEF Seen
<1>3. IF WakeAhead = {This} THEN WakeFaults = 0 ELSE WakeFaults = 1
  BY Unpushed DEF Owners, This, Others
<1> QED
  BY <1>1, <1>2, <1>3, StillUnpushed, EndsUnpushed

\* Each step of the code, when nobody else acts.
LEMMA PreparingSteps ==
  ASSUME Alone, \/ Inspect \/ Fingerprint \/ ObserveRemote \/ ObservePr \/ ExpectedObjects
                \/ Add \/ StagedPaths \/ StagedBytes \/ StagedIndex
  PROVE  Wake!NotCommitted(This) \/ UNCHANGED Wake!vars
<1> USE DEF Preparing, Refusing, Staging, Publishing, Goto, Finish, Fail, Uncertain
<1>1. /\ head = Base /\ work # Original /\ pc # "done" /\ pc \notin Publishing /\ Untouched
      /\ PublicationInv
  BY DEF Alone, PublicationInv, EffectsInv, LocalAlone, Untouched, Observe, Inspect, Fingerprint,
         ObserveRemote, ObservePr, ExpectedObjects, Add, StagedPaths, StagedBytes, StagedIndex
<1>2. UNCHANGED Seen /\ Untouched'
  BY <1>1 DEF Untouched, Seen, world, ghost, Observe, Inspect, Fingerprint,
         ObserveRemote, ObservePr, ExpectedObjects, Add, StagedPaths, StagedBytes, StagedIndex
<1>3. \/ pc' # "done" /\ pc' \notin Publishing /\ result' = result
      \/ pc' = "done" /\ result' = Result("REFUSED", "RUNTIME_FAILURE", local, Absent)
      \/ pc' = "done" /\ result' = Result("STAGING_UNTRUSTWORTHY", "INTERRUPTED", local, Absent)
  BY DEF Observe, Inspect, Fingerprint, ObserveRemote, ObservePr, ExpectedObjects, Add,
         StagedPaths, StagedBytes, StagedIndex
<1> QED
  BY <1>1, <1>2, <1>3, PreparationGoesOn, PreparationEnds

LEMMA CommitStep ==
  ASSUME Alone, GitCommit
  PROVE  Wake!Commit(This) \/ UNCHANGED Wake!vars
<1>1. /\ pc = "commit" /\ pc' = "rev_parse" /\ result' = result
      /\ UNCHANGED <<mode, work, stray>> /\ ~stray /\ work = Validated
      /\ head = Base /\ work # Original /\ Untouched /\ Untouched' /\ head \in Histories
  BY DEF Alone, TypeOK, PublicationInv, EffectsInv, LocalAlone, GitCommit, Untouched, Preparing,
         Refusing, Staging, Committed, Goto
<1>2. CASE UNCHANGED head
  BY <1>1, <1>2, PreparationGoesOn DEF Seen, Publishing
<1>3. CASE \E c \in Contents \ {Top(head)} :
             head' = Append(head, Commit("runner", c)) /\ index' = c
  <2>1. PICK c \in Contents : head' = Append(head, Commit("runner", c)) /\ index' = c
    BY <1>3
  <2>2. head' # Base /\ Top(head') = c
    BY <1>1, <2>1, CommitOnTop
  <2>3. WakePc = "publish" /\ WakeFaults = 0 /\ WakeTree = {This} /\ WakeAhead = {}
    BY <1>1, Uncommitted DEF Publishing, Owners
  <2>4. /\ WakePc' = "push" /\ WakeFaults' = IF c = Validated THEN 0 ELSE 1
        /\ WakeAhead' = Owners(c = Validated)
    BY <1>1, <2>2, UnpushedNext DEF Untouched
  <2>5. WakeTree' = IF c = Validated THEN {} ELSE {This}
    BY <1>1, <2>1, <2>2 DEF WakeTree, Owners
  <2>6. WakeStage' = WakeStage /\ SameUnit /\ Evidence' = Evidence
    BY <1>1, NoNews DEF WakeStage, SameUnit, Untouched
  <2>7. CASE c = Validated
    BY <2>3, <2>4, <2>5, <2>6, <2>7, Commits DEF Owners
  <2>8. CASE c # Validated
    BY <2>3, <2>4, <2>5, <2>6, <2>8, Commits DEF Owners
  <2> QED
    BY <2>7, <2>8
<1> QED
  BY <1>2, <1>3 DEF GitCommit

LEMMA RevParseStep ==
  ASSUME Alone, RevParse
  PROVE  Wake!NotCommitted(This) \/ Wake!NotPushed(This) \/ UNCHANGED Wake!vars
<1> USE DEF Goto, Finish, Fail, Uncertain
<1>1. /\ pc = "rev_parse" /\ PublicationInv /\ work # Original
      /\ UNCHANGED <<Seen, index, effects>> /\ Untouched /\ Untouched'
  BY DEF Alone, PublicationInv, EffectsInv, LocalAlone, RevParse, Seen, world, ghost, Untouched
<1>2. CASE head = Base
  <2>1. \/ pc' = "done" /\ result' = Result("LOCAL_UNTRUSTWORTHY", "INTERRUPTED", local, Absent)
        \/ pc' = "done" /\ result' = Result("COMMIT_FAILED", "RUNTIME_FAILURE", local, Absent)
    BY <1>2 DEF RevParse
  <2> QED
    BY <1>1, <1>2, <2>1, PreparationEnds DEF Publishing
<1>3. CASE head # Base
  <2>1. \/ pc' = "done" /\ result' = Result("LOCAL_UNTRUSTWORTHY", "INTERRUPTED", local, Absent)
        \/ pc' = "commit_parent" /\ result' = result
    BY <1>3 DEF RevParse
  <2> QED
    BY <1>1, <1>3, <2>1, VerificationEnds, VerificationGoesOn DEF Untouched
<1> QED
  BY <1>2, <1>3

LEMMA VerifyingSteps ==
  ASSUME Alone, CommitParent \/ CommitClean \/ CommitTree \/ CommitReportedFailed
  PROVE  Wake!NotPushed(This) \/ UNCHANGED Wake!vars
<1> USE DEF Goto, Finish, Fail, Uncertain
<1>1. /\ pc \in Committed /\ PublicationInv /\ head # Base /\ Untouched
      /\ UNCHANGED <<Seen, index, effects>>
  BY DEF Alone, PublicationInv, EffectsInv, LocalAlone, Seen, world, ghost, Untouched, Committed,
         CommitParent, CommitClean, CommitTree, CommitReportedFailed, Observe
<1>2. \/ pc' \in {"commit_clean", "commit_tree", "commit_failed", "push"} /\ result' = result
      \/ pc' = "done" /\ result' = Result("LOCAL_UNTRUSTWORTHY", "INTERRUPTED", local, Absent)
      \/ pc' = "done" /\ \E o \in {"INTERRUPTED", "RUNTIME_FAILURE"} :
                           result' = Result("COMMITTED_UNPUBLISHED", o, local, Absent)
  BY DEF CommitParent, CommitClean, CommitTree, CommitReportedFailed, AfterVerification, Observe
<1> QED
  BY <1>1, <1>2, VerificationGoesOn, VerificationEnds DEF Untouched, Committed

\* From the push on, the commit is verified.
LEMMA Exact ==
  ASSUME head # Base, Top(head) = Validated
  PROVE  /\ WakeAhead = IF "push" \in effects THEN {} ELSE {This}
         /\ pc \in {"push", "verify_remote", "create_pr", "verify_pr"} => WakeFaults = 0
         /\ pc = "done" => WakeFaults = IF result.status = "VERIFIED" THEN 0 ELSE 1
         /\ pc = "done" => WakePc = "release"
         /\ pc \in {"create_pr", "verify_pr"} => WakePc = "verify"
         /\ pc = "verify_remote" => WakePc = IF "push" \in effects THEN "verify" ELSE "push"
         /\ pc = "push" => WakePc = "push"
  BY DEF WakeAhead, WakePc, WakeFaults, Owners

LEMMA ExactNext ==
  ASSUME head' # Base, Top(head') = Validated
  PROVE  /\ WakeAhead' = IF "push" \in effects' THEN {} ELSE {This}
         /\ pc' \in {"push", "verify_remote", "create_pr", "verify_pr"} => WakeFaults' = 0
         /\ pc' = "done" => WakeFaults' = IF result'.status = "VERIFIED" THEN 0 ELSE 1
         /\ pc' = "done" => WakePc' = "release"
         /\ pc' \in {"create_pr", "verify_pr"} => WakePc' = "verify"
         /\ pc' = "verify_remote" => WakePc' = IF "push" \in effects' THEN "verify" ELSE "push"
         /\ pc' = "push" => WakePc' = "push"
  BY DEF WakeAhead, WakePc, WakeFaults, Owners, Top

\* What the last steps have in common.
LEMMA PublishingStep ==
  ASSUME Alone, pc \in Publishing, UNCHANGED <<Seen, index>>
  PROVE  /\ head # Base /\ Top(head) = Validated /\ head' # Base /\ Top(head') = Validated
         /\ PublicationInv /\ pc # "done" /\ mode' = mode
         /\ WakeTree' = WakeTree
  BY DEF Alone, LocalAlone, Seen, WakeTree, Top, Publishing

LEMMA PushStep ==
  ASSUME Alone, Push
  PROVE  \/ Wake!Push(This) \/ Wake!PushUncertain(This) \/ Wake!NotPushed(This)
         \/ UNCHANGED Wake!vars
<1> USE DEF Goto, Finish, Fail, Uncertain
<1>1. pc = "push" /\ UNCHANGED <<Seen, index>> /\ Untouched
  BY DEF Alone, PublicationInv, EffectsInv, Push, Seen, Untouched
<1>2. /\ head # Base /\ Top(head) = Validated /\ head' # Base /\ Top(head') = Validated
      /\ PublicationInv /\ pc # "done" /\ mode' = mode
      /\ WakeTree' = WakeTree
  BY <1>1, PublishingStep DEF Publishing
<1>3. WakePc = "push" /\ WakeAhead = {This} /\ WakeFaults = 0
  BY <1>1, <1>2, Exact DEF Untouched
<1>4. PICK applied \in BOOLEAN :
        /\ PushEffect(applied)
        /\ \/ pc' = "verify_remote" /\ result' = result
           \/ /\ ~applied /\ pc' = "done"
              /\ result' = Result("COMMITTED_UNPUBLISHED", "RUNTIME_FAILURE", local, Absent)
           \/ /\ pc' = "done"
              /\ result' = Result("REMOTE_UNTRUSTWORTHY", "INTERRUPTED", local, Absent)
  BY DEF Push
<1>5. CASE applied
  <2>1. effects' = effects \cup {"push"}
    BY <1>4, <1>5 DEF PushEffect
  <2>2. PushSeen
    <3>1. WakeStage' = IF WakeStage = "ready" THEN "pushed" ELSE "published"
      BY <1>1, <1>2, <2>1 DEF Untouched, WakeStage
    <3> QED
      BY <1>2, <2>1, <3>1, ExactNext DEF PushSeen
  <2>3. CASE pc' = "verify_remote" /\ result' = result
    <3>1. WakePc' = "verify" /\ WakeFaults' = 0 /\ Evidence' = Evidence
      BY <1>2, <2>1, <2>3, ExactNext, NoNews
    <3> QED
      BY <1>2, <1>3, <2>2, <3>1, PushDone
  <2>4. CASE /\ pc' = "done"
             /\ result' = Result("REMOTE_UNTRUSTWORTHY", "INTERRUPTED", local, Absent)
    <3>1. /\ Evidence' = Wake!Ended(Evidence, "INTERRUPTED", "publication_status", "REMOTE_UNTRUSTWORTHY")
          /\ result'.status = "REMOTE_UNTRUSTWORTHY"
      BY <1>2, <2>4, News
    <3>2. WakePc' = "release" /\ WakeFaults' = 1
      BY <1>2, <2>4, <3>1, ExactNext
    <3> QED
      BY <1>2, <1>3, <2>2, <3>1, <3>2, PushLost
  <2> QED
    BY <1>4, <1>5, <2>3, <2>4
<1>6. CASE ~applied
  <2>1. UNCHANGED effects
    BY <1>4, <1>6 DEF PushEffect
  <2>2. SameUnit /\ WakeStage' = WakeStage /\ WakeAhead' = WakeAhead
    BY <1>2, <1>3, <2>1, Exact, ExactNext, <1>1 DEF SameUnit, WakeStage, Untouched
  <2>3. CASE pc' = "verify_remote" /\ result' = result
    <3>1. WakePc' = "push" /\ WakeFaults' = 0 /\ Evidence' = Evidence
      BY <1>1, <1>2, <2>1, <2>3, ExactNext, NoNews DEF Untouched
    <3> QED
      BY <1>2, <1>3, <2>2, <3>1, NothingHappens
  <2>4. CASE /\ pc' = "done"
             /\ result' = Result("COMMITTED_UNPUBLISHED", "RUNTIME_FAILURE", local, Absent)
    BY <1>1, <1>2, <2>1, <2>4, VerificationEnds DEF Untouched
  <2>5. CASE /\ pc' = "done"
             /\ result' = Result("REMOTE_UNTRUSTWORTHY", "INTERRUPTED", local, Absent)
    <3>1. /\ Evidence' = Wake!Ended(Evidence, "INTERRUPTED", "publication_status", "REMOTE_UNTRUSTWORTHY")
          /\ result'.status = "REMOTE_UNTRUSTWORTHY"
      BY <1>2, <2>5, News
    <3>2. WakePc' = "release" /\ WakeFaults' = 1
      BY <1>2, <2>5, <3>1, ExactNext
    <3> QED
      BY <1>2, <1>3, <2>2, <3>1, <3>2, PushUnseen
  <2> QED
    BY <1>4, <1>6, <2>3, <2>4, <2>5
<1> QED
  BY <1>5, <1>6

LEMMA VerifyRemoteStep ==
  ASSUME Alone, VerifyRemote
  PROVE  \/ Wake!PushUncertain(This) \/ Wake!VerifyUncertain(This) \/ UNCHANGED Wake!vars
<1> USE DEF Goto, Finish
<1>1. pc = "verify_remote" /\ UNCHANGED <<Seen, index, effects>>
  BY DEF VerifyRemote, Observe, Seen, world, ghost
<1>2. /\ head # Base /\ Top(head) = Validated /\ head' # Base /\ Top(head') = Validated
      /\ PublicationInv /\ pc # "done" /\ mode' = mode
      /\ WakeTree' = WakeTree
  BY <1>1, PublishingStep DEF Publishing
<1>3. SameUnit /\ WakeStage' = WakeStage /\ WakeAhead' = WakeAhead /\ WakeFaults = 0
  BY <1>1, <1>2, Exact, ExactNext DEF SameUnit, WakeStage, Seen
<1>4. CASE remote = local /\ pc' \in {"create_pr", "verify_pr"} /\ result' = result
  <2>1. "push" \in effects
    BY <1>1, <1>4, BranchFacts DEF Alone, RemoteAlone, LocalAlone, Committed, Publishing
  <2>2. WakePc' = WakePc /\ WakeFaults' = 0
    BY <1>1, <1>2, <1>4, <2>1, Exact, ExactNext
  <2> QED
    BY <1>2, <1>3, <1>4, <2>2, NoNews, NothingHappens
<1>5. CASE pc' = "done" /\ result' = Result("REMOTE_UNTRUSTWORTHY", "INTERRUPTED", local, remote)
  <2>1. /\ Evidence' = Wake!Ended(Evidence, "INTERRUPTED", "publication_status", "REMOTE_UNTRUSTWORTHY")
        /\ result'.status = "REMOTE_UNTRUSTWORTHY"
    BY <1>2, <1>5, News
  <2>2. WakePc' = "release" /\ WakeFaults' = 1
    BY <1>2, <1>5, <2>1, ExactNext
  <2>3. CASE "push" \in effects
    <3>1. WakePc = "verify"
      BY <1>1, <1>2, <2>3, Exact
    <3> QED
      BY <1>2, <1>3, <2>1, <2>2, <3>1, RemoteUnseen
  <2>4. CASE "push" \notin effects
    <3>1. WakePc = "push" /\ WakeAhead = {This}
      BY <1>1, <1>2, <2>4, Exact
    <3> QED
      BY <1>2, <1>3, <2>1, <2>2, <3>1, PushUnseen
  <2> QED
    BY <2>3, <2>4
<1> QED
  BY <1>4, <1>5 DEF VerifyRemote, Observe

LEMMA CreatePrStep ==
  ASSUME Alone, CreatePr
  PROVE  Wake!Open(This) \/ Wake!VerifyUncertain(This)
<1> USE DEF Goto, Finish
<1>1. /\ pc = "create_pr" /\ UNCHANGED <<Seen, index>> /\ mode = "NEW_WORK"
      /\ "push" \in effects /\ "push" \in effects' /\ "pr" \notin effects
  BY DEF CreatePr, Alone, RemoteAlone, Seen
<1>2. /\ head # Base /\ Top(head) = Validated /\ head' # Base /\ Top(head') = Validated
      /\ PublicationInv /\ pc # "done" /\ mode' = mode
      /\ WakeTree' = WakeTree
  BY <1>1, PublishingStep DEF Publishing
<1>3. /\ SameUnit /\ WakeAhead' = WakeAhead /\ WakeFaults = 0 /\ WakePc = "verify"
      /\ WakeStage = "pushed"
      /\ WakeStage' = IF "pr" \in effects' THEN "published" ELSE "pushed"
  BY <1>1, <1>2, Exact, ExactNext DEF SameUnit, WakeStage
<1>4. CASE "pr" \in effects' /\ pc' = "verify_pr" /\ result' = result
  <2>1. WakePc' = "verify" /\ WakeFaults' = 0
    BY <1>2, <1>4, ExactNext
  <2> QED
    BY <1>2, <1>3, <1>4, <2>1, NoNews, PrOpened
<1>5. CASE pc' = "done" /\ result' = Result("PR_UNTRUSTWORTHY", "INTERRUPTED", local, local)
  <2>1. /\ Evidence' = Wake!Ended(Evidence, "INTERRUPTED", "publication_status", "PR_UNTRUSTWORTHY")
        /\ result'.status = "PR_UNTRUSTWORTHY"
    BY <1>2, <1>5, News
  <2>2. WakePc' = "release" /\ WakeFaults' = 1
    BY <1>2, <1>5, <2>1, ExactNext
  <2> QED
    BY <1>2, <1>3, <2>1, <2>2, Opening, PrUnseen
<1> QED
  BY <1>4, <1>5 DEF CreatePr, PrUntrustworthy

LEMMA VerifyPrStep ==
  ASSUME Alone, VerifyPr
  PROVE  Wake!Verify(This) \/ Wake!VerifyUncertain(This)
<1> USE DEF Goto, Finish
<1>1. /\ pc = "verify_pr" /\ UNCHANGED <<Seen, index, effects>> /\ "push" \in effects
      /\ mode = "EXISTING_WORK" \/ "pr" \in effects
  BY DEF VerifyPr, Alone, TypeOK, RemoteAlone, Seen, world, ghost
<1>2. /\ head # Base /\ Top(head) = Validated /\ head' # Base /\ Top(head') = Validated
      /\ PublicationInv /\ pc # "done" /\ mode' = mode
      /\ WakeTree' = WakeTree
  BY <1>1, PublishingStep DEF Publishing
<1>3. /\ SameUnit /\ WakeAhead' = WakeAhead /\ WakeFaults = 0 /\ WakePc = "verify"
      /\ WakeStage' = WakeStage /\ WakeStage # "pushed"
  BY <1>1, <1>2, Exact, ExactNext DEF SameUnit, WakeStage
<1>4. CASE pc' = "done" /\ result' = Result("VERIFIED", "COMPLETED", local, local)
  <2>1. /\ Evidence' = Wake!Ended(Evidence, "COMPLETED", "publication_status", "VERIFIED")
        /\ result'.status = "VERIFIED"
    BY <1>2, <1>4, News
  <2>2. WakePc' = "release" /\ WakeFaults' = 0
    BY <1>2, <1>4, <2>1, ExactNext
  <2> QED
    BY <1>2, <1>3, <2>1, <2>2, PrVerified
<1>5. CASE pc' = "done" /\ result' = Result("PR_UNTRUSTWORTHY", "INTERRUPTED", local, local)
  <2>1. /\ Evidence' = Wake!Ended(Evidence, "INTERRUPTED", "publication_status", "PR_UNTRUSTWORTHY")
        /\ result'.status = "PR_UNTRUSTWORTHY"
    BY <1>2, <1>5, News
  <2>2. WakePc' = "release" /\ WakeFaults' = 1
    BY <1>2, <1>5, <2>1, ExactNext
  <2> QED
    BY <1>2, <1>3, <2>1, <2>2, PrUnseen
<1> QED
  BY <1>4, <1>5 DEF VerifyPr, PrUntrustworthy

\* What one step of the publication does is what the wake says of it, and it
\* hides nothing else: for any contents, hooks, exit statuses and answers of the
\* remote, and for new work as for a rework.
THEOREM PublicationImplementsPublish == Spec => ImplementsPublish
<1>1. TypeOK /\ PublicationInv /\ Undisturbed /\ [Next]_vars
        => [foreign' = 0 => Wake!Publish(This) \/ UNCHANGED Wake!vars]_vars
  <2> SUFFICES ASSUME TypeOK, PublicationInv, Undisturbed, Next, foreign' = 0
               PROVE  Wake!Publish(This) \/ UNCHANGED Wake!vars
    BY DEF vars
  <2>1. foreign = 0 /\ Step
    BY ForeignIsCounted
    DEF Next, Step, Inspect, Fingerprint, ObserveRemote, ObservePr, ExpectedObjects, Add,
        StagedPaths, StagedBytes, StagedIndex, GitCommit, RevParse, CommitParent, CommitClean,
        CommitTree, CommitReportedFailed, Push, VerifyRemote, CreatePr, VerifyPr, Observe
  <2>2. Alone
    BY <2>1 DEF Alone, Undisturbed
  <2> QED
    BY <2>1, <2>2, PreparingSteps, CommitStep, RevParseStep, VerifyingSteps, PushStep,
       VerifyRemoteStep, CreatePrStep, VerifyPrStep DEF Step, Wake!Publish
<1> QED
  BY <1>1, TypeCorrect, InvCorrect, AloneCorrect, PTL DEF Spec, ImplementsPublish
=============================================================================
