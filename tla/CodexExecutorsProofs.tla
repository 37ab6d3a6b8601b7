------------------------ MODULE CodexExecutorsProofs ------------------------
(***************************************************************************)
(* Theorems about CodexExecutors, for any number of helper processes.      *)
(***************************************************************************)
EXTENDS CodexExecutors, TLAPS

-----------------------------------------------------------------------------
(* Type correctness. *)

\* Completions are completions.
LEMMA CompletionsTyped ==
  ASSUME TypeOK
  PROVE  /\ \A cleanup, reliable \in BOOLEAN : Failure(cleanup, reliable) \in ProcessCompletion
         /\ \A reliable \in BOOLEAN : TechnicalFailure(reliable) \in Completion
         /\ ParseProtocol(record) \in Completion
         /\ \A t \in ProcessCompletion : WorkerCompletion(t) \in Completion
         /\ \A a, b, d, e \in BOOLEAN, c \in Codes \cup {"none"} :
              Transport(a, b, c, d, e) \in ProcessCompletion
<1>1. \A a, b, d, e \in BOOLEAN, c \in Codes \cup {"none"} :
        Transport(a, b, c, d, e) \in ProcessCompletion
  BY DEF Transport, ProcessCompletion
<1>2. \A cleanup, reliable \in BOOLEAN : Failure(cleanup, reliable) \in ProcessCompletion
  BY <1>1 DEF Failure, TypeOK
<1>3. \A reliable \in BOOLEAN : TechnicalFailure(reliable) \in Completion
  BY DEF TechnicalFailure, CheckCompletion, Completion
<1>4. ParseProtocol(record) \in Completion
  BY <1>3 DEF ParseProtocol, CheckCompletion, Completion, Codes
<1>5. \A t \in ProcessCompletion : WorkerCompletion(t) \in Completion
  BY DEF WorkerCompletion, ProcessCompletion, Completion
<1> QED
  BY <1>1, <1>2, <1>3, <1>4, <1>5

\* A call that returns has typed answers.
LEMMA ReturnTyped ==
  ASSUME TypeOK, NEW t \in ProcessCompletion, NEW c \in Completion, Return(t, c)
  PROVE  /\ pc' = "done" /\ handle' = handle
         /\ transport' \in {None} \cup ProcessCompletion
         /\ answer' \in {None} \cup Completion
  BY CompletionsTyped DEF Return, TypeOK

\* So has one that is left by an exception.
LEMMA EscapeTyped ==
  ASSUME TypeOK, Escape
  PROVE  /\ pc' = "done" /\ handle' = handle /\ transport' = transport
         /\ answer' \in {None} \cup Completion
  BY CompletionsTyped DEF Escape, TypeOK

\* A process that is started keeps the tree's type.
LEMMA StartsTyped ==
  ASSUME TypeOK, NEW p \in Procs, NEW q \in Procs, Starts(p, q)
  PROVE  TypeOK'
  BY DEF TypeOK, Starts, host

\* A check that has ended by itself has an exit code.
ResultKnown == tree["check"] = "ended" => result \in Codes

\* The types are inductive.
LEMMA TypeStep ==
  ASSUME TypeOK, ResultKnown, [Next]_vars
  PROVE  TypeOK'
<1> USE DEF world, host, Goto
<1>1. CASE WorkerPreflight \/ CheckPreflight
  BY <1>1, ReturnTyped, CompletionsTyped DEF WorkerPreflight, CheckPreflight, Admit, TypeOK
<1>2. CASE LaunchFails
  BY <1>2, ReturnTyped, CompletionsTyped DEF LaunchFails, TypeOK
<1>3. CASE Spawn
  BY <1>3 DEF Spawn, TypeOK
<1>4. CASE Assign
  BY <1>4 DEF Assign, TypeOK
<1>5. CASE Communicate
  <2>1. Transport(TRUE, TRUE, code, FALSE, TRUE) \in ProcessCompletion
    BY CompletionsTyped DEF TypeOK
  <2>2. Protocol \in Completion
    BY CompletionsTyped DEF Protocol
  <2> QED
    BY <1>5, <2>1, <2>2, ReturnTyped DEF Communicate, TypeOK
<1>6. CASE GiveUp
  BY <1>6 DEF GiveUp, TypeOK
<1>7. CASE List
  BY <1>7 DEF List, TypeOK
<1>8. CASE ListFails
  BY <1>8, ReturnTyped, CompletionsTyped DEF ListFails, CleanedUp, TypeOK
<1>9. CASE Kill
  <2>1. PICK K \in SUBSET listed :
          /\ tree' = Terminated(K)
          /\ IF K = listed THEN Goto("reap") /\ UNCHANGED handle ELSE CleanedUp(FALSE)
    BY <1>9 DEF Kill
  <2>2. tree' \in [Procs -> {"absent", "running", "ended", "killed"}]
    BY <2>1 DEF Terminated, TypeOK
  <2>3. CASE K = listed
    BY <1>9, <2>1, <2>2, <2>3 DEF Kill, TypeOK
  <2>4. CASE K # listed
    BY <1>9, <2>1, <2>2, <2>4, ReturnTyped, CompletionsTyped DEF Kill, CleanedUp, TypeOK
  <2> QED
    BY <2>3, <2>4
<1>10. CASE Reap
  <2>1. PICK cleanup \in BOOLEAN :
          /\ code' = IF cleanup /\ code = "none" THEN "nonzero" ELSE code
          /\ Return(Transport(FALSE, cleanup, IF cleanup THEN code' ELSE "none", TRUE, cleanup),
                    TechnicalFailure(FALSE))
    BY <1>10 DEF Reap
  <2>2. code' \in Codes \cup {"none"}
    BY <2>1 DEF TypeOK, Codes
  <2>3. Transport(FALSE, cleanup, IF cleanup THEN code' ELSE "none", TRUE, cleanup)
          \in ProcessCompletion
    BY <2>2, CompletionsTyped
  <2> QED
    BY <1>10, <2>1, <2>2, <2>3, ReturnTyped, CompletionsTyped DEF Reap, TypeOK
<1>11. CASE InterruptLaunch
  BY <1>11, ReturnTyped, CompletionsTyped DEF InterruptLaunch, TypeOK
<1>12. CASE PlanFails \/ InterruptOutside
  BY <1>12, EscapeTyped DEF PlanFails, InterruptOutside, TypeOK
<1>13. CASE StartHelper
  BY <1>13, StartsTyped DEF StartHelper, Live, Procs
<1>14. CASE StartScrubber
  BY <1>14, StartsTyped DEF StartScrubber, Procs
<1>15. CASE StartCheck
  BY <1>15, StartsTyped DEF StartCheck, Procs
<1>16. CASE EndHelper
  BY <1>16 DEF EndHelper, Becomes, TypeOK
<1>17. CASE EndCodex
  BY <1>17 DEF EndCodex, Becomes, TypeOK
<1>18. CASE EndCheck
  BY <1>18 DEF EndCheck, Becomes, TypeOK
<1>19. CASE ReportCheck
  BY <1>19 DEF ReportCheck, Becomes, TypeOK, ResultKnown
<1>20. CASE ReportTechnicalFailure
  BY <1>20 DEF ReportTechnicalFailure, TypeOK
<1>21. CASE UNCHANGED vars
  BY <1>21 DEF vars, TypeOK
<1> QED
  BY <1>1, <1>2, <1>3, <1>4, <1>5, <1>6, <1>7, <1>8, <1>9, <1>10, <1>11, <1>12, <1>13,
     <1>14, <1>15, <1>16, <1>17, <1>18, <1>19, <1>20, <1>21
  DEF Next, Host, Interrupt, Preflight, Tree

-----------------------------------------------------------------------------
(* The inductive invariant. *)

\* The order in which the tree comes to be, and what its ends have left.
TreeInv ==
  /\ above["codex"] = {}
  /\ \A p \in Procs \ {"codex"} :
       tree[p] # "absent" => "codex" \in above[p] /\ tree["codex"] # "absent"
  /\ kind = "worker" => tree["scrubber"] = "absent"
  /\ tree["scrubber"] = "absent" => tree["check"] = "absent"
  /\ tree["scrubber"] = "ended" => tree["check"] # "running"
  /\ ResultKnown
  /\ record \in Codes \cup {"technical"} => tree["scrubber"] = "ended"
  /\ record \in Codes => tree["check"] = "ended" /\ result = record
  /\ tree["codex"] = "ended" => code \in Codes
  /\ code # "none" => tree["codex"] \in {"ended", "killed"}

\* What HOST has achieved before each of its steps.
PhaseInv ==
  /\ pc \in {"preflight", "launch"} => tree["codex"] = "absent"
  /\ pc \in {"assign", "wait", "list"} => tree["codex"] \in {"running", "ended"}
  /\ pc \in {"kill", "reap"} => "codex" \in listed /\ \A p \in listed : tree[p] # "absent"
  /\ pc = "reap" => \A p \in listed : tree[p] # "running"
  /\ pc # "done" => answer = None /\ transport = None

\* What remains true after a reliable completion,
ReliableInv ==
  Reliable =>
    /\ pc = "done"
    /\ IF kind = "worker" THEN tree["codex"] = "ended" /\ code = "zero"
       ELSE \/ answer.technical /\ tree["codex"] = "absent"
            \/ /\ tree["codex"] = "ended"
               /\ tree["scrubber"] = "ended" /\ tree["check"] # "running"
               /\ (answer.technical \/ (tree["check"] = "ended" /\ answer.returncode = result))

\* and after a confirmed clean-up.
ConfirmedInv ==
  Confirmed =>
    /\ pc = "done"
    /\ \/ tree["codex"] \in {"absent", "ended"}
       \/ "codex" \in listed /\ \A p \in listed : tree[p] \notin {"absent", "running"}

Inv == TypeOK /\ TreeInv /\ PhaseInv /\ ReliableInv /\ ConfirmedInv

\* The types hold at first.
LEMMA TypeInit ==
  ASSUME Init
  PROVE  TypeOK
  BY DEF Init, TypeOK, Kinds

\* What a call returns with after a failure is a reliable completion only of a
\* check, and a confirmed clean-up only if it was confirmed.
LEMMA FailureReturns ==
  ASSUME TypeOK, NEW cleanup \in BOOLEAN, NEW reliable \in BOOLEAN, NEW settled \in BOOLEAN,
         transport = None, Return(Failure(cleanup, reliable), TechnicalFailure(settled))
  PROVE  /\ pc' = "done"
         /\ Reliable' => kind = "check" /\ settled /\ answer'.technical
         /\ Confirmed' => cleanup
<1>1. ~WorkerCompletion(Failure(cleanup, reliable)).reliable
  BY DEF WorkerCompletion, Failure, Transport
<1>2. Failure(cleanup, reliable).cleanup_confirmed = cleanup
  BY DEF Failure, Transport
<1>3. /\ TechnicalFailure(settled).reliable = settled
      /\ TechnicalFailure(settled).technical = TRUE
  BY DEF TechnicalFailure, CheckCompletion
<1>4. kind \in {"worker", "check"}
  BY DEF TypeOK, Kinds
<1>5. CASE kind = "worker"
  BY <1>1, <1>2, <1>5 DEF Return, Reliable, Confirmed
<1>6. CASE kind = "check"
  BY <1>3, <1>6 DEF Return, Reliable, Confirmed
<1> QED
  BY <1>4, <1>5, <1>6

\* A step of HOST keeps the tree's order.
LEMMA HostTree ==
  ASSUME Inv, Host \/ Interrupt
  PROVE  TreeInv'
<1> USE DEF Inv, TreeInv, ResultKnown, world
<1>1. CASE Spawn
  <2>1. tree["codex"] = "absent" /\ tree' = [tree EXCEPT !["codex"] = "running"]
    BY <1>1 DEF Spawn, PhaseInv
  <2>2. \A p \in Procs : tree[p] = "absent"
    BY <2>1
  <2> QED
    BY <1>1, <2>1, <2>2 DEF Spawn, TypeOK, Procs
<1>2. CASE Kill
  <2>1. PICK K \in SUBSET listed : tree' = Terminated(K)
    BY <1>2 DEF Kill
  <2>2. \A p \in Procs : tree'[p] = tree[p] \/ (tree[p] = "running" /\ tree'[p] = "killed")
    BY <2>1 DEF Terminated, Running
  <2>3. {"codex", "scrubber", "check"} \subseteq Procs
    BY DEF Procs
  <2> QED
    BY <1>2, <2>2, <2>3 DEF Kill, TypeOK
<1>3. CASE Reap
  <2>1. /\ UNCHANGED <<tree, above, record, result, kind>>
        /\ code' = code \/ (code' = "nonzero" /\ ~Running("codex"))
    BY <1>3 DEF Reap
  <2>2. code' # code => tree["codex"] \in {"ended", "killed"}
    BY <1>3, <2>1 DEF Reap, PhaseInv, Running, TypeOK, Procs
  <2> QED
    BY <2>1, <2>2 DEF Codes
<1>4. CASE UNCHANGED <<kind, world>>
  BY <1>4
<1> QED
  BY <1>1, <1>2, <1>3, <1>4
  DEF Host, Interrupt, Preflight, PlanFails, WorkerPreflight, CheckPreflight, LaunchFails, Assign,
      Communicate, GiveUp, List, ListFails,
      InterruptLaunch, InterruptOutside

\* A step of HOST keeps what it has achieved and attested.
LEMMA HostPhase ==
  ASSUME Inv, Host \/ Interrupt
  PROVE  PhaseInv' /\ ReliableInv' /\ ConfirmedInv'
<1> DEFINE Goal == PhaseInv' /\ ReliableInv' /\ ConfirmedInv'
<1> USE DEF Inv
<1>0. pc # "done" => answer = None /\ transport = None
  BY DEF PhaseInv
<1>1. ASSUME NEW p, pc # "done", Goto(p), UNCHANGED listed,
             p \in {"launch", "assign", "wait", "list", "kill", "reap"},
             p = "launch" => tree'["codex"] = "absent",
             p \in {"assign", "wait", "list"} => tree'["codex"] \in {"running", "ended"},
             p \in {"kill", "reap"} => /\ "codex" \in listed
                                      /\ \A q \in listed : tree'[q] # "absent",
             p = "reap" => \A q \in listed : tree'[q] # "running"
      PROVE  Goal
  BY <1>0, <1>1 DEF Goto, PhaseInv, ReliableInv, ConfirmedInv, Reliable, Confirmed
<1>2. ASSUME NEW cleanup \in BOOLEAN, NEW reliable \in BOOLEAN, NEW settled \in BOOLEAN,
             pc # "done", Return(Failure(cleanup, reliable), TechnicalFailure(settled)),
             settled \/ cleanup => tree'["codex"] = "absent",
             kind' = kind
      PROVE  Goal
  BY <1>0, <1>2, FailureReturns DEF PhaseInv, ReliableInv, ConfirmedInv
<1>3. CASE WorkerPreflight \/ CheckPreflight
  <2>1. tree' = tree /\ tree["codex"] = "absent" /\ pc # "done" /\ UNCHANGED <<listed, kind>>
    BY <1>3 DEF WorkerPreflight, CheckPreflight, PhaseInv, world
  <2>2. Goto("launch") \/ Return(Failure(TRUE, FALSE), TechnicalFailure(TRUE))
    BY <1>3 DEF WorkerPreflight, CheckPreflight, Admit
  <2> QED
    BY <1>1, <1>2, <2>1, <2>2
<1>4. CASE LaunchFails
  <2>1. tree' = tree /\ tree["codex"] = "absent" /\ pc # "done" /\ UNCHANGED <<listed, kind>>
    BY <1>4 DEF LaunchFails, PhaseInv, world
  <2> QED
    BY <1>2, <1>4, <2>1 DEF LaunchFails
<1>5. CASE Spawn
  <2>1. tree'["codex"] = "running" /\ pc # "done" /\ UNCHANGED listed
    BY <1>5 DEF Spawn, TypeOK, Procs
  <2> QED
    BY <1>1, <1>5, <2>1 DEF Spawn
<1>6. CASE Assign
  <2>1. tree'["codex"] \in {"running", "ended"} /\ pc # "done" /\ UNCHANGED listed
    BY <1>6 DEF Assign, PhaseInv, world
  <2> QED
    BY <1>1, <1>6, <2>1 DEF Assign
<1>7. CASE Communicate
  <2>1. /\ UNCHANGED <<kind, tree, code, result>> /\ pc' = "done"
        /\ tree["codex"] = "ended" /\ tree["scrubber"] # "running"
    BY <1>7 DEF Communicate, OutputClosed, Running, PhaseInv, world, Return
  <2>2. kind \in {"worker", "check"}
    BY DEF TypeOK, Kinds
  <2>3. CASE kind = "worker"
    <3>1. answer' = WorkerCompletion(Transport(TRUE, TRUE, code, FALSE, TRUE))
      BY <1>7, <2>3 DEF Communicate, Return
    <3>2. answer'.reliable => code = "zero"
      BY <3>1 DEF WorkerCompletion, Transport
    <3> QED
      BY <2>1, <2>3, <3>2 DEF PhaseInv, ReliableInv, ConfirmedInv, Reliable
  <2>4. CASE kind = "check"
    <3>1. answer' = IF code = "zero" THEN ParseProtocol(record) ELSE TechnicalFailure(FALSE)
      BY <1>7, <2>4 DEF Communicate, Protocol, Return
    <3>2. ~TechnicalFailure(FALSE).reliable /\ TechnicalFailure(TRUE).technical
      BY DEF TechnicalFailure, CheckCompletion
    <3>3. CASE code = "zero" /\ record \in Codes
      <4>1. answer' = CheckCompletion(record, FALSE, TRUE)
        BY <3>1, <3>3 DEF ParseProtocol, Codes
      <4>2. answer'.returncode = record
        BY <4>1 DEF CheckCompletion
      <4> QED
        BY <2>1, <2>4, <3>3, <4>2 DEF TreeInv, PhaseInv, ReliableInv, ConfirmedInv
    <3>4. CASE code = "zero" /\ record = "technical"
      <4>1. answer' = TechnicalFailure(TRUE)
        BY <3>1, <3>4 DEF ParseProtocol, Codes
      <4> QED
        BY <2>1, <2>4, <3>2, <3>4, <4>1 DEF TreeInv, PhaseInv, ReliableInv, ConfirmedInv
    <3>5. CASE code # "zero" \/ record \notin Codes \cup {"technical"}
      <4>1. answer' = TechnicalFailure(FALSE)
        BY <3>1, <3>5 DEF ParseProtocol
      <4> QED
        BY <2>1, <2>4, <3>2, <4>1 DEF PhaseInv, ReliableInv, ConfirmedInv, Reliable
    <3> QED
      BY <3>3, <3>4, <3>5
  <2> QED
    BY <2>2, <2>3, <2>4
<1>8. CASE GiveUp
  <2>1. tree'["codex"] \in {"running", "ended"} /\ pc # "done" /\ UNCHANGED listed
    BY <1>8 DEF GiveUp, PhaseInv, world
  <2> QED
    BY <1>1, <1>8, <2>1 DEF GiveUp
<1>9. CASE List
  <2>1. /\ pc' = "kill" /\ tree' = tree /\ transport' = None /\ answer' = None
    BY <1>0, <1>9 DEF List, Goto, world
  <2>2. "codex" \in listed'
    BY <1>9 DEF List, Visible, Running, TreeInv, Procs
  <2>3. \A p \in listed' : tree'[p] # "absent"
    BY <1>9, <2>1 DEF List, Visible, Running
  <2> QED
    BY <2>1, <2>2, <2>3 DEF PhaseInv, ReliableInv, ConfirmedInv, Reliable, Confirmed
<1>10. CASE ListFails
  <2>1. pc # "done" /\ kind' = kind
    BY <1>10 DEF ListFails
  <2> QED
    BY <1>2, <1>10, <2>1 DEF ListFails, CleanedUp
<1>11. CASE Kill
  <2>1. PICK K \in SUBSET listed :
          /\ tree' = Terminated(K)
          /\ IF K = listed THEN Goto("reap") /\ UNCHANGED handle ELSE CleanedUp(FALSE)
    BY <1>11 DEF Kill
  <2>2. pc # "done" /\ UNCHANGED <<kind, listed>> /\ listed \subseteq Procs
    BY <1>11 DEF Kill, TypeOK
  <2>3. CASE K = listed
    <3>1. "codex" \in listed /\ \A q \in listed : tree'[q] \notin {"absent", "running"}
      BY <1>11, <2>1, <2>2, <2>3 DEF Kill, PhaseInv, Terminated, Running
    <3> QED
      BY <1>1, <2>1, <2>2, <2>3, <3>1
  <2>4. CASE K # listed
    BY <1>2, <2>1, <2>2, <2>4 DEF CleanedUp
  <2> QED
    BY <2>3, <2>4
<1>12. CASE Reap
  <2>1. PICK cleanup \in BOOLEAN :
          Return(Transport(FALSE, cleanup, IF cleanup THEN code' ELSE "none", TRUE, cleanup),
                 TechnicalFailure(FALSE))
    BY <1>12 DEF Reap
  <2>2. /\ ~WorkerCompletion(Transport(FALSE, cleanup, IF cleanup THEN code' ELSE "none",
                                      TRUE, cleanup)).reliable
        /\ ~TechnicalFailure(FALSE).reliable
    BY DEF WorkerCompletion, Transport, TechnicalFailure, CheckCompletion
  <2>3. pc' = "done" /\ ~Reliable'
    BY <2>1, <2>2 DEF Return, Reliable
  <2>4. /\ tree' = tree /\ listed' = listed /\ "codex" \in listed
        /\ \A p \in listed : tree[p] \notin {"absent", "running"}
    BY <1>12 DEF Reap, PhaseInv
  <2> QED
    BY <2>3, <2>4 DEF PhaseInv, ReliableInv, ConfirmedInv
<1>13. CASE InterruptLaunch
  <2>1. pc # "done" /\ kind' = kind
    BY <1>13 DEF InterruptLaunch
  <2> QED
    BY <1>2, <1>13, <2>1 DEF InterruptLaunch
<1>14. CASE PlanFails \/ InterruptOutside
  <2>1. pc' = "done" /\ transport' = None
    BY <1>0, <1>14 DEF PlanFails, InterruptOutside, Escape
  <2>2. ~WorkerCompletion(Failure(FALSE, FALSE)).reliable
    BY DEF WorkerCompletion, Failure, Transport
  <2>3. ~Reliable' /\ ~Confirmed'
    BY <1>14, <2>1, <2>2 DEF PlanFails, InterruptOutside, Escape, Reliable, Confirmed
  <2> QED
    BY <2>1, <2>3 DEF PhaseInv, ReliableInv, ConfirmedInv
<1> QED
  BY <1>3, <1>4, <1>5, <1>6, <1>7, <1>8, <1>9, <1>10, <1>11, <1>12, <1>13, <1>14
  DEF Host, Interrupt, Preflight

\* A process that is started has codex above it.
LEMMA StartsTree ==
  ASSUME Inv, NEW p \in Procs, NEW q \in Procs \ {"codex"}, Starts(p, q),
         q = "scrubber" => kind = "check",
         q = "check" => p = "scrubber" /\ record = "empty"
  PROVE  TreeInv' /\ PhaseInv' /\ ReliableInv' /\ ConfirmedInv'
<1> USE DEF Inv
<1>1. /\ tree[p] = "running" /\ tree[q] = "absent" /\ tree' = [tree EXCEPT ![q] = "running"]
      /\ above' = [above EXCEPT ![q] = above[p] \cup {p}]
      /\ UNCHANGED <<kind, pc, handle, transport, answer, code, record, result, listed>>
  BY DEF Starts, Running, host
<1>2. tree["codex"] # "absent" /\ "codex" \in above'[q]
  BY <1>1 DEF TreeInv, TypeOK
<1>3. TreeInv'
  BY <1>1, <1>2 DEF TreeInv, ResultKnown, TypeOK, Procs
<1>4. q \notin listed \/ ~(pc \in {"kill", "reap"})
  BY <1>1 DEF PhaseInv
<1>5. PhaseInv'
  BY <1>1, <1>2, <1>4 DEF PhaseInv, TypeOK, Procs
<1>6. ReliableInv'
  BY <1>1, <1>2 DEF ReliableInv, Reliable, TreeInv, TypeOK, Procs
<1>7. ConfirmedInv'
  BY <1>1, <1>2 DEF ConfirmedInv, Confirmed, TypeOK, Procs
<1> QED
  BY <1>3, <1>5, <1>6, <1>7

\* So do the steps of the tree.
LEMMA TreeStep ==
  ASSUME Inv, Tree
  PROVE  TreeInv' /\ PhaseInv' /\ ReliableInv' /\ ConfirmedInv'
<1> USE DEF Inv
<1> {"codex", "scrubber", "check"} \subseteq Procs /\ Helpers \subseteq Procs
  BY DEF Procs
<1>1. CASE StartHelper
  BY <1>1, StartsTree, ExecutorAssumption DEF StartHelper, Live
<1>2. CASE StartScrubber
  BY <1>2, StartsTree DEF StartScrubber
<1>3. CASE StartCheck
  BY <1>3, StartsTree DEF StartCheck
<1>4. ASSUME NEW h \in Helpers, Running(h), Becomes(h, "ended"),
             UNCHANGED <<kind, pc, host, above, code, record, result, listed>>
      PROVE  TreeInv' /\ PhaseInv' /\ ReliableInv' /\ ConfirmedInv'
  <2>1. /\ h \notin {"codex", "scrubber", "check"} /\ tree[h] = "running"
        /\ tree' = [tree EXCEPT ![h] = "ended"]
        /\ UNCHANGED <<kind, pc, handle, transport, answer, above, code, record, result, listed>>
    BY <1>4, ExecutorAssumption DEF Running, Becomes, host
  <2>2. TreeInv' /\ PhaseInv'
    BY <2>1 DEF TreeInv, ResultKnown, PhaseInv, TypeOK
  <2>3. ReliableInv' /\ ConfirmedInv'
    BY <2>1 DEF ReliableInv, Reliable, ConfirmedInv, Confirmed, TypeOK
  <2> QED
    BY <2>2, <2>3
<1>5. CASE EndCodex
  <2>1. /\ tree["codex"] = "running" /\ tree' = [tree EXCEPT !["codex"] = "ended"]
        /\ code' \in Codes /\ record' \in {record, "noise"}
        /\ UNCHANGED <<kind, pc, handle, transport, answer, above, result, listed>>
    BY <1>5 DEF EndCodex, Running, Becomes, host
  <2>2. TreeInv' /\ PhaseInv'
    BY <2>1 DEF TreeInv, ResultKnown, PhaseInv, TypeOK, Codes
  <2>3. ReliableInv' /\ ConfirmedInv'
    BY <2>1 DEF ReliableInv, Reliable, ConfirmedInv, Confirmed, TypeOK
  <2> QED
    BY <2>2, <2>3
<1>6. CASE EndCheck
  <2>1. /\ tree["check"] = "running" /\ tree' = [tree EXCEPT !["check"] = "ended"]
        /\ result' \in Codes
        /\ UNCHANGED <<kind, pc, handle, transport, answer, above, code, record, listed>>
    BY <1>6 DEF EndCheck, Running, Becomes, host
  <2>2. TreeInv' /\ PhaseInv'
    BY <2>1 DEF TreeInv, ResultKnown, PhaseInv, TypeOK, Codes
  <2>3. ReliableInv' /\ ConfirmedInv'
    BY <2>1 DEF ReliableInv, Reliable, ConfirmedInv, Confirmed, TypeOK, TreeInv
  <2> QED
    BY <2>2, <2>3
<1>7. ASSUME ReportCheck \/ ReportTechnicalFailure
      PROVE  TreeInv' /\ PhaseInv' /\ ReliableInv' /\ ConfirmedInv'
  <2>1. /\ tree["scrubber"] = "running"
        /\ tree' = [tree EXCEPT !["scrubber"] = "ended",
                                !["check"] = IF @ = "running" THEN "killed" ELSE @]
        /\ UNCHANGED <<kind, pc, handle, transport, answer, above, code, result, listed>>
    BY <1>7 DEF ReportCheck, ReportTechnicalFailure, Running, Becomes, host, TypeOK
  <2>2. /\ record' \in Codes => tree["check"] = "ended" /\ record' = result
        /\ record' \in Codes \cup {"empty", "technical", "noise"}
    BY <1>7, <2>1 DEF ReportCheck, ReportTechnicalFailure, TypeOK, Codes, TreeInv, ResultKnown
  <2>3. TreeInv' /\ PhaseInv'
    BY <2>1, <2>2 DEF TreeInv, ResultKnown, PhaseInv, TypeOK
  <2>4. ReliableInv' /\ ConfirmedInv'
    BY <2>1 DEF ReliableInv, Reliable, ConfirmedInv, Confirmed, TypeOK
  <2> QED
    BY <2>3, <2>4
<1> QED
  BY <1>1, <1>2, <1>3, <1>4, <1>5, <1>6, <1>7 DEF Tree, EndHelper

\* The invariant is inductive.
LEMMA InvStep ==
  ASSUME Inv, [Next]_vars
  PROVE  Inv'
<1>1. TypeOK'
  BY TypeStep DEF Inv, TreeInv
<1>2. CASE Host \/ Interrupt
  BY <1>1, <1>2, HostTree, HostPhase DEF Inv
<1>3. CASE Tree
  BY <1>1, <1>3, TreeStep DEF Inv
<1>4. CASE UNCHANGED vars
  BY <1>1, <1>4 DEF vars, host, world, Inv, TreeInv, ResultKnown, PhaseInv, ReliableInv,
                    Reliable, ConfirmedInv, Confirmed
<1> QED
  BY <1>2, <1>3, <1>4 DEF Next

\* The invariant holds always.
THEOREM InvCorrect == Spec => []Inv
<1>1. Init => Inv
  BY TypeInit
  DEF Init, Inv, TreeInv, ResultKnown, PhaseInv, ReliableInv, Reliable, ConfirmedInv, Confirmed,
      Procs, Codes
<1>2. Inv /\ [Next]_vars => Inv'
  BY InvStep
<1> QED
  BY <1>1, <1>2, PTL DEF Spec

\* The call, the process tree and the completions are of their types.
THEOREM TypeCorrect == Spec => []TypeOK
  BY InvCorrect, PTL DEF Inv

\* A reliable completion or a confirmed clean-up is given only when nothing of
\* the attempt runs any more but what the system no longer shows.
THEOREM AttestationsAreTrue == Spec => []AttestedIsOver
<1>1. ASSUME Inv
      PROVE  AttestedIsOver
  <2> USE <1>1 DEF Inv
  <2>1. ASSUME tree["codex"] = "absent"
        PROVE  Live = {}
    BY <2>1 DEF TreeInv, Live, Running, Procs
  <2>2. ASSUME tree["codex"] = "ended", NEW p \in Live
        PROVE  Lost(p)
    BY <2>2 DEF TreeInv, Live, Running, Lost
  <2>3. ASSUME Reliable
        PROVE  Live \cap {"codex", "scrubber", "check"} = {}
    <3>1. CASE kind = "worker"
      BY <2>3, <3>1 DEF ReliableInv, TreeInv, Live, Running
    <3>2. CASE kind # "worker"
      BY <2>1, <2>3, <3>2 DEF ReliableInv, Live, Running
    <3> QED
      BY <3>1, <3>2
  <2>4. ASSUME Reliable \/ Confirmed, NEW p \in Live
        PROVE  Lost(p)
    <3>1. tree["codex"] \in {"absent", "ended"} \/
          ("codex" \in listed /\ \A q \in listed : tree[q] \notin {"absent", "running"})
      BY <2>4 DEF ReliableInv, ConfirmedInv
    <3> QED
      BY <2>1, <2>2, <2>4, <3>1 DEF Live, Running, Lost
  <2> QED
    BY <2>3, <2>4 DEF AttestedIsOver
<1> QED
  BY <1>1, InvCorrect, PTL

\* A reliable completion of a check is the exit code of the check itself; one
\* of a worker is codex's own success.
THEOREM ResultsAreTheChecks == Spec => []ResultIsTheChecks
<1>1. Inv => ResultIsTheChecks
  BY DEF Inv, ReliableInv, ResultIsTheChecks, TypeOK, Kinds
<1> QED
  BY <1>1, InvCorrect, PTL
=============================================================================
