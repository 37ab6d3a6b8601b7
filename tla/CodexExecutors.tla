--------------------------- MODULE CodexExecutors ---------------------------
(***************************************************************************)
(* One call of an executor that RUNTIME-03 is given: CodexWorkerExecutor   *)
(* over WindowsCodexProcessTransport, or WindowsCodexCheckExecutor.  HOST   *)
(* starts codex and waits for it with a timeout.  For a check, codex        *)
(* starts the scrubber, the scrubber starts the check and writes one        *)
(* record about it to codex's standard output.  Any process of the tree     *)
(* may start helpers and end whenever it likes; taskkill ends what the      *)
(* system's process tree shows at one moment, if it can.  An interrupt may  *)
(* arrive anywhere in HOST.                                                 *)
(***************************************************************************)
EXTENDS FiniteSets

CONSTANTS
  Helpers,  \* further processes that the tree may start
  None      \* no completion

Kinds == {"worker", "check"}
Procs == {"codex", "scrubber", "check"} \cup Helpers

ASSUME ExecutorAssumption ==
  /\ IsFiniteSet(Helpers)
  /\ Helpers \cap {"codex", "scrubber", "check"} = {}

VARIABLES
  kind,     \* which executor is called
  pc,       \* the next step of HOST
  handle,   \* process is not None
  tree,     \* "absent", "running", "ended" or "killed", by process
  above,    \* who started each process, and who started them
  code,     \* exit code of codex: "none", "zero" or "nonzero"
  record,   \* standard output of codex
  listed,   \* what taskkill found
  result,   \* history: the check's own exit code
  transport,\* CodexProcessCompletion; of the check executor, what it has of it
  answer    \* WorkerCompletion or CheckCompletion; None if the call raised

host  == <<handle, transport, answer>>
world == <<tree, above, code, record, result>>
vars  == <<kind, pc, host, world, listed>>

Codes == {"zero", "nonzero"}

Init ==
  /\ kind \in Kinds
  /\ pc = "preflight" /\ handle = FALSE
  /\ tree = [p \in Procs |-> "absent"]
  /\ above = [p \in Procs |-> {}]
  /\ code = "none" /\ record = "empty"
  /\ listed = {} /\ result = "none"
  /\ transport = None /\ answer = None

Running(p) == tree[p] = "running"
Live == {p \in Procs : Running(p)}

-----------------------------------------------------------------------------
(* Completions. *)

Transport(terminated, reliable, c, technical, cleanup) ==
  [terminated |-> terminated, completion_reliable |-> reliable, returncode |-> c,
   technical_failure |-> technical, cleanup_confirmed |-> cleanup]

\* _failure
Failure(cleanup, reliable) ==
  Transport(FALSE, reliable, IF reliable THEN code ELSE "none", TRUE, cleanup)

\* CodexWorkerExecutor.execute of a completion of the transport.
WorkerCompletion(t) ==
  [reliable |-> /\ t.terminated /\ t.completion_reliable /\ t.returncode = "zero"
                /\ ~t.technical_failure /\ t.cleanup_confirmed,
   returncode |-> "none", technical |-> FALSE]

CheckCompletion(c, technical, reliable) ==
  [reliable |-> reliable, returncode |-> c, technical |-> technical]

\* _technical_failure
TechnicalFailure(reliable) == CheckCompletion("none", TRUE, reliable)

\* Mutation: whatever the record says is the exit code.
RecordIsResult(output) == CheckCompletion(output, FALSE, TRUE)

\* _parse_protocol
ParseProtocol(output) ==
  CASE output \in Codes       -> CheckCompletion(output, FALSE, TRUE)
    [] output = "technical"   -> TechnicalFailure(TRUE)
    [] OTHER                  -> TechnicalFailure(FALSE)

\* HOST returns: t is what the transport completed with, c the check completion.
Return(t, c) ==
  /\ pc' = "done"
  /\ IF kind = "worker" THEN transport' = t /\ answer' = WorkerCompletion(t)
     ELSE answer' = c /\ UNCHANGED transport
  /\ UNCHANGED handle

\* An exception leaves the call.  The worker's adapter makes it a completion.
Escape ==
  /\ pc' = "done"
  /\ answer' = IF kind = "worker" THEN WorkerCompletion(Failure(FALSE, FALSE)) ELSE None
  /\ UNCHANGED <<handle, transport>>

Goto(p) == pc' = p /\ UNCHANGED <<transport, answer>>

-----------------------------------------------------------------------------
(* HOST. *)

\* What a containment preflight may say: nothing if it raises, and whether it
\* speaks of this attempt, profile and head (of a check, of this check).
Evidence == [status : {"satisfied", "refused", "unavailable", "raised"}, bound : BOOLEAN]

\* _is_bound_satisfied
IsBoundSatisfied(e) == e.status = "satisfied" /\ e.bound

\* Codex is launched, or the call ends before there is a child.
Admit(ok) ==
  IF ok THEN Goto("launch") /\ UNCHANGED handle
  ELSE Return(Failure(TRUE, FALSE), TechnicalFailure(TRUE))

\* build_codex_launch_plan raises: the transport is not called.
PlanFails ==
  /\ pc = "preflight" /\ kind = "worker"
  /\ Escape
  /\ UNCHANGED <<kind, world, listed>>

\* The containment is positive, and codex and HEAD are what was expected.
WorkerPreflight ==
  /\ pc = "preflight" /\ kind = "worker"
  /\ \E e \in Evidence, version, head \in BOOLEAN : Admit(IsBoundSatisfied(e) /\ version /\ head)
  /\ UNCHANGED <<kind, world, listed>>

\* Git's metadata are found, the plan can be built, the containment is positive,
\* and codex is what was expected.
CheckPreflight ==
  /\ pc = "preflight" /\ kind = "check"
  /\ \E e \in Evidence, plan, version \in BOOLEAN : Admit(plan /\ IsBoundSatisfied(e) /\ version)
  /\ UNCHANGED <<kind, world, listed>>

Preflight == PlanFails \/ WorkerPreflight \/ CheckPreflight

\* Popen fails: there is no child.
LaunchFails ==
  /\ pc = "launch"
  /\ Return(Failure(TRUE, FALSE), TechnicalFailure(TRUE))
  /\ UNCHANGED <<kind, world, listed>>

Spawn ==
  /\ pc = "launch"
  /\ tree' = [tree EXCEPT !["codex"] = "running"]
  /\ Goto("assign")
  /\ UNCHANGED <<kind, handle, above, code, record, result, listed>>

Assign ==
  /\ pc = "assign"
  /\ handle' = TRUE
  /\ Goto("wait")
  /\ UNCHANGED <<kind, world, listed>>

\* What the check executor makes of codex's end and output.
Protocol == IF code = "zero" THEN ParseProtocol(record) ELSE TechnicalFailure(FALSE)

\* communicate: codex is over and nobody holds its standard output any more.
OutputClosed == ~Running("codex") /\ ~Running("scrubber")

Communicate ==
  /\ pc = "wait"
  /\ OutputClosed
  /\ Return(Transport(TRUE, TRUE, code, FALSE, TRUE), Protocol)
  /\ UNCHANGED <<kind, world, listed>>

\* Mutation: communicate() without a timeout.
NoTimeout == FALSE

\* TimeoutExpired, an interrupt or another exception while HOST waits, even if
\* codex has ended in the meantime: every handler cleans up the tree.
GiveUp ==
  /\ pc = "wait"
  /\ Goto("list")
  /\ UNCHANGED <<kind, handle, world, listed>>

\* An interrupt within launch or before its value is assigned: the handler has
\* no process to clean up.
InterruptLaunch ==
  /\ pc \in {"launch", "assign"}
  /\ ~handle
  /\ Return(Failure(FALSE, FALSE), TechnicalFailure(FALSE))
  /\ UNCHANGED <<kind, world, listed>>

\* An interrupt outside the try, or inside a handler's clean-up.
InterruptOutside ==
  /\ pc \in {"preflight", "list", "kill", "reap"}
  /\ Escape
  /\ UNCHANGED <<kind, world, listed>>

\* How a call ends after cleanup_tree; the check executor ignores its value.
CleanedUp(cleanup) == Return(Failure(cleanup, cleanup), TechnicalFailure(FALSE))

\* A process that the system shows below codex.
Visible(p) == Running(p) /\ \A a \in above[p] : Running(a)

\* taskkill /T lists the tree of codex, if codex still runs.
List ==
  /\ pc = "list"
  /\ Running("codex")
  /\ listed' = {p \in Procs : Visible(p)}
  /\ Goto("kill")
  /\ UNCHANGED <<kind, handle, world>>

\* It cannot be run, does not answer in time, or finds no codex.
ListFails ==
  /\ pc = "list"
  /\ CleanedUp(FALSE)
  /\ UNCHANGED <<kind, world, listed>>

Terminated(K) == [p \in Procs |-> IF p \in K /\ Running(p) THEN "killed" ELSE tree[p]]

\* Mutation: the exit code of taskkill is not looked at.
KillUnchecked ==
  /\ pc = "kill"
  /\ \E K \in SUBSET listed : "codex" \in K /\ tree' = Terminated(K)
  /\ Goto("reap")
  /\ UNCHANGED <<kind, handle, above, code, record, result, listed>>

\* It ends what it listed and says so, or a part of it and says that.
Kill ==
  /\ pc = "kill"
  /\ \E K \in SUBSET listed :
       /\ tree' = Terminated(K)
       /\ IF K = listed THEN Goto("reap") /\ UNCHANGED handle ELSE CleanedUp(FALSE)
  /\ UNCHANGED <<kind, above, code, record, result, listed>>

\* process.wait: codex is gone and has a return code, or the wait fails.
Reap ==
  /\ pc = "reap"
  /\ \E cleanup \in BOOLEAN :
       /\ cleanup => ~Running("codex")
       /\ code' = IF cleanup /\ code = "none" THEN "nonzero" ELSE code
       /\ Return(Transport(FALSE, cleanup, IF cleanup THEN code' ELSE "none", TRUE, cleanup),
                 TechnicalFailure(FALSE))
  /\ UNCHANGED <<kind, tree, above, record, result, listed>>

Host == \/ Preflight \/ LaunchFails \/ Spawn \/ Assign \/ Communicate \/ GiveUp
        \/ List \/ ListFails \/ Kill \/ Reap

Interrupt == InterruptLaunch \/ InterruptOutside

-----------------------------------------------------------------------------
(* Codex and what it starts. *)

Starts(p, q) ==
  /\ Running(p) /\ tree[q] = "absent"
  /\ tree' = [tree EXCEPT ![q] = "running"]
  /\ above' = [above EXCEPT ![q] = above[p] \cup {p}]
  /\ UNCHANGED <<kind, pc, host, code, record, result, listed>>

StartHelper == \E p \in Live \ {"scrubber"}, h \in Helpers : Starts(p, h)
StartScrubber == kind = "check" /\ Starts("codex", "scrubber")
StartCheck == record = "empty" /\ Starts("scrubber", "check")

Becomes(p, s) == tree' = [tree EXCEPT ![p] = s]

EndHelper ==
  /\ \E h \in Helpers : Running(h) /\ Becomes(h, "ended")
  /\ UNCHANGED <<kind, pc, host, above, code, record, result, listed>>

\* Codex ends; it may have written something of its own.
EndCodex ==
  /\ Running("codex")
  /\ Becomes("codex", "ended")
  /\ code' \in Codes
  /\ record' \in {record, "noise"}
  /\ UNCHANGED <<kind, pc, host, above, result, listed>>

EndCheck ==
  /\ Running("check")
  /\ Becomes("check", "ended")
  /\ result' \in Codes
  /\ UNCHANGED <<kind, pc, host, above, code, record, listed>>

\* Mutation: the scrubber reports a check that it started as satisfied.
ReportsStarted ==
  /\ Running("scrubber") /\ tree["check"] \in {"running", "ended"}
  /\ record' = IF record = "empty" THEN "zero" ELSE "noise"
  /\ Becomes("scrubber", "ended")
  /\ UNCHANGED <<kind, pc, host, above, code, result, listed>>

\* The scrubber writes what the check ended with.
ReportCheck ==
  /\ Running("scrubber") /\ tree["check"] = "ended"
  /\ record' = IF record = "empty" THEN result ELSE "noise"
  /\ Becomes("scrubber", "ended")
  /\ UNCHANGED <<kind, pc, host, above, code, result, listed>>

\* It refuses its arguments, or subprocess.run raises and has killed the check.
ReportTechnicalFailure ==
  /\ Running("scrubber")
  /\ record' = IF record = "empty" THEN "technical" ELSE "noise"
  /\ tree' = [tree EXCEPT !["scrubber"] = "ended",
                          !["check"] = IF @ = "running" THEN "killed" ELSE @]
  /\ UNCHANGED <<kind, pc, host, above, code, result, listed>>

Tree == \/ StartHelper \/ StartScrubber \/ StartCheck
        \/ EndHelper \/ EndCodex \/ EndCheck \/ ReportCheck \/ ReportTechnicalFailure

Next == Host \/ Interrupt \/ Tree

Spec == Init /\ [][Next]_vars

\* HOST goes on and its timeouts expire; nothing is assumed of the processes.
FairSpec == Spec /\ WF_vars(Host)
-----------------------------------------------------------------------------
(* Properties. *)

Completion == [reliable : BOOLEAN, returncode : Codes \cup {"none"}, technical : BOOLEAN]

ProcessCompletion ==
  [terminated : BOOLEAN, completion_reliable : BOOLEAN, returncode : Codes \cup {"none"},
   technical_failure : BOOLEAN, cleanup_confirmed : BOOLEAN]

\* Type correctness of the call, of the tree and of the completions.
TypeOK ==
  /\ kind \in Kinds
  /\ pc \in {"preflight", "launch", "assign", "wait", "list", "kill", "reap", "done"}
  /\ handle \in BOOLEAN
  /\ tree \in [Procs -> {"absent", "running", "ended", "killed"}]
  /\ above \in [Procs -> SUBSET Procs]
  /\ code \in Codes \cup {"none"} /\ result \in Codes \cup {"none"}
  /\ record \in Codes \cup {"empty", "technical", "noise"}
  /\ listed \subseteq Procs
  /\ transport \in {None} \cup ProcessCompletion
  /\ answer \in {None} \cup Completion

\* A process that HOST cannot see: one of those that started it has ended by
\* itself, or taskkill had made its list when it was started.
Lost(p) == \/ \E a \in above[p] : tree[a] = "ended"
           \/ listed # {} /\ p \notin listed

Reliable == answer # None /\ answer.reliable
Confirmed == transport # None /\ transport.cleanup_confirmed

\* "Executor attests its contained attempt has terminated reliably"
\* (runtime_worker.py:248): under a reliable completion codex, scrubber and
\* check are over, and under a confirmed clean-up as well as a reliable
\* completion nothing else runs but what the system's process tree no longer
\* shows; whether the timeout expired while codex was ending, taskkill ended a
\* part of the tree, or an interrupt came before there was a handle.
AttestedIsOver ==
  /\ Reliable => Live \cap {"codex", "scrubber", "check"} = {}
  /\ Reliable \/ Confirmed => \A p \in Live : Lost(p)

\* A check has a result only if the check itself ended with it, whatever codex
\* and the scrubber did; a worker is reliable only if codex ended by itself,
\* with success, and was not killed (codex_check_executor.py:313-332,
\* codex_worker_executor.py:238-244).
ResultIsTheChecks ==
  Reliable =>
    IF kind = "check" THEN answer.technical \/ answer.returncode = result
    ELSE tree["codex"] = "ended" /\ code = "zero"

\* "bounded synchronous lifecycle and cleanup" (docs/WORK_QUEUE.md:35): a call
\* ends even if codex never does and taskkill fails.
EveryCallEnds == <>(pc = "done")
=============================================================================
