------------------------ MODULE FinalizerEligibility ------------------------
(***************************************************************************)
(* validate_finalizer_eligibility of finalizer_eligibility.py, and         *)
(* discover_existing_work of existing_work.py: pure operators on a target  *)
(* and the facts observed about it.                                        *)
(***************************************************************************)
EXTENDS Naturals, Sequences

\* Active observations of the checkpoint and their cardinality.
ActiveWork(observed) == SelectSeq(observed, LAMBDA w : w.active)

WorkMatch(observed) ==
  LET n == Len(ActiveWork(observed))
  IN  CASE n = 0 -> "NONE" [] n = 1 -> "UNIQUE" [] OTHER -> "AMBIGUOUS"

\* _validate_existing_work.
WorkViolations(target, o) ==
  CASE WorkMatch(o.work) = "NONE" -> {"EXISTING_WORK_NONE"}
    [] WorkMatch(o.work) = "AMBIGUOUS" -> {"EXISTING_WORK_AMBIGUOUS"}
    [] OTHER -> LET w == ActiveWork(o.work)[1]
                IN  IF w.pr = target.pr /\ w.head = o.head
                    THEN {} ELSE {"EXISTING_WORK_INCONSISTENT"}

\* _validate_supervisor_decision, of decisions on the substantive head.
DecisionViolations(o) ==
  CASE o.decisions.match = "NONE" -> {"SUPERVISOR_DECISION_NONE"}
    [] o.decisions.match = "AMBIGUOUS" -> {"SUPERVISOR_DECISION_AMBIGUOUS"}
    [] OTHER -> IF o.decisions.kinds = {"APPROVED"}
                THEN {} ELSE {"SUPERVISOR_DECISION_NOT_APPROVED"}

\* _has_compatible_current_head.
CompatibleHead(target, o) ==
  \/ /\ o.state \in {"AI_REVIEW", "DONE"}
     /\ o.relationship = "SUBSTANTIVE_HEAD" /\ o.head = target.head
  \/ /\ o.state = "DONE"
     /\ o.relationship = "VALID_ALLOWLISTED_CLOSURE" /\ o.head # target.head

\* Everything that makes a unit ineligible.
Violations(target, o) ==
  WorkViolations(target, o) \cup DecisionViolations(o)
  \cup {v \in {"GATE_NOT_AI"} : o.gate # "AI"}
  \cup {v \in {"CHECKPOINT_STATE_NOT_FINALIZABLE"} : o.state \notin {"AI_REVIEW", "DONE"}}
  \cup {v \in {"APPROVAL_INVALIDATED"} : o.invalidated}
  \cup {v \in {"LATER_SUBSTANTIVE_CHANGE"} : o.changed}
  \cup {v \in {"CHECKS_NOT_SATISFIED"} : ~o.checks}
  \cup {v \in {"NOT_MERGEABLE"} : ~o.mergeable}
  \cup {v \in {"HUMAN_RESERVED_CONDITION"} : o.human}
  \cup {v \in {"NON_DESTRUCTIVE_PRECONDITION_UNSATISFIED"} : ~o.safe}
  \cup {v \in {"CURRENT_HEAD_RELATIONSHIP_INCOMPATIBLE"} : ~CompatibleHead(target, o)}

\* Mutation: an approved head is merged whether its row is closed or not.
PathIgnoringState(target, o) ==
  IF Violations(target, o) # {} THEN "INELIGIBLE" ELSE "PROTECTED_MERGE"

\* The only path that the facts open.
Path(target, o) ==
  CASE Violations(target, o) # {} -> "INELIGIBLE"
    [] o.state = "AI_REVIEW" -> "CLOSURE_REQUIRED"
    [] OTHER -> "PROTECTED_MERGE"
=============================================================================
