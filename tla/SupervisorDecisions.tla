------------------------- MODULE SupervisorDecisions -------------------------
(***************************************************************************)
(* The decisions of the AI supervisor, as runtime_durable_state.py reads   *)
(* them out of the comments of a pull request and supervisor_decisions.py  *)
(* selects them: pure operators on a sequence of observed comments, in the *)
(* order in which the pages were read.                                     *)
(***************************************************************************)
EXTENDS Naturals, FiniteSets, Sequences

Kinds == {"APPROVED", "AI_REWORK", "HUMAN_REQUIRED"}

\* A comment body, as far as parse_decision tells bodies apart: the marker of
\* its first line, whether another marker follows, the heads that well-formed
\* binding lines name and whether a binding line is malformed.
Decision(kind, head) ==
  [marker |-> kind, again |-> FALSE, bound |-> {head}, garbled |-> FALSE]

\* A marker with a binding line that no pattern accepts.
Garbled(kind) ==
  [marker |-> kind, again |-> FALSE, bound |-> {}, garbled |-> TRUE]

IsDecision(c) ==
  /\ c.body.marker \in Kinds /\ ~c.body.again /\ ~c.body.garbled
  /\ \E h \in c.body.bound : c.body.bound = {h}

\* Indexes of the decisions on a head.
Applicable(cs, h) == {i \in DOMAIN cs : IsDecision(cs[i]) /\ h \in cs[i].body.bound}

\* Durable chronology: (created_at, comment_id).
Earlier(c, d) == c.at < d.at \/ (c.at = d.at /\ c.id < d.id)

\* The same identity twice; equal chronology keys include it.
Ambiguous(cs, h) ==
  \E i, j \in Applicable(cs, h) : i # j /\ cs[i].id = cs[j].id

\* Mutation: the last one read is the current one.
CurrentIsLastRead(cs, h) ==
  {i \in Applicable(cs, h) : \A j \in Applicable(cs, h) : j <= i}

\* _reconcile_decisions: the latest, or every one of an ambiguous group.
Current(cs, h) ==
  {i \in Applicable(cs, h) :
     Ambiguous(cs, h) \/ \A j \in Applicable(cs, h) : ~Earlier(cs[i], cs[j])}

\* discover_supervisor_decisions: cardinality, and the kind if it is unique.
Discover(cs, h) ==
  LET now == Current(cs, h)
  IN  [match |-> CASE now = {} -> "NONE"
                   [] \E i \in now : now = {i} -> "UNIQUE"
                   [] OTHER -> "AMBIGUOUS",
       kinds |-> {cs[i].body.marker : i \in now}]

\* Mutation: any earlier objection counts as a later one.
AnyInvalidating(cs, h) ==
  \E i \in Applicable(cs, h) : cs[i].body.marker \in {"AI_REWORK", "HUMAN_REQUIRED"}

\* adapt_durable_state: the current decision revokes an earlier approval.
LaterInvalidating(cs, h) ==
  /\ Discover(cs, h).match = "UNIQUE"
  /\ Discover(cs, h).kinds \subseteq {"AI_REWORK", "HUMAN_REQUIRED"}
  /\ \E i \in Applicable(cs, h), j \in Applicable(cs, h) :
       Earlier(cs[i], cs[j]) /\ cs[i].body.marker = "APPROVED"
=============================================================================
