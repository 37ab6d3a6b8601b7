---------------------------- MODULE MCRuntimeWake ----------------------------
(* Small instances of RuntimeWake for TLC. *)
EXTENDS RuntimeWake, TLC

\* A report is one caller's own and the last of its wake: a step of anybody else
\* does as well after it as before it, so TLC need not try both.
ReportsFirst == (\E w \in Wakes : pc[w] = "report") => \E w \in Wakes : Report(w)
=============================================================================
