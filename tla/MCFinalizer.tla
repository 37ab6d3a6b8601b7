----------------------------- MODULE MCFinalizer -----------------------------
(* Small instances of Finalizer for TLC. *)
EXTENDS Finalizer

Fine   == {[fact |-> "fine", candidates |-> <<"this">>]}
Others == {[fact |-> "human", candidates |-> <<"this">>],
           [fact |-> "fine", candidates |-> <<"this", "another">>]}

FineAndOthers == Fine \cup Others

Plain  == {[row |-> "review", ends |-> "lf"]}
Closed == {[row |-> "done", ends |-> "lf"]}

AllSources == Plain \cup Closed \cup {[row |-> "review", ends |-> "crlf"]}

\* Between two pre-passes nobody reads what the last one was given and has seen,
\* and no property speaks of it: TLC need not tell such states apart.
Told ==
  <<github, checkout, pc, local, result, foreign, faults, effects, moved,
    IF pc = "idle" THEN <<>> ELSE <<ctx, seen, approved, rewound>>>>
=============================================================================
