----------------------- MODULE MCRepositoryInvocation -----------------------
(* Small instances of RepositoryInvocation for TLC. *)
EXTENDS RepositoryInvocation, TLC

\* Every operating-system failure that the code handles.
AllFaults == {"mkdir", "lstat", "contents"}
NoFaults == {}

\* Invocations and identities are interchangeable in the invariants.
Interchangeable == Permutations(Invocations) \cup Permutations(Inodes)

\* What an invocation's remaining steps, everybody else's and the properties
\* still read of it: nothing of one that has left no report, the report of one
\* that has, and (with FreshInodes = FALSE) an identity until its release.
Remembered ==
  <<pc, entry, activity,
    [p \in Invocations |->
       CASE pc[p] \in {"raised", "dead"} -> <<>>
         [] pc[p] = "reported"          -> <<ev[p], supplied[p]>>
         [] OTHER -> <<ev[p], supplied[p], identity[p], p \in escaping>>]>>
=============================================================================
