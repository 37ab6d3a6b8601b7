--------------------------- MODULE RepositoryMutex ---------------------------
(***************************************************************************)
(* What the repository-local envelope of runtime_invocation.py promises,   *)
(* without its files, exceptions or evidence: one holder at a time, only   *)
(* the holder runs its action, the repository is never handed on while the *)
(* action runs, and a clean verdict is given only to an invocation that no *)
(* longer holds anything.                                                  *)
(***************************************************************************)
CONSTANTS Invocations,  \* the invocations that may ever be made
          Nobody        \* the holder of a free repository

VARIABLES holder,       \* who owns the repository
          running,      \* the invocations whose action is running
          verdict       \* what the caller learns of each invocation

vars == <<holder, running, verdict>>

Verdicts == {"none", "clean", "unclean"}

Init == /\ holder = Nobody
        /\ running = {}
        /\ verdict = [p \in Invocations |-> "none"]

Take(p) == /\ holder = Nobody
           /\ verdict[p] = "none"
           /\ holder' = p
           /\ UNCHANGED <<running, verdict>>

Begin(p) == /\ holder = p
            /\ verdict[p] = "none"
            /\ running' = running \cup {p}
            /\ UNCHANGED <<holder, verdict>>

End(p) == /\ p \in running
          /\ running' = running \ {p}
          /\ UNCHANGED <<holder, verdict>>

\* By the holder itself, or by external reconciliation of what it left behind.
Free == /\ holder # Nobody
        /\ holder \notin running
        /\ holder' = Nobody
        /\ UNCHANGED <<running, verdict>>

Settle(p) == /\ verdict[p] = "none"
             /\ p \notin running
             /\ holder # p
             /\ verdict' = [verdict EXCEPT ![p] = "clean"]
             /\ UNCHANGED <<holder, running>>

\* The only verdict that may leave the repository held.
Abort(p) == /\ verdict[p] = "none"
            /\ running' = running \ {p}
            /\ verdict' = [verdict EXCEPT ![p] = "unclean"]
            /\ UNCHANGED holder

Next == \/ Free
        \/ \E p \in Invocations : \/ Take(p) \/ Begin(p) \/ End(p)
                                  \/ Settle(p) \/ Abort(p)

Spec == Init /\ [][Next]_vars
=============================================================================
