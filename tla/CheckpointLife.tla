--------------------------- MODULE CheckpointLife ---------------------------
(***************************************************************************)
(* What the wakes of one repository promise together, without lock, stages *)
(* and reports: at most one worker runs at any time, and only for the one  *)
(* checkpoint that was chosen; durable state changes only while none does; *)
(* and every checkpoint goes from ready to merged without ever being       *)
(* chosen again once it is closed.                                         *)
(***************************************************************************)
EXTENDS Naturals

CONSTANT Checkpoints

VARIABLES stage,    \* durable stage of each checkpoint
          workers,  \* how many workers run
          directed  \* the checkpoint that is worked on, if any

vars == <<stage, workers, directed>>

Stages == {"ready", "pushed", "published", "approved", "closed", "merged"}

Init == /\ stage = [c \in Checkpoints |-> "ready"]
        /\ workers = 0
        /\ directed = {}

Direct(c) == /\ workers = 0 /\ directed = {}
             /\ stage[c] \notin {"closed", "merged"}
             /\ directed' = {c}
             /\ UNCHANGED <<stage, workers>>

Begin == /\ workers = 0 /\ directed # {}
         /\ workers' = 1
         /\ UNCHANGED <<stage, directed>>

\* The worker, or the wake that has chosen, ends.
End == /\ workers' \in {workers, 0} /\ directed' \in {directed, {}}
       /\ UNCHANGED stage

Move(c, from, to) == /\ stage[c] \in from
                     /\ stage' = [stage EXCEPT ![c] = to]
                     /\ UNCHANGED workers

\* By a wake, which ends if it cannot tell that it has published.
Publish(c) == /\ c \in directed /\ directed' \in {directed, {}}
              /\ \/ Move(c, {"ready"}, "pushed")
                 \/ Move(c, {"pushed", "published", "approved"}, "published")
Finalize(c) == /\ directed = {} /\ UNCHANGED directed
               /\ Move(c, {"approved"}, "closed") \/ Move(c, {"closed"}, "merged")

\* By the supervisor.
Judge(c) == /\ Move(c, {"published"}, "approved") \/ Move(c, {"approved"}, "published")
            /\ UNCHANGED directed

\* By the operator, who deletes branches nobody has opened a pull request for.
Drop == /\ stage' = [c \in Checkpoints |-> IF stage[c] = "pushed" THEN "ready" ELSE stage[c]]
        /\ UNCHANGED <<workers, directed>>

Next == \/ Begin \/ End \/ Drop
        \/ \E c \in Checkpoints : \/ Direct(c) \/ Judge(c)
                                  \/ workers = 0 /\ (Publish(c) \/ Finalize(c))

Spec == Init /\ [][Next]_vars
=============================================================================
