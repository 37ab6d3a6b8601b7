--------------------------- MODULE MCRuntimeWorker ---------------------------
(* A small instance of RuntimeWorker for TLC: one request of every kind that   *)
(* is refused, and requests with no check, with one check that may do what it  *)
(* likes, and with two contained ones in every order of their kinds.           *)
EXTENDS WorkerInWake

CONSTANTS B1, C1

NewWork == [well_formed |-> TRUE, adapter |-> "open", ref_matches |-> TRUE,
            match |-> "none", same_checkpoint |-> TRUE, branch |-> B1, head |-> C1,
            permitted |-> {1}, checks |-> <<>>]
ExistingWork == [NewWork EXCEPT !.match = "unique"]

Refused == {[NewWork EXCEPT !.well_formed = FALSE], [NewWork EXCEPT !.ref_matches = FALSE],
            [NewWork EXCEPT !.match = "ambiguous"],
            [ExistingWork EXCEPT !.same_checkpoint = FALSE],
            [NewWork EXCEPT !.adapter = "none", !.checks = <<"focused">>]}

OneCheck  == {NewWork, [ExistingWork EXCEPT !.checks = <<"publication">>]}
TwoChecks == {[NewWork EXCEPT !.adapter = "contained", !.checks = c] :
                c \in {<<"publication", "focused">>, <<"focused", "focused">>}}

Cases == Refused \cup OneCheck \cup TwoChecks
=============================================================================
