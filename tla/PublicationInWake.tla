--------------------------- MODULE PublicationInWake ---------------------------
(***************************************************************************)
(* The publication as the wake sees it.  RuntimeWake composes its parts    *)
(* from a few abstract steps each; this module says which abstract state   *)
(* every state of RuntimePublication stands for, so that the publication's *)
(* own steps can be compared with those that stand for it in the wake.     *)
(*                                                                         *)
(* The wake keeps, instead of contents, whose they are: its own, or also   *)
(* somebody else's.  It has no other users of the checkout and the remote  *)
(* branch, so the comparison is of publications that are left alone.       *)
(***************************************************************************)
EXTENDS RuntimePublication

This == "this"      \* the wake that publishes
Unit == "unit"      \* its checkpoint
Others == "others"  \* whoever else has changed something

OfThis(value) == [w \in {This} |-> value]
OfUnit(value) == [c \in {Unit} |-> value]

Owners(exact) == IF exact THEN {This} ELSE {This, Others}

WakePc ==
  CASE pc = "done"                                  -> "release"
    [] \/ pc \in {"create_pr", "verify_pr"}
       \/ pc = "verify_remote" /\ "push" \in effects -> "verify"
    [] OTHER                                        -> IF head = Base THEN "publish" ELSE "push"

\* WakeEvidence, while the publication runs and when its result is known.
Evidence ==
  [outcome |-> result.outcome, worker_attempts |-> 1, finalizer_status |-> "NO_FINALIZATION",
   worker_status |-> "VALIDATED", publication_status |-> result.status]

\* Whose changes are in the checkout, and whose commit is on the branch only.
WakeTree ==
  IF work = index /\ index = Top(head) /\ ~stray THEN {}
  ELSE Owners(work = Validated /\ ~stray)

WakeAhead == IF head = Base \/ "push" \in effects THEN {} ELSE Owners(Top(head) = Validated)

\* What was chosen and validated is forgotten when the result is known.
WakeUnit == IF pc = "done" THEN "nobody" ELSE Unit

WakePrint == IF pc = "done" THEN {} ELSE {This}

WakeState ==
  IF pc = "done" THEN "merged" ELSE IF mode = "NEW_WORK" THEN "ready" ELSE "published"

WakeStage ==
  IF mode = "EXISTING_WORK" \/ "pr" \in effects THEN "published"
  ELSE IF "push" \in effects THEN "pushed" ELSE "ready"

\* Something went wrong that need not have: a hook changed the commit, or the
\* publication failed although the worktree was still the validated one.
WakeFaults ==
  IF \/ head # Base /\ Top(head) # Validated
     \/ pc = "done" /\ result.status # "VERIFIED" /\ (head = Base => WakeTree = {This})
  THEN 1 ELSE 0

Wake == INSTANCE RuntimeWake WITH
  Wakes <- {This}, Checkpoints <- {Unit}, Nobody <- "nobody", Left <- Others, MaxFaults <- 1,
  pc      <- OfThis(WakePc),
  ev      <- OfThis(Evidence),
  state   <- OfThis(OfUnit(WakeState)),
  unit    <- OfThis(WakeUnit),
  print   <- OfThis(WakePrint),
  effects <- OfThis({"worker"} \cup IF "push" \in effects THEN {"pushed"} ELSE {}),
  holder  <- This,
  tree    <- WakeTree,
  ahead   <- OfUnit(WakeAhead),
  branch  <- Unit,
  stage   <- OfUnit(WakeStage),
  residue <- FALSE,
  faults  <- WakeFaults

\* As long as nobody else acts, every step of publish_validated_worker_work is
\* a step that stands for it in the wake, with the same outcome and status, the
\* same owner of what is left in checkout and branch, and the same durable
\* stage; or it changes none of them (runtime_wake.py:289-295).
ImplementsPublish ==
  [][foreign' = 0 => Wake!Publish(This) \/ UNCHANGED Wake!vars]_vars
=============================================================================
