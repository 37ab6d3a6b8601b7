-------------------------- MODULE MCCodexExecutors --------------------------
(* Small instances of CodexExecutors for TLC. *)
EXTENDS CodexExecutors, TLC
=============================================================================
