------------------------- MODULE MCRuntimePublication -------------------------
(* Small instances of RuntimePublication for TLC: three contents are enough to *)
(* tell the baseline, the validated content and anything else apart.          *)
EXTENDS PublicationInWake
=============================================================================
