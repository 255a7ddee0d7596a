--------------------------- MODULE MCAutoTestApi ----------------------------
(***************************************************************************)
(* An instance of AutoTestApi for TLC: two clients at once, two cases of   *)
(* which one may be served, and the routes repaired so that there is       *)
(* something to serve.                                                     *)
(***************************************************************************)
EXTENDS AutoTestApi

Where == {"where"}

PauseResume == {"pause", "resume"}
=============================================================================
