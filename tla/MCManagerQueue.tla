--------------------------- MODULE MCManagerQueue ---------------------------
(***************************************************************************)
(* An instance of ManagerQueue for TLC: two Runners, so that a removal     *)
(* makes an iterator skip one, and one that troubles the monitor may be    *)
(* before or behind one that has ended.                                    *)
(***************************************************************************)
EXTENDS ManagerQueue

Disturbed == {"raise", "old", "deaf", "forget"}
=============================================================================
