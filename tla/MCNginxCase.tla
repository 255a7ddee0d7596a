---------------------------- MODULE MCNginxCase ----------------------------
(***************************************************************************)
(* Instances of NginxCase for TLC: its two machines; three polls and two   *)
(* tries, so that a loop can succeed at once, late, at the very end and    *)
(* never.                                                                  *)
(***************************************************************************)
EXTENDS NginxCase

TwoMachines == <<"agent", "wrk">>

Everything == {"cloud", "slow", "lookup", "fault", "hang", "pause", "cancel"}
============================================================================
