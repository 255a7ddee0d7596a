---------------------------- MODULE MCEvalBench -----------------------------
(***************************************************************************)
(* Instances of EvalBench for TLC: every rate up to 130, the smallest ones *)
(* that three threads of three sessions may divide included; two of the    *)
(* command lines for two threads are followed, with two sessions and with  *)
(* five executions for each token, and channels that are full with one     *)
(* time.                                                                   *)
(***************************************************************************)
EXTENDS EvalBench

UpTo130 == 1..130
UpTo3 == 1..3
TwoEngines == {"mysql", "http"}

TwoThreads ==
    {[r |-> 44, t |-> 2, c |-> 2, e |-> "mysql"], [r |-> 10, t |-> 2, c |-> 1, e |-> "http"]}

Unready == {"error", "fatal", "dial"}
=============================================================================
