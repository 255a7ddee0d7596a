----------------------------- MODULE CaseStatus -----------------------------
(***************************************************************************)
(* What a client that polls GET /v1/evaluation/auto-test may see of one    *)
(* case: the statuses of its record, and how the service moves between     *)
(* them.  Runner.run, Runner.wait and the three commands are the source of *)
(* the transitions; pods, redis and threads are left to CaseLifecycle,     *)
(* which implements this specification.                                    *)
(***************************************************************************)
VARIABLES
    status,   \* CaseRecord.status
    phase     \* "new", "serving" (until wait() returns), "collecting", "over"

caseVars == <<status, phase>>

StatusInit == status = "INIT" /\ phase = "new"

(* The service takes the case up.                                          *)
Begin ==
    /\ phase = "new" /\ phase' = "serving"
    /\ status' = "STARTING"

(* The runner's pod is seen running, or is not seen any more.              *)
SeePod ==
    /\ phase = "serving" /\ UNCHANGED phase
    /\ status' \in {"STARTED", "PENDING"}

(* A command is taken up, ...                                              *)
Obey ==
    /\ phase = "serving" /\ UNCHANGED phase
    /\ status' \in {"PAUSING", "STOPPING", "STARTING"}

(* ... and acknowledged: a completed status follows its own progressive.   *)
Acknowledge ==
    /\ phase = "serving" /\ UNCHANGED phase
    /\ <<status, status'>> \in {<<"PAUSING", "PAUSED">>, <<"STOPPING", "FINISHED">>,
                                <<"STARTING", "STARTED">>}

(* The results are being collected, and are collected.                     *)
Stop ==
    /\ phase = "serving" /\ phase' = "collecting"
    /\ status' = "STOPPING"

Deliver ==
    /\ phase = "collecting" /\ phase' = "over"
    /\ status = "STOPPING" /\ status' = "FINISHED"

(* The pod has been missing for too long: only a case that is not running  *)
(* becomes an error.                                                       *)
Fail ==
    /\ phase = "serving" /\ phase' = "over"
    /\ status \in {"STARTING", "PENDING"} /\ status' = "ERROR"

(* The service loses the case, and its record stays as it is ...           *)
Lose ==
    /\ phase' = "over"
    /\ UNCHANGED status

(* ... or is marked when the service starts again.                         *)
Mark ==
    /\ phase' = "over"
    /\ status \notin {"FINISHED", "ERROR", "EXCEPTION"} /\ status' = "EXCEPTION"

StatusNext ==
    \/ Begin \/ SeePod \/ Obey \/ Acknowledge
    \/ Stop \/ Deliver \/ Fail \/ Lose \/ Mark

StatusSpec == StatusInit /\ [][StatusNext]_caseVars
=============================================================================
