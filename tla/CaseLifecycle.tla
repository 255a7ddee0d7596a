--------------------------- MODULE CaseLifecycle ---------------------------
(***************************************************************************)
(* The life of one evaluation case: the controller (ControllerRunner) and  *)
(* the evaluation-runner in its pod (EvalRunner), which interact through   *)
(* redis and Kubernetes (RunnerEnv) and through the result upload.         *)
(***************************************************************************)
EXTENDS ControllerRunner, EvalRunner

vars == <<envVars, ctlVars, evalVars>>

Init == EnvInit /\ CtlInit /\ EvalInit

(* A pod takes longer to start than exec_env takes from helm install to    *)
(* init_runner_info, unless "earlyboot" is considered.                     *)
BootInTime == pod = "created" /\ pc["runner"] = "init" => May("earlyboot")

(* A day after init_runner_info redis drops the hash.  By then the monitor *)
(* has long been waiting for the case to acknowledge its cancel, which a   *)
(* live eval-runner or worker would have done (they read redis every five  *)
(* and twenty seconds); only a monitor that did not come to this case      *)
(* leaves more open.                                                       *)
Silent ==
    /\ rpc \in {"exited", "crashed", "gone"}
    /\ \A w \in Workers : test[w] \in {"none", "ended", "killed"}

HashExpires ==
    /\ May("expire") /\ expired /\ info.ttl
    /\ (pc["monitor"] = "sync" /\ Silent) \/ May("starved")
    /\ DeleteRunnerInfo
    /\ UNCHANGED <<pod, ctlVars, evalVars>>

Next ==
    \/ HashExpires
    \/ CtlNext /\ UNCHANGED evalVars
    \/ PodStarts /\ BootInTime /\ UNCHANGED ctlVars
    \/ Process /\ UNCHANGED ctlVars
    \/ EvalCrashes /\ UNCHANGED ctlVars
    \/ \E w \in Workers : Worker(w) /\ UNCHANGED ctlVars
    \/ (PodGone \/ PodFails) /\ UNCHANGED ctlVars

Spec == Init /\ [][Next]_vars

(* Every thread and process that can take a step takes one: they are       *)
(* polling loops over sleeps.  Kubernetes starts and removes pods; clocks  *)
(* advance.  Nothing is assumed of clients, nor of the perturbations other *)
(* than time.                                                              *)
Fairness ==
    /\ WF_vars(MessageLoop /\ UNCHANGED evalVars)
    /\ WF_vars(RunnerThread /\ UNCHANGED evalVars)
    /\ WF_vars(MonitorThread /\ UNCHANGED evalVars)
    /\ WF_vars(Expire /\ UNCHANGED evalVars) /\ WF_vars(HashExpires)
    /\ WF_vars(PodStarts /\ BootInTime /\ UNCHANGED ctlVars)
    /\ WF_vars(Process /\ UNCHANGED ctlVars)
    /\ \A w \in Workers : WF_vars(Worker(w) /\ UNCHANGED ctlVars)
    /\ WF_vars(PodGone /\ UNCHANGED ctlVars)

FairSpec == Spec /\ Fairness

-----------------------------------------------------------------------------
(* The variables of the three modules have their types.                    *)
TypeOK == EnvTypeOK /\ CtlTypeOK /\ EvalTypeOK

(* The controller builds a report and calls a case finished (Runner.run    *)
(* after wait) only when the evaluation-runner is done with uploading its  *)
(* results, whatever goes wrong: "completed" in redis is never set early,  *)
(* nor left over.                                                          *)
CollectAfterUpload ==
    pc["runner"] \in {"stopping", "collect", "finish"} => upload # "none"

(* A record that says PAUSED tells the truth: redis still holds the pause, *)
(* so that a resume has something to undo, and no test is in the body of a *)
(* step (Runner.pause, step()).  A case whose Runner died is left aside.   *)
PausedIsParked ==
    record = "PAUSED" /\ Alive =>
        /\ info.control \in {"paused", "absent"}
        /\ \A w \in Workers : test[w] # "body"

(* A pod whose case has left the manager's queue is going away: remove_env *)
(* comes before the removal, and no install after it.                      *)
NoOrphanPod == pod \in {"created", "running"} => queued

(* The manager does not forget a Runner that runs: no command would find   *)
(* it, and nobody remove its pod.  Only one past its timeout is on its own.*)
RunnerIsKnown == Alive => queued \/ expired

(* What clients see of the record follows CaseStatus.                      *)
Phase == CASE pc["runner"] \in {"none", "unstarted", "start"} -> "new"
           [] pc["runner"] \in {"collect", "finish"}          -> "collecting"
           [] pc["runner"] \in {"exited", "raised", "down"}   -> "over"
           [] OTHER                                           -> "serving"

Status == INSTANCE CaseStatus WITH status <- record, phase <- Phase

ImplementsStatus == Status!StatusSpec

-----------------------------------------------------------------------------
(* The manager gets rid of every case: its monitor removes a Runner that   *)
(* has died, and one that lasts too long; a runner that will not answer is *)
(* survived because redis forgets it (the TTL of init_runner_info).        *)
QueueDrains == <>[]~queued

(* A case that nothing disturbs ends, unless its last pause is never       *)
(* resumed.                                                                *)
CaseEnds == <>[](record \in {"FINISHED", "ERROR"}) \/ <>[](record = "PAUSED")

(* wait_case_sync returns from a pause and from a resume, however the test *)
(* is placed when the control status changes.                              *)
SyncReturns ==
    (pc["runner"] = "sync" /\ cmd \in {"pause", "resume"}) ~> (pc["runner"] # "sync")

-----------------------------------------------------------------------------
(* Claims of the code and its documents that the code does not live up to. *)

(* signal() sets and gets the callback "thread-safely" (runner.py:48):     *)
(* wait() empties the slot of the command it executed, not of another.     *)
OnlyExecutedIsCleared ==
    [][callback # "none" /\ callback' = "none" /\ pc'["runner"] # "down"
         => callback = cmd]_vars
=============================================================================
