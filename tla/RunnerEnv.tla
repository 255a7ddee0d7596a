------------------------------ MODULE RunnerEnv ------------------------------
(***************************************************************************)
(* What the controller and one evaluation-runner share: the redis hash     *)
(* "runner-<uuid>" (eval-lib runner_info.py) and the Kubernetes pod of the *)
(* Helm release "runner-<uuid[:8]>".  Every call of RedisRunnerInfo is one *)
(* step: it runs under the global redis lock.  Only init_runner_info takes *)
(* no lock: it is two steps, an HMSET and an EXPIRE.                       *)
(*                                                                         *)
(* Perturbations names what the surroundings may do in a run:              *)
(*   io        ssh, file or redis calls of the controller raise            *)
(*   helm      "helm" prints on stderr, with or without installing         *)
(*   kubectl   "kubectl get pod" misses a pod that is running              *)
(*   earlyboot the pod starts before init_runner_info is called            *)
(*   earlystep a test makes a step before exec_pytest wrote the statuses   *)
(*   podfail   the pod is evicted or its node dies                         *)
(*   evalcrash the eval-runner process raises; its pod stays Running       *)
(*   orphan    killing the pytest shell does not kill its workers          *)
(*   upload    the result archive does not reach the controller            *)
(*   dbfail    an UPDATE of the case record fails (it is only logged)      *)
(*   restart   the controller is restarted                                 *)
(*   startrace the monitor scans between append and start of a Runner      *)
(*   expire    the case lasts beyond RUNNER_TIMEOUT, and redis's TTL       *)
(*   starved   the monitor is busy with another case until the TTL is over *)
(***************************************************************************)
CONSTANT Perturbations

AllPerturbations == {"io", "helm", "kubectl", "earlyboot", "earlystep", "podfail",
                     "evalcrash", "orphan", "upload", "dbfail", "restart", "startrace",
                     "expire", "starved"}

ASSUME PerturbationsAssumption == Perturbations \subseteq AllPerturbations

VARIABLES
    info,   \* the redis hash: its three status fields, and whether it has a TTL
    pod     \* the pod of the runner's Job

envVars == <<info, pod>>

May(p) == p \in Perturbations

(* redis/const.py; "absent" is a field (or a hash) that does not exist.    *)
Statuses == {"init", "running", "completed", "cancelled", "paused"}
Field == Statuses \cup {"absent"}

Pods == {"absent", "created", "running", "terminating", "failed", "completed"}

NoInfo == [control |-> "absent", case |-> "absent", runner |-> "absent", ttl |-> FALSE]

RunnerInfo == [control : Field, case : Field, runner : Field, ttl : BOOLEAN]

EnvTypeOK ==
    /\ info \in RunnerInfo
    /\ pod \in Pods

EnvInit ==
    /\ info = NoInfo
    /\ pod = "absent"

-----------------------------------------------------------------------------
(* RedisRunnerInfo                                                         *)

(* init_runner_info: HMSET overwrites whatever is there, but for its TTL.  *)
InitRunnerInfo ==
    info' = [control |-> "running", case |-> "init", runner |-> "init", ttl |-> info.ttl]

(* Mutant of ExpireRunnerInfo: it is forgotten.                            *)
NeverExpire == UNCHANGED info

(* EXPIRE gives the hash a TTL, and does nothing where there is none.      *)
ExpireRunnerInfo ==
    info' = IF info = NoInfo THEN info ELSE [info EXCEPT !.ttl = TRUE]

(* update_runner_info, on one field; HSET creates a missing hash, and one  *)
(* created so has no TTL.                                                  *)
UpdateCase(status) == info' = [info EXCEPT !.case = status]

UpdateRunner(status) == info' = [info EXCEPT !.runner = status]

(* pause_case, cancel_case, resume_case                                    *)
UpdateControl(status) == info' = [info EXCEPT !.control = status]

DeleteRunnerInfo == info' = NoInfo

(* The case acknowledged the control status, or it is over: the condition  *)
(* of wait_case_sync, whose subscripts need both fields.                   *)
HasStatuses == info.control # "absent" /\ info.case # "absent"
Synced == info.control = info.case \/ info.case = "completed"

-----------------------------------------------------------------------------
(* The pod                                                                 *)

PodIsUp == pod \in {"running", "terminating"}   \* its processes execute

(* helm install creates the Job; kubelet starts its pod later.             *)
HelmInstall == pod' = "created"

(* helm uninstall deletes the Job; a pod that runs gets its grace period.  *)
HelmUninstall == pod' = IF PodIsUp THEN "terminating" ELSE "absent"
=============================================================================
