------------------------------ MODULE NginxCase ------------------------------
(***************************************************************************)
(* The nginx performance test: its seven steps, over the machines of       *)
(* CloudInstances and the agent of AgentDeployment, up to a result that    *)
(* says it passed.                                                         *)
(***************************************************************************)
EXTENDS AgentDeployment

VARIABLES
    control,    \* the case-control-status in redis
    hung        \* the call at pc never returns

vars == <<pc, control, hung, cloudVars, deployVars>>

Over == {"passed", "failed", "killed"}

Init ==
    /\ pc = "platform" /\ CloudInit /\ DeployInit
    /\ control = "running" /\ hung = FALSE

(* choose_platform and choose_agent answer None, or raise, when the        *)
(* configuration does not name one.                                        *)
ChoosePlatform == Try("platform", "run", "platform", {})
ChooseAgent == Try("agent", "deploy", "meta", {})

(* Step 4: neither answer is read.                                         *)
UploadTelegrafConf == Ignore("telegraf", "reload", "telegraf", {})
ReloadTelegrafConf == Ignore("reload", "nginx", "reloaded", {})

EnsureNginxRunning == Try("nginx", "traffic", "nginx", {})

(* create_http_traffic_action logs what wrk2 writes on stderr; its results *)
(* are redirected to a file, then empty.                                   *)
CreateTraffic ==
    IF Has({Names[2]}) THEN Ignore("traffic", "data", "traffic", {"nginx"})
    ELSE Go("traffic", "failed") /\ UNCHANGED deployVars

(* get_traffic_tool_data: an empty file is no error, a short one is.       *)
GetTrafficData ==
    IF "traffic" \in known THEN Try("data", "usage", "latency", {})
    ELSE (Go("data", "usage") /\ UNCHANGED deployVars) \/ Raises("data")

(* Without telegraf there is no sample to take the first of.               *)
GetProcessUsage == Try("usage", "vtap_name", "usage", {"telegraf", "reloaded"})

Measure ==
    \/ UploadTelegrafConf \/ ReloadTelegrafConf \/ EnsureNginxRunning
    \/ CreateTraffic \/ GetTrafficData \/ GetProcessUsage \/ GetVtapName \/ GetMaxUsage

(* The first call of each of the seven steps: step() comes before it, and  *)
(* waits there for as long as the case is to be paused.                    *)
Openings == {"platform", "agent", "start", "telegraf", "nginx", "usage", "find"}

Parked == pc \in Openings /\ control = "paused"

Script ==
    /\ ~Parked /\ ~hung
    /\ \/ CloudScript /\ UNCHANGED deployVars
       \/ (ChoosePlatform \/ ChooseAgent \/ Deploy \/ Configure \/ Measure) /\ UNCHANGED cloudVars
    /\ UNCHANGED <<control, hung>>

Pause ==
    /\ May("pause") /\ pc \notin Over
    /\ control = "running" /\ control' = "paused"
    /\ UNCHANGED <<pc, hung, cloudVars, deployVars>>

Continue ==
    /\ control = "paused" /\ control' = "running"
    /\ UNCHANGED <<pc, hung, cloudVars, deployVars>>

(* The waits for the exit status of a command, and the requests to the     *)
(* deepflow server and to influx, which are made without a timeout.        *)
Unlimited ==
    {"unzip", "install", "bind", "k8s", "configure",
     "vpc", "domain", "subdomain", "vtaps", "group", "vtap_name", "max_usage", "usage"}

Hangs ==
    /\ May("hang") /\ pc \in Unlimited /\ ~Parked
    /\ hung' = TRUE
    /\ UNCHANGED <<pc, control, cloudVars, deployVars>>

(* A cancel kills pytest wherever it is (Runner.interrupt).                *)
Killed ==
    /\ May("cancel") /\ pc \notin Over /\ pc' = "killed"
    /\ UNCHANGED <<control, hung, cloudVars, deployVars>>

Next ==
    \/ Script \/ Killed
    \/ Pause \/ Continue \/ Hangs
    \/ Provider /\ UNCHANGED <<pc, control, hung, deployVars>>
    \/ Server /\ UNCHANGED <<control, hung, cloudVars>>

Spec == Init /\ [][Next]_vars

(* The script goes on unless it is parked or its call hangs, and the       *)
(* provider does what it was asked for.  Nothing is assumed of the         *)
(* deepflow server, nor of who pauses and continues the case.              *)
FairSpec ==
    /\ Spec /\ WF_vars(Script)
    /\ WF_vars(Provider /\ UNCHANGED <<pc, control, hung, deployVars>>)

-----------------------------------------------------------------------------
TypeOK ==
    CloudTypeOK /\ DeployTypeOK /\ control \in {"running", "paused"} /\ hung \in BOOLEAN

(* A test that passed has measured an agent that was deployed, known to    *)
(* its server and configured by it: a failure that a step only logs, a     *)
(* port or an id that is None, stops a later step.                         *)
PassedIsReal ==
    pc = "passed" => Has({"control_port", "query_port", "installed", "bound", "running",
                          "registered", "lcuuid", "analyzer", "configured", "usage",
                          "metrics"})

(* Nobody reads what _await_instances_status answers, and a name that is   *)
(* not found is passed over.  Yet these are the only signs that deleting   *)
(* goes wrong: where the provider refuses to stop or to delete, or a test  *)
(* passes and leaves a machine behind, a wait has answered false or an     *)
(* answer of the provider has left a machine out, at whichever of the      *)
(* waits of all the machines that was, and however late the machines are.  *)
RefusalsAreForetold ==
    refused \/ (pc = "passed" /\ \E n \in Instances : vm[n] # "none") => warned \/ omitted

(* The calls of the script that may still come, for the machine it is at.  *)
ToGo ==
    [passed |-> 0, failed |-> 0, killed |-> 0, delete |-> 1, halt |-> 2,
     find |-> 3, max_usage |-> 4, vtap_name |-> 5, usage |-> 6, data |-> 7,
     traffic |-> 8, nginx |-> 9, reload |-> 10, telegraf |-> 11,
     configure |-> 12, group |-> 13, config_file |-> 14, analyzer |-> 15,
     vtaps |-> 16, start |-> 17, bind |-> 18, install |-> 19, unzip |-> 20,
     system |-> 21, helm |-> 22, subdomain |-> 23, domain |-> 24, vpc |-> 25,
     upload_yaml |-> 26, k8s |-> 27, type |-> 28, query_port |-> 29,
     deploy |-> 30, agent |-> 31, describe |-> 32, settle |-> 33, run |-> 34,
     platform |-> 35]

(* The script is nearer to its end: at the next machine, at a later call,  *)
(* or at a later try of the same call.                                     *)
Nearer ==
    \/ creating' > creating
    \/ creating' = creating /\ ToGo[pc'] < ToGo[pc]
    \/ creating' = creating /\ pc' = pc /\ polls' + tries' > polls + tries

(* No step of the script is taken in vain: it never goes back, no loop is  *)
(* entered anew, and nothing that others do sets it back.  With machines,  *)
(* polls and tries bounded it is over after finitely many steps.           *)
EveryStepCounts ==
    [][IF Script \/ Killed THEN Nearer ELSE UNCHANGED <<pc, creating, polls, tries>>]_vars

(* Whatever the servers answer, the test comes to an end, unless one of    *)
(* its calls without a time limit never returns, or it is found paused at  *)
(* a step again and again: the script adds no endless wait of its own.     *)
TestEnds == <>(pc \in Over) \/ <>[]hung \/ []<>Parked
==============================================================================
