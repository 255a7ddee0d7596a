--------------------------- MODULE AgentDeployment ---------------------------
(***************************************************************************)
(* The deployment of a deepflow agent on a machine of the test             *)
(* (deepflow_agent.py), with the calls of the deepflow server              *)
(* (deepflow_server.py) and the helpers of utils.py it needs.  "known" is  *)
(* what has come about: what the script has learnt, installed or           *)
(* configured, and what the server has done on its own.                    *)
(*                                                                         *)
(* Each call of the script is one of                                       *)
(*   Try       it fails the test when it fails                             *)
(*   Ignore    its result is only logged, unless the connection is lost    *)
(*   Retry     it is repeated MaxTries times; then it fails the test, or   *)
(*             answers None, with which the script goes on                 *)
(***************************************************************************)
EXTENDS CloudInstances

CONSTANT MaxTries   \* the retry counts, 15 to 100 in the code

ASSUME MaxTriesAssumption == MaxTries \in Nat \ {0}

VARIABLES known, tries

deployVars == <<known, tries>>

Facts == {"platform", "meta", "k8s", "control_port", "query_port", "system", "unzip",
          "installed", "bound", "ready", "yaml", "vpc", "domain", "cluster", "running",
          "registered", "lcuuid", "analyzer", "config", "group", "configured",
          "telegraf", "reloaded", "nginx", "traffic", "latency", "usage", "metrics"}

ASSUME FactsAssumption == Instances \cap Facts = {}

DeployTypeOK == known \subseteq Facts /\ tries \in 0..(MaxTries - 1)

DeployInit == known = {} /\ tries = 0

(* A machine that runs answers ssh.                                        *)
Has(facts) == facts \subseteq known \cup {n \in Instances : vm[n] = "running"}

Fails(needs) == ~Has(needs) \/ May("fault")

Machine == Names[1]     \* the one the agent is for

Try(here, there, fact, needs) ==
    /\ UNCHANGED tries
    /\ \/ Has(needs) /\ Go(here, there) /\ known' = known \cup {fact}
       \/ Fails(needs) /\ Go(here, "failed") /\ UNCHANGED known

(* A connection that is lost raises where nothing catches it.              *)
Raises(here) == May("fault") /\ Go(here, "failed") /\ UNCHANGED deployVars

Ignore(here, there, fact, needs) ==
    \/ /\ Go(here, there) /\ UNCHANGED tries
       /\ \/ Has(needs) /\ known' = known \cup {fact}
          \/ Fails(needs) /\ UNCHANGED known
    \/ Raises(here)

Retry(here, there, fact, needs, spent) ==
    \/ Has(needs) /\ Go(here, there) /\ known' = known \cup {fact} /\ tries' = 0
    \/ /\ Fails(needs) /\ UNCHANGED known
       /\ IF tries + 1 < MaxTries
          THEN Go(here, here) /\ tries' = tries + 1
          ELSE Go(here, spent) /\ tries' = 0

-----------------------------------------------------------------------------
(* deploy: DeepflowServer.init, then by agent_type                         *)

(* An empty answer is retried at once, without a sleep; a port that is not *)
(* found is None.  A call that raises is logged with its stderr, and       *)
(* reading that may raise again, where nothing catches it: at the first    *)
(* try there is none, at a later one its connection may be lost.           *)
GetPort(here, there, port) ==
    Retry(here, there, port, {}, there) \/ Raises(here)

GetControlPort == GetPort("deploy", "query_port", "control_port")
GetQueryPort == GetPort("query_port", "type", "query_port")

(* Of another type than k8s and workload nothing is deployed, and the      *)
(* script goes on; a configuration without a type raises.                  *)
ChooseType ==
    \/ Go("type", "k8s") /\ known' = known \cup {"k8s"} /\ UNCHANGED tries
    \/ (Go("type", "system") \/ Go("type", "start")) /\ UNCHANGED deployVars
    \/ Raises("type")

GetSystemInfo == Try("system", "unzip", "system", {Machine})

(* install_unzip says so when it fails; deploy_workload_agent finds out.   *)
InstallUnzip == Ignore("unzip", "install", "unzip", {})
InstallAgent == Try("install", "bind", "installed", {"unzip"})
BindServer == Try("bind", "start", "bound", {})

(* install_k8s ignores the exit status and waits for a Ready node.         *)
InstallK8s ==
    Retry("k8s", "upload_yaml", "ready", {Machine}, "failed") \/ Raises("k8s")
UploadYaml == Ignore("upload_yaml", "vpc", "yaml", {})
GetVpc == Retry("vpc", "domain", "vpc", {"control_port"}, "domain")
GetDomain == Retry("domain", "subdomain", "domain", {"control_port"}, "subdomain")

(* The server is asked for a subdomain of a vpc and a domain "None" if     *)
(* these were not found, and may refuse.                                   *)
AddSubdomain == Try("subdomain", "helm", "cluster", {"control_port"})

(* helm install starts the agent, too; without the uploaded values it      *)
(* fails.                                                                  *)
HelmInstallAgent ==
    /\ UNCHANGED tries
    /\ \/ /\ Has({"cluster", "yaml"}) /\ Go("helm", "start")
          /\ known' = known \cup {"installed", "bound", "running"}
       \/ Fails({"cluster", "yaml"}) /\ Go("helm", "failed") /\ UNCHANGED known

Deploy ==
    \/ GetControlPort \/ GetQueryPort \/ ChooseType
    \/ GetSystemInfo \/ InstallUnzip \/ InstallAgent \/ BindServer
    \/ InstallK8s \/ UploadYaml \/ GetVpc \/ GetDomain \/ AddSubdomain \/ HelmInstallAgent

-----------------------------------------------------------------------------
(* start, ensure_agent_status_available, configure_agent                   *)

(* start does nothing for k8s, and its answer is not read.                 *)
StartAgent ==
    \/ /\ "k8s" \in known
       /\ (Go("start", "vtaps") /\ UNCHANGED deployVars) \/ Raises("start")
    \/ "k8s" \notin known /\ Ignore("start", "vtaps", "running", {"installed"})

(* The server lists an agent that runs and knows it, and later assigns an  *)
(* analyzer to it.                                                         *)
Server ==
    /\ \/ Has({"running", "bound"}) /\ "registered" \notin known
          /\ known' = known \cup {"registered"}
       \/ Has({"registered"}) /\ "analyzer" \notin known /\ known' = known \cup {"analyzer"}
    /\ UNCHANGED <<pc, tries>>

(* Mutant of CheckVtaps: after the last try it answers None.               *)
CheckVtapsNone == Retry("vtaps", "analyzer", "lcuuid", {"control_port", "registered"}, "analyzer")

(* Mutant of CheckVtaps: after the last try the agent is started again.    *)
CheckVtapsAgain == Retry("vtaps", "analyzer", "lcuuid", {"control_port", "registered"}, "start")

CheckVtaps == Retry("vtaps", "analyzer", "lcuuid", {"control_port", "registered"}, "failed")

(* Mutant of CheckAnalyzer: the loop does not count its rounds.            *)
CheckAnalyzerForever ==
    \/ Retry("analyzer", "config_file", "analyzer", {"analyzer"}, "failed") /\ tries' = 0
    \/ "analyzer" \notin known /\ Go("analyzer", "analyzer") /\ UNCHANGED deployVars

CheckAnalyzer ==
    Retry("analyzer", "config_file", "analyzer", {"analyzer"}, "failed") \/ Raises("analyzer")

UploadConfig == Ignore("config_file", "group", "config", {})

CreateGroup == Try("group", "configure", "group", {"control_port"})

(* sed fails without the uploaded file, deepflow-ctl without the group.    *)
ConfigureAgent == Try("configure", "telegraf", "configured", {"config", "group"})

Configure ==
    StartAgent \/ CheckVtaps \/ CheckAnalyzer \/ UploadConfig \/ CreateGroup \/ ConfigureAgent

(* get_metric_data_by_agent: the agent's name, then two queries.           *)
GetVtapName == Try("vtap_name", "max_usage", "registered", {"control_port", "registered"})
GetMaxUsage == Try("max_usage", "find", "metrics", {"query_port"})
=============================================================================
