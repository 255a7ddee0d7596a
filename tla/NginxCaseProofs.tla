--------------------------- MODULE NginxCaseProofs ---------------------------
(***************************************************************************)
(* Proofs about the nginx test, for any number of machines, polls and      *)
(* tries and whatever fails: a test that passes has measured an agent that *)
(* was deployed, registered and configured; what goes wrong in deleting    *)
(* its machines has shown before; and every step of a test brings it       *)
(* nearer to its end.                                                      *)
(***************************************************************************)
EXTENDS NginxCase, TLAPS

(* Where the script is once a step is behind it.                           *)
FromFind == {"find", "halt", "delete", "passed"}
FromVtapName == {"vtap_name", "max_usage"} \cup FromFind
FromTelegraf == {"telegraf", "reload", "nginx", "traffic", "data", "usage"} \cup FromVtapName
FromConfigFile == {"config_file", "group", "configure"} \cup FromTelegraf
FromAnalyzer == {"analyzer"} \cup FromConfigFile

(* What has come about by then, on the one path or the other; the server   *)
(* lists only an agent that runs and is bound to it.                       *)
Learnt ==
    /\ "running" \in known => "installed" \in known
    /\ "registered" \in known => {"running", "bound"} \subseteq known
    /\ pc \in FromAnalyzer => {"control_port", "registered", "lcuuid"} \subseteq known
    /\ pc \in FromConfigFile => "analyzer" \in known
    /\ pc \in FromTelegraf => "configured" \in known
    /\ pc \in FromVtapName => "usage" \in known
    /\ pc \in FromFind => {"query_port", "metrics"} \subseteq known

-----------------------------------------------------------------------------
(* A fact that a call needs has come about: no machine has its name.       *)
LEMMA HasIsKnown ==
  \A f \in Facts : \A needs : Has(needs) /\ f \in needs => f \in known
BY FactsAssumption DEF Has

(* A step of the script goes on only with what it needs, and what has come *)
(* about stays.                                                            *)
LEMMA StepLearnt == Learnt /\ [Next]_vars => Learnt'
<1> SUFFICES ASSUME Learnt, [Next]_vars PROVE Learnt'
  OBVIOUS
<1> USE DEF Learnt, FromFind, FromVtapName, FromTelegraf, FromConfigFile, FromAnalyzer,
            Go, deployVars, cloudVars
<1>1. /\ \A needs : Has(needs) /\ "control_port" \in needs => "control_port" \in known
      /\ \A needs : Has(needs) /\ "query_port" \in needs => "query_port" \in known
      /\ \A needs : Has(needs) /\ "running" \in needs => "running" \in known
      /\ \A needs : Has(needs) /\ "bound" \in needs => "bound" \in known
      /\ \A needs : Has(needs) /\ "registered" \in needs => "registered" \in known
      /\ \A needs : Has(needs) /\ "analyzer" \in needs => "analyzer" \in known
      /\ \A needs : Has(needs) /\ "installed" \in needs => "installed" \in known
  BY HasIsKnown, Zenon DEF Facts
<1>2. CASE \/ UNCHANGED vars \/ Killed \/ Pause \/ Continue \/ Hangs
           \/ Provider /\ UNCHANGED <<pc, control, hung, deployVars>>
  BY <1>2 DEF vars, Killed, Over, Pause, Continue, Hangs
<1>3. CASE Server
  BY <1>1, <1>3 DEF Server
<1>4. CASE GetControlPort \/ GetQueryPort
  BY <1>1, <1>4 DEF GetControlPort, GetQueryPort, GetPort, Retry, Raises
<1>5. CASE ChooseType
  BY <1>1, <1>5 DEF ChooseType, Raises
<1>6. CASE GetSystemInfo \/ InstallUnzip
  BY <1>1, <1>6 DEF GetSystemInfo, InstallUnzip, Try, Ignore, Raises
<1>7. CASE InstallAgent
  BY <1>1, <1>7 DEF InstallAgent, Try
<1>8. CASE BindServer
  BY <1>1, <1>8 DEF BindServer, Try
<1>9. CASE InstallK8s \/ UploadYaml
  BY <1>1, <1>9 DEF InstallK8s, UploadYaml, Retry, Ignore, Raises
<1>10. CASE GetVpc \/ GetDomain \/ AddSubdomain
  BY <1>1, <1>10 DEF GetVpc, GetDomain, AddSubdomain, Retry, Try
<1>11. CASE HelmInstallAgent
  BY <1>1, <1>11 DEF HelmInstallAgent
<1>12. CASE StartAgent
  BY <1>1, <1>12 DEF StartAgent, Ignore, Raises
<1>13. CASE CheckVtaps
  BY <1>1, <1>13 DEF CheckVtaps, Retry
<1>14. CASE CheckAnalyzer
  BY <1>1, <1>14 DEF CheckAnalyzer, Retry, Raises
<1>15. CASE UploadConfig
  BY <1>1, <1>15 DEF UploadConfig, Ignore, Raises
<1>16. CASE CreateGroup \/ ConfigureAgent
  BY <1>1, <1>16 DEF CreateGroup, ConfigureAgent, Try
<1>17. CASE ChoosePlatform \/ ChooseAgent
  BY <1>1, <1>17 DEF ChoosePlatform, ChooseAgent, Try
<1>18. CASE UploadTelegrafConf \/ ReloadTelegrafConf
  BY <1>1, <1>18 DEF UploadTelegrafConf, ReloadTelegrafConf, Ignore, Raises
<1>19. CASE EnsureNginxRunning \/ GetProcessUsage
  BY <1>1, <1>19 DEF EnsureNginxRunning, GetProcessUsage, Try
<1>20. CASE CreateTraffic
  BY <1>1, <1>20 DEF CreateTraffic, Ignore, Raises
<1>21. CASE GetTrafficData
  BY <1>1, <1>21 DEF GetTrafficData, Try, Raises
<1>22. CASE GetVtapName
  BY <1>1, <1>22 DEF GetVtapName, Try
<1>23. CASE GetMaxUsage
  BY <1>1, <1>23 DEF GetMaxUsage, Try
<1>24. CASE CloudScript /\ UNCHANGED deployVars
  BY <1>24 DEF CloudScript, RunInstances, Settle, Describe, StopInstances, Refuse, Halt, Await,
              Round, DeleteInstances, ApiRaises, CloudPcs
<1> QED
  BY <1>2, <1>3, <1>4, <1>5, <1>6, <1>7, <1>8, <1>9, <1>10, <1>11, <1>12, <1>13,
     <1>14, <1>15, <1>16, <1>17, <1>18, <1>19, <1>20, <1>21, <1>22, <1>23, <1>24
     DEF Next, Script, Deploy, Configure, Measure

(* Every fact that PassedIsReal names is known where the script passes: no *)
(* failure that a step only logs gets by all the steps that come later.    *)
THEOREM PassedTestsAreReal == Spec => []PassedIsReal
<1>1. Init => Learnt
  BY DEF Init, DeployInit, Learnt, FromFind, FromVtapName, FromTelegraf, FromConfigFile,
         FromAnalyzer
<1>2. Learnt => PassedIsReal
  <2> SUFFICES ASSUME Learnt, pc = "passed"
               PROVE  {"control_port", "query_port", "installed", "bound", "running",
                       "registered", "lcuuid", "analyzer", "configured", "usage",
                       "metrics"} \subseteq known
    BY DEF PassedIsReal, Has
  <2> QED
    BY DEF Learnt, FromFind, FromVtapName, FromTelegraf, FromConfigFile, FromAnalyzer
<1> QED
  BY <1>1, <1>2, StepLearnt, PTL DEF Spec

-----------------------------------------------------------------------------
LEMMA NamesAreInstances == Len(Names) \in Nat /\ \A i \in 1..Len(Names) : Names[i] \in Instances
<1>1. Names \in Seq(Instances)
  BY NamesAssumption DEF Instances
<1> QED
  BY <1>1

LEMMA InitTyped == Init => TypeOK
<1> SUFFICES ASSUME Init PROVE TypeOK
  OBVIOUS
<1>1. creating \in 1..Len(Names)
  BY NamesAssumption, NamesAreInstances DEF Init, CloudInit
<1>2. polls \in 0..(MaxPolls - 1) /\ tries \in 0..(MaxTries - 1)
  BY MaxPollsAssumption, MaxTriesAssumption DEF Init, CloudInit, DeployInit
<1>3. /\ vm \in [Instances -> {"none", "booting", "running", "stopping", "stopped"}]
      /\ ids \subseteq Instances /\ {warned, omitted, refused} \subseteq BOOLEAN
  BY DEF Init, CloudInit
<1>4. known \subseteq Facts /\ control \in {"running", "paused"} /\ hung \in BOOLEAN
  BY Zenon DEF Init, DeployInit
<1> QED
  BY <1>1, <1>2, <1>3, <1>4 DEF TypeOK, CloudTypeOK, DeployTypeOK

(* The wait for a status ends with its last poll.                          *)
LEMMA AwaitTyped ==
  ASSUME CloudTypeOK, NEW here, NEW there, NEW targets, NEW status,
         Await(here, there, targets, status)
  PROVE  CloudTypeOK'
<1>1. PICK listed \in Listings(targets) :
        LET reached == \A n \in listed : vm[n] = status
            time    == polls + 1
        IN  /\ IF reached \/ time = MaxPolls
               THEN polls' = 0 /\ warned' = (warned \/ time \notin 1..(MaxPolls - 1))
               ELSE polls' = time /\ warned' = warned
            /\ omitted' = (omitted \/ listed # targets)
            /\ UNCHANGED <<vm, creating, ids, refused>>
  BY DEF Await, Round
<1>2. polls' \in 0..(MaxPolls - 1)
  BY <1>1, MaxPollsAssumption DEF CloudTypeOK
<1>3. warned' \in BOOLEAN /\ omitted' \in BOOLEAN
  BY <1>1 DEF CloudTypeOK
<1> QED
  BY <1>1, <1>2, <1>3 DEF CloudTypeOK

LEMMA CloudTyped ==
  ASSUME CloudTypeOK, CloudScript \/ Provider
  PROVE  CloudTypeOK'
<1> USE NamesAreInstances DEF CloudTypeOK, Go, cloudVars
<1>1. CASE RunInstances
  <2>1. Name \in Instances
    BY DEF Name
  <2> QED
    BY <1>1, <2>1 DEF RunInstances
<1>2. CASE Settle \/ Halt
  BY <1>2, AwaitTyped DEF Settle, Halt
<1>3. CASE Describe
  BY <1>3 DEF Describe
<1>4. CASE StopInstances
  <2>1. ids' \subseteq Instances /\ omitted' \in BOOLEAN /\ warned' = warned
    BY <1>4 DEF StopInstances, Listings
  <2>2. refused' \in BOOLEAN /\ vm' \in [Instances -> {"none", "booting", "running", "stopping", "stopped"}]
    BY <1>4 DEF StopInstances, Refuse
  <2> QED
    BY <1>4, <2>1, <2>2 DEF StopInstances
<1>5. CASE DeleteInstances
  <2>1. refused' \in BOOLEAN /\ vm' \in [Instances -> {"none", "booting", "running", "stopping", "stopped"}]
    BY <1>5 DEF DeleteInstances, Refuse
  <2> QED
    BY <1>5, <2>1 DEF DeleteInstances
<1>6. CASE ApiRaises
  BY <1>6 DEF ApiRaises
<1>7. CASE Provider
  BY <1>7 DEF Provider, Boots, Halts
<1> QED
  BY <1>1, <1>2, <1>3, <1>4, <1>5, <1>6, <1>7 DEF CloudScript

(* A loop of the deployment ends with its last try.                        *)
LEMMA DeployTyped ==
  ASSUME DeployTypeOK, ChoosePlatform \/ ChooseAgent \/ Deploy \/ Configure \/ Measure
  PROVE  DeployTypeOK'
<1> USE MaxTriesAssumption DEF DeployTypeOK, Go, deployVars
<1>1. ASSUME NEW here, NEW there, NEW fact \in Facts, NEW needs,
             Try(here, there, fact, needs) \/ Ignore(here, there, fact, needs)
      PROVE  DeployTypeOK'
  BY <1>1 DEF Try, Ignore, Raises
<1>2. ASSUME NEW here, NEW there, NEW fact \in Facts, NEW needs, NEW spent,
             Retry(here, there, fact, needs, spent)
      PROVE  DeployTypeOK'
  <2>1. known' \subseteq Facts
    BY <1>2 DEF Retry
  <2>2. tries' \in 0..(MaxTries - 1)
    BY <1>2 DEF Retry
  <2> QED
    BY <2>1, <2>2
<1>3. ASSUME NEW here, Raises(here) PROVE DeployTypeOK'
  BY <1>3 DEF Raises
<1> USE DEF Facts
<1>4. CASE ChoosePlatform \/ ChooseAgent
  BY <1>1, <1>4 DEF ChoosePlatform, ChooseAgent
<1>5. CASE Deploy
  <2>1. CASE GetControlPort \/ GetQueryPort
    BY <1>2, <1>3, <2>1 DEF GetControlPort, GetQueryPort, GetPort
  <2>2. CASE ChooseType \/ HelmInstallAgent
    BY <1>3, <2>2 DEF ChooseType, HelmInstallAgent
  <2>3. CASE GetSystemInfo \/ InstallUnzip \/ InstallAgent \/ BindServer
    BY <1>1, <2>3 DEF GetSystemInfo, InstallUnzip, InstallAgent, BindServer
  <2>4. CASE InstallK8s \/ UploadYaml
    BY <1>1, <1>2, <1>3, <2>4 DEF InstallK8s, UploadYaml
  <2>5. CASE GetVpc \/ GetDomain \/ AddSubdomain
    BY <1>1, <1>2, <2>5 DEF GetVpc, GetDomain, AddSubdomain
  <2> QED
    BY <1>5, <2>1, <2>2, <2>3, <2>4, <2>5 DEF Deploy
<1>6. CASE Configure
  BY <1>1, <1>2, <1>3, <1>6
     DEF Configure, StartAgent, CheckVtaps, CheckAnalyzer, UploadConfig, CreateGroup, ConfigureAgent
<1>7. CASE Measure
  BY <1>1, <1>3, <1>7
     DEF Measure, UploadTelegrafConf, ReloadTelegrafConf, EnsureNginxRunning, CreateTraffic,
         GetTrafficData, GetProcessUsage, GetVtapName, GetMaxUsage
<1> QED
  BY <1>4, <1>5, <1>6, <1>7

(* The type invariant, whatever fails.                                     *)
THEOREM TypeCorrect == Spec => []TypeOK
<1>1. TypeOK /\ [Next]_vars => TypeOK'
  <2> SUFFICES ASSUME TypeOK, [Next]_vars PROVE CloudTypeOK' /\ DeployTypeOK'
    BY DEF TypeOK, Next, Script, Killed, Pause, Continue, Hangs, vars
  <2>1. ASSUME UNCHANGED cloudVars PROVE CloudTypeOK'
    BY <2>1 DEF TypeOK, CloudTypeOK, cloudVars
  <2>2. ASSUME UNCHANGED deployVars PROVE DeployTypeOK'
    BY <2>2 DEF TypeOK, DeployTypeOK, deployVars
  <2>3. CASE Server /\ UNCHANGED cloudVars
    BY <2>1, <2>3 DEF Server, TypeOK, DeployTypeOK, Facts
  <2> QED
    BY <2>1, <2>2, <2>3, CloudTyped, DeployTyped DEF TypeOK, Next, Script, Killed, Pause, Continue,
       Hangs, vars, deployVars
<1> QED
  BY <1>1, InitTyped, PTL DEF Spec

(* Where the deployment and the measuring are: between the last machine's  *)
(* creation and the lookup of the first.                                   *)
Between == DOMAIN ToGo \ ({"platform", "run", "settle", "describe", "halt", "delete"} \cup Over)

(* Without a sign of trouble every machine that is behind the script runs, *)
(* and later is among those that are stopped.                              *)
Created ==
    {i \in 1..Len(Names) :
       i < creating \/ (i = creating /\ pc \in {"describe"} \cup Between)}

AllWell ==
    /\ ~refused
    /\ pc \in {"platform", "run", "settle", "describe"} \cup Between
         => \A i \in Created : vm[Names[i]] = "running"
    /\ pc \in Between => creating = Len(Names)
    /\ pc \in {"halt", "delete"} => ids = Instances
    /\ pc = "delete" => \A n \in ids : vm[n] = "stopped"
    /\ pc = "passed" => \A n \in Instances : vm[n] = "none"

Quiet == ~warned /\ ~omitted => AllWell

(* The calls of the deployment and of the measuring stay between.          *)
LEMMA DeployBetween ==
  ASSUME ChoosePlatform \/ ChooseAgent \/ Deploy \/ Configure \/ Measure
  PROVE  \/ pc = "platform" /\ pc' = "run"
         \/ pc \in Between /\ pc' \in Between
         \/ pc' = "failed"
<1> USE DEF Go, Between, ToGo, Over
<1>1. CASE ChoosePlatform \/ ChooseAgent
  BY <1>1 DEF ChoosePlatform, ChooseAgent, Try
<1>2. CASE Deploy
  <2>1. CASE GetControlPort \/ GetQueryPort \/ ChooseType \/ GetSystemInfo \/ InstallUnzip
    BY <2>1 DEF GetControlPort, GetQueryPort, GetPort, ChooseType, GetSystemInfo, InstallUnzip,
                Try, Ignore, Retry, Raises
  <2>2. CASE InstallAgent \/ BindServer \/ InstallK8s \/ UploadYaml
    BY <2>2 DEF InstallAgent, BindServer, InstallK8s, UploadYaml, Try, Ignore, Retry, Raises
  <2>3. CASE GetVpc \/ GetDomain \/ AddSubdomain \/ HelmInstallAgent
    BY <2>3 DEF GetVpc, GetDomain, AddSubdomain, HelmInstallAgent, Try, Retry
  <2> QED
    BY <1>2, <2>1, <2>2, <2>3 DEF Deploy
<1>3. CASE Configure
  BY <1>3 DEF Configure, StartAgent, CheckVtaps, CheckAnalyzer, UploadConfig, CreateGroup,
              ConfigureAgent, Try, Ignore, Retry, Raises
<1>4. CASE Measure
  BY <1>4 DEF Measure, UploadTelegrafConf, ReloadTelegrafConf, EnsureNginxRunning,
              CreateTraffic, GetTrafficData, GetProcessUsage, GetVtapName, GetMaxUsage,
              Try, Ignore, Retry, Raises
<1> QED
  BY <1>1, <1>2, <1>3, <1>4

LEMMA AwaitWell ==
  ASSUME CloudTypeOK, NEW here, NEW there, NEW targets, NEW status,
         Await(here, there, targets, status), ~warned', ~omitted'
  PROVE  /\ pc = here /\ UNCHANGED <<vm, creating, ids, refused>>
         /\ pc' = here \/ (pc' = there /\ \A n \in targets : vm[n] = status)
<1>1. PICK listed \in Listings(targets) :
        LET reached == \A n \in listed : vm[n] = status
            time    == polls + 1
        IN  /\ IF reached \/ time = MaxPolls
               THEN pc = here /\ pc' = there /\ warned' = (warned \/ time \notin 1..(MaxPolls - 1))
               ELSE pc = here /\ pc' = here /\ warned' = warned
            /\ omitted' = (omitted \/ listed # targets)
            /\ UNCHANGED <<vm, creating, ids, refused>>
  BY DEF Await, Round, Go
<1>2. listed = targets
  BY <1>1
<1>3. polls + 1 = MaxPolls => pc' = there /\ polls + 1 \in 1..(MaxPolls - 1)
  BY <1>1
<1> QED
  BY <1>1, <1>2, <1>3, MaxPollsAssumption DEF CloudTypeOK

LEMMA StepWell ==
  ASSUME CloudTypeOK, AllWell, [Next]_vars, ~warned', ~omitted'
  PROVE  AllWell'
<1>1. creating \in Nat /\ Len(Names) \in Nat /\ creating <= Len(Names)
  BY NamesAreInstances DEF CloudTypeOK
<1>2. /\ {"find", "agent"} \subseteq Between
      /\ Between \cap ({"platform", "run", "settle", "describe", "halt", "delete"} \cup Over) = {}
  BY DEF Between, ToGo, Over
<1> USE DEF AllWell, Created, Go, deployVars, cloudVars, Over
<1>3. CASE UNCHANGED vars \/ Killed \/ Pause \/ Continue \/ Hangs
  BY <1>2, <1>3 DEF vars, Killed, Pause, Continue, Hangs
<1>4. CASE Server /\ UNCHANGED <<control, hung, cloudVars>>
  BY <1>4 DEF Server
<1>5. CASE Provider /\ UNCHANGED <<pc, control, hung, deployVars>>
  <2>1. UNCHANGED <<pc, creating, ids, refused>>
    BY <1>5 DEF Provider
  <2>2. \A n \in Instances : vm[n] \in {"running", "stopped", "none"} => vm'[n] = vm[n]
    BY <1>5 DEF Provider, Boots, Halts, CloudTypeOK
  <2>3. \A i \in 1..Len(Names) : vm[Names[i]] = "running" => vm'[Names[i]] = "running"
    BY <2>2, NamesAreInstances
  <2>4. \A n \in ids : vm[n] = "stopped" => vm'[n] = "stopped"
    BY <2>2 DEF CloudTypeOK
  <2> QED
    BY <2>1, <2>2, <2>3, <2>4
<1>6. CASE (ChoosePlatform \/ ChooseAgent \/ Deploy \/ Configure \/ Measure) /\ UNCHANGED cloudVars
  BY <1>2, <1>6, DeployBetween
<1>7. CASE RunInstances
  <2>1. \A i \in 1..Len(Names) : i < creating => Names[i] # Name
    BY <1>1, NamesAssumption DEF Name, CloudTypeOK
  <2> QED
    BY <1>1, <1>2, <1>7, <2>1, NamesAreInstances DEF RunInstances, CloudTypeOK
<1>8. CASE Settle
  <2>1. pc = "settle" /\ UNCHANGED <<vm, creating, ids, refused>>
    BY <1>8, AwaitWell DEF Settle
  <2>2. pc' = "settle" \/ (pc' = "describe" /\ vm[Names[creating]] = "running")
    BY <1>8, AwaitWell DEF Settle, Name
  <2> QED
    BY <1>1, <1>2, <2>1, <2>2
<1>9. CASE Describe
  BY <1>1, <1>2, <1>9 DEF Describe
<1>10. CASE StopInstances
  <2>1. pc = "find" /\ ids' = Instances
    BY <1>10 DEF StopInstances, Refuse
  <2>2. \A n \in Instances : \E i \in 1..Len(Names) : n = Names[i]
    BY NamesAssumption DEF Instances, Range
  <2>3. Instances # {} /\ \A n \in Instances : vm[n] = "running"
    BY <1>1, <1>2, <2>1, <2>2, NamesAreInstances, NamesAssumption
  <2>4. pc' = "halt" /\ refused' = refused
    BY <1>10, <2>1, <2>3 DEF StopInstances
  <2> QED
    BY <1>2, <2>1, <2>4
<1>11. CASE Halt
  BY <1>2, <1>11, AwaitWell DEF Halt
<1>12. CASE DeleteInstances
  <2>1. pc = "delete" /\ ids = Instances /\ \A n \in ids : vm[n] = "stopped"
    BY <1>12 DEF DeleteInstances, Refuse
  <2>2. pc' = "passed" /\ refused' = refused /\ \A n \in Instances : vm'[n] = "none"
    BY <1>12, <2>1 DEF DeleteInstances
  <2>3. "passed" \notin Between \cup {"platform", "run", "settle", "describe", "halt", "delete"}
    BY <1>2
  <2> QED
    BY <2>2, <2>3
<1>13. CASE ApiRaises
  BY <1>2, <1>13 DEF ApiRaises
<1> QED
  BY <1>3, <1>4, <1>5, <1>6, <1>7, <1>8, <1>9, <1>10, <1>11, <1>12, <1>13
     DEF Next, Script, CloudScript

(* A sign of trouble is not taken back.                                    *)
LEMMA SignsStay ==
  ASSUME CloudTypeOK, [Next]_vars, ~warned', ~omitted'
  PROVE  ~warned /\ ~omitted
<1>1. CASE CloudScript
  <2>1. CASE Settle \/ Halt
    BY <2>1 DEF Settle, Halt, Await, Round, CloudTypeOK
  <2>2. CASE StopInstances
    BY <2>2 DEF StopInstances, CloudTypeOK
  <2>3. CASE RunInstances \/ Describe \/ DeleteInstances \/ ApiRaises
    BY <2>3 DEF RunInstances, Describe, DeleteInstances, ApiRaises, cloudVars
  <2> QED
    BY <1>1, <2>1, <2>2, <2>3 DEF CloudScript
<1>2. CASE Provider
  BY <1>2 DEF Provider
<1>3. CASE UNCHANGED cloudVars
  BY <1>3 DEF cloudVars
<1> QED
  BY <1>1, <1>2, <1>3 DEF Next, Script, Killed, Pause, Continue, Hangs, vars

(* Whatever goes wrong in deleting the machines has shown before, for any  *)
(* number of them: until then every wait has seen its machines where it    *)
(* waits for them, and all of them are listed.                             *)
THEOREM RefusalsWereForetold == Spec => []RefusalsAreForetold
<1>1. Init => Quiet
  <2> SUFFICES ASSUME Init PROVE AllWell
    BY DEF Quiet
  <2>1. pc = "platform" /\ creating = 1 /\ refused = FALSE
    BY DEF Init, CloudInit
  <2>2. "platform" \notin Between /\ Created = {}
    BY <2>1, NamesAreInstances DEF Between, Created
  <2> QED
    BY <2>1, <2>2 DEF AllWell
<1>2. TypeOK /\ Quiet /\ [Next]_vars => Quiet'
  BY StepWell, SignsStay DEF TypeOK, Quiet
<1>3. Quiet => RefusalsAreForetold
  BY DEF Quiet, AllWell, RefusalsAreForetold
<1> QED
  BY <1>1, <1>2, <1>3, TypeCorrect, PTL DEF Spec

-----------------------------------------------------------------------------
(* The end of the test                                                     *)

PlaceOK == pc \in DOMAIN ToGo

(* A call that leads on, or fails.                                         *)
Ahead(here, there) ==
    here \in DOMAIN ToGo /\ there \in DOMAIN ToGo /\ ToGo[there] < ToGo[here]

(* Whichever of the three patterns a call follows, it leads on, fails or   *)
(* is tried once more.                                                     *)
LEMMA CallsLeadOn ==
  ASSUME NEW here, NEW there, Ahead(here, there), Ahead(here, "failed"),
         UNCHANGED cloudVars, NEW fact, NEW needs
  PROVE  /\ Try(here, there, fact, needs) => Nearer /\ PlaceOK'
         /\ Ignore(here, there, fact, needs) => Nearer /\ PlaceOK'
         /\ Raises(here) => Nearer /\ PlaceOK'
         /\ \A spent : DeployTypeOK /\ CloudTypeOK /\ Ahead(here, spent)
                         /\ Retry(here, there, fact, needs, spent) => Nearer /\ PlaceOK'
<1> USE DEF Ahead, PlaceOK, Go, cloudVars
<1> HIDE DEF ToGo
<1>1. ASSUME pc = here, pc' \in {there, "failed"} PROVE Nearer /\ PlaceOK'
  BY <1>1 DEF Nearer
<1>2. ASSUME NEW spent, DeployTypeOK, CloudTypeOK, Ahead(here, spent),
             Retry(here, there, fact, needs, spent)
      PROVE  Nearer /\ PlaceOK'
  <2>1. polls \in Nat /\ tries \in Nat /\ polls' = polls
    BY MaxPollsAssumption, MaxTriesAssumption, <1>2 DEF DeployTypeOK, CloudTypeOK
  <2>2. CASE pc = here /\ pc' = here /\ tries' = tries + 1
    BY <2>1, <2>2 DEF Nearer
  <2>3. CASE pc = here /\ pc' \in {there, spent}
    BY <1>2, <2>3 DEF Nearer
  <2> QED
    BY <1>2, <2>2, <2>3 DEF Retry
<1> QED
  BY <1>1, <1>2 DEF Try, Ignore, Raises

LEMMA CloudLeadsOn ==
  ASSUME TypeOK, CloudScript, UNCHANGED deployVars
  PROVE  Nearer /\ PlaceOK'
<1>1. creating \in Nat /\ polls \in Nat /\ tries \in Nat /\ tries' = tries
  BY NamesAreInstances, MaxPollsAssumption, MaxTriesAssumption
     DEF TypeOK, CloudTypeOK, DeployTypeOK, deployVars
<1> USE DEF PlaceOK, Nearer, ToGo, Go
<1>2. CASE RunInstances
  BY <1>2 DEF RunInstances
<1>3. CASE Settle
  BY <1>1, <1>3 DEF Settle, Await, Round
<1>4. CASE Describe
  <2>1. CASE pc = "describe" /\ pc' = "run" /\ creating' = creating + 1
    BY <1>1, <2>1
  <2>2. CASE pc = "describe" /\ pc' = "agent" /\ creating' = creating
    BY <2>2
  <2>3. CASE pc = "describe" /\ pc' = "failed" /\ creating' = creating
    BY <2>3
  <2> QED
    BY <1>4, <2>1, <2>2, <2>3 DEF Describe
<1>5. CASE StopInstances
  BY <1>5 DEF StopInstances, Refuse
<1>6. CASE Halt
  BY <1>1, <1>6 DEF Halt, Await, Round
<1>7. CASE DeleteInstances
  BY <1>7 DEF DeleteInstances, Refuse
<1>8. CASE ApiRaises
  BY <1>8 DEF ApiRaises, CloudPcs, cloudVars
<1> QED
  BY <1>2, <1>3, <1>4, <1>5, <1>6, <1>7, <1>8 DEF CloudScript

LEMMA DeployLeadsOn ==
  ASSUME TypeOK, ChoosePlatform \/ ChooseAgent \/ Deploy \/ Configure \/ Measure,
         UNCHANGED cloudVars
  PROVE  Nearer /\ PlaceOK'
<1>1. DeployTypeOK /\ CloudTypeOK
  BY DEF TypeOK
<1>2. ASSUME NEW here, NEW there, Ahead(here, there), pc = here, pc' = there
      PROVE  Nearer /\ PlaceOK'
  BY <1>2 DEF Ahead, Nearer, PlaceOK, cloudVars
<1> USE DEF Go
<1>3. CASE ChoosePlatform \/ ChooseAgent
  <2>1. /\ Ahead("platform", "run") /\ Ahead("platform", "failed")
        /\ Ahead("agent", "deploy") /\ Ahead("agent", "failed")
    BY DEF Ahead, ToGo
  <2> QED
    BY <1>3, <2>1, CallsLeadOn DEF ChoosePlatform, ChooseAgent
<1>4. CASE Deploy
  <2>1. CASE GetControlPort \/ GetQueryPort
    <3>1. /\ Ahead("deploy", "query_port") /\ Ahead("deploy", "failed")
          /\ Ahead("query_port", "type") /\ Ahead("query_port", "failed")
      BY DEF Ahead, ToGo
    <3> QED
      BY <1>1, <2>1, <3>1, CallsLeadOn DEF GetControlPort, GetQueryPort, GetPort
  <2>2. CASE ChooseType
    <3>1. /\ Ahead("type", "k8s") /\ Ahead("type", "system") /\ Ahead("type", "start")
          /\ Ahead("type", "failed")
      BY DEF Ahead, ToGo
    <3> QED
      BY <1>2, <2>2, <3>1 DEF ChooseType, Raises
  <2>3. CASE GetSystemInfo \/ InstallUnzip
    <3>1. /\ Ahead("system", "unzip") /\ Ahead("system", "failed")
          /\ Ahead("unzip", "install") /\ Ahead("unzip", "failed")
      BY DEF Ahead, ToGo
    <3> QED
      BY <2>3, <3>1, CallsLeadOn DEF GetSystemInfo, InstallUnzip
  <2>4. CASE InstallAgent \/ BindServer
    <3>1. /\ Ahead("install", "bind") /\ Ahead("install", "failed")
          /\ Ahead("bind", "start") /\ Ahead("bind", "failed")
      BY DEF Ahead, ToGo
    <3> QED
      BY <2>4, <3>1, CallsLeadOn DEF InstallAgent, BindServer
  <2>5. CASE InstallK8s \/ UploadYaml
    <3>1. /\ Ahead("k8s", "upload_yaml") /\ Ahead("k8s", "failed")
          /\ Ahead("upload_yaml", "vpc") /\ Ahead("upload_yaml", "failed")
      BY DEF Ahead, ToGo
    <3> QED
      BY <1>1, <2>5, <3>1, CallsLeadOn DEF InstallK8s, UploadYaml
  <2>6. CASE GetVpc \/ GetDomain \/ AddSubdomain
    <3>1. /\ Ahead("vpc", "domain") /\ Ahead("vpc", "failed")
          /\ Ahead("domain", "subdomain") /\ Ahead("domain", "failed")
          /\ Ahead("subdomain", "helm") /\ Ahead("subdomain", "failed")
      BY DEF Ahead, ToGo
    <3> QED
      BY <1>1, <2>6, <3>1, CallsLeadOn DEF GetVpc, GetDomain, AddSubdomain
  <2>7. CASE HelmInstallAgent
    <3>1. Ahead("helm", "start") /\ Ahead("helm", "failed")
      BY DEF Ahead, ToGo
    <3> QED
      BY <1>2, <2>7, <3>1 DEF HelmInstallAgent
  <2> QED
    BY <1>4, <2>1, <2>2, <2>3, <2>4, <2>5, <2>6, <2>7 DEF Deploy
<1>5. CASE Configure
  <2>1. CASE StartAgent
    <3>1. Ahead("start", "vtaps") /\ Ahead("start", "failed")
      BY DEF Ahead, ToGo
    <3> QED
      BY <1>2, <2>1, <3>1, CallsLeadOn DEF StartAgent
  <2>2. CASE CheckVtaps \/ CheckAnalyzer
    <3>1. /\ Ahead("vtaps", "analyzer") /\ Ahead("vtaps", "failed")
          /\ Ahead("analyzer", "config_file") /\ Ahead("analyzer", "failed")
      BY DEF Ahead, ToGo
    <3> QED
      BY <1>1, <2>2, <3>1, CallsLeadOn DEF CheckVtaps, CheckAnalyzer
  <2>3. CASE UploadConfig \/ CreateGroup \/ ConfigureAgent
    <3>1. /\ Ahead("config_file", "group") /\ Ahead("config_file", "failed")
          /\ Ahead("group", "configure") /\ Ahead("group", "failed")
          /\ Ahead("configure", "telegraf") /\ Ahead("configure", "failed")
      BY DEF Ahead, ToGo
    <3> QED
      BY <2>3, <3>1, CallsLeadOn DEF UploadConfig, CreateGroup, ConfigureAgent
  <2> QED
    BY <1>5, <2>1, <2>2, <2>3 DEF Configure
<1>6. CASE Measure
  <2>1. CASE UploadTelegrafConf \/ ReloadTelegrafConf \/ EnsureNginxRunning
    <3>1. /\ Ahead("telegraf", "reload") /\ Ahead("telegraf", "failed")
          /\ Ahead("reload", "nginx") /\ Ahead("reload", "failed")
          /\ Ahead("nginx", "traffic") /\ Ahead("nginx", "failed")
      BY DEF Ahead, ToGo
    <3> QED
      BY <2>1, <3>1, CallsLeadOn DEF UploadTelegrafConf, ReloadTelegrafConf, EnsureNginxRunning
  <2>2. CASE CreateTraffic \/ GetTrafficData
    <3>1. /\ Ahead("traffic", "data") /\ Ahead("traffic", "failed")
          /\ Ahead("data", "usage") /\ Ahead("data", "failed")
      BY DEF Ahead, ToGo
    <3> QED
      BY <1>2, <2>2, <3>1, CallsLeadOn DEF CreateTraffic, GetTrafficData
  <2>3. CASE GetProcessUsage \/ GetVtapName \/ GetMaxUsage
    <3>1. /\ Ahead("usage", "vtap_name") /\ Ahead("usage", "failed")
          /\ Ahead("vtap_name", "max_usage") /\ Ahead("vtap_name", "failed")
          /\ Ahead("max_usage", "find") /\ Ahead("max_usage", "failed")
      BY DEF Ahead, ToGo
    <3> QED
      BY <2>3, <3>1, CallsLeadOn DEF GetProcessUsage, GetVtapName, GetMaxUsage
  <2> QED
    BY <1>6, <2>1, <2>2, <2>3 DEF Measure
<1> QED
  BY <1>3, <1>4, <1>5, <1>6

(* Every loop of the test is bounded, by its own count: there is no way    *)
(* back in the script, whatever fails and however the provider and the     *)
(* deepflow server interleave with it.                                     *)
THEOREM StepsCount == Spec => EveryStepCounts
<1> DEFINE Counts == IF Script \/ Killed THEN Nearer ELSE UNCHANGED <<pc, creating, polls, tries>>
<1>1. Init => PlaceOK
  BY DEF Init, PlaceOK, ToGo
<1>2. ASSUME TypeOK, PlaceOK, [Next]_vars PROVE PlaceOK' /\ [Counts]_vars
  <2>1. CASE Script
    <3>1. Nearer /\ PlaceOK'
      BY <1>2, <2>1, CloudLeadsOn, DeployLeadsOn DEF Script
    <3> QED
      BY <2>1, <3>1
  <2>2. CASE Killed
    <3>1. pc \in DOMAIN ToGo /\ pc \notin Over
      BY <1>2, <2>2 DEF PlaceOK, Killed
    <3>2. ToGo[pc] > 0 /\ ToGo["killed"] = 0 /\ "killed" \in DOMAIN ToGo
      BY <3>1 DEF ToGo, Over
    <3>3. Nearer /\ PlaceOK'
      BY <2>2, <3>2 DEF Killed, Nearer, PlaceOK, cloudVars
    <3> QED
      BY <2>2, <3>3
  <2>3. CASE ~(Script \/ Killed) /\ ~UNCHANGED vars
    <3>1. UNCHANGED <<pc, creating, polls, tries>>
      BY <1>2, <2>3 DEF Next, Provider, Server, Pause, Continue, Hangs, deployVars, cloudVars
    <3> QED
      BY <1>2, <2>3, <3>1 DEF PlaceOK
  <2>4. CASE UNCHANGED vars
    BY <1>2, <2>4 DEF vars, PlaceOK
  <2> QED
    BY <2>1, <2>2, <2>3, <2>4
<1> HIDE DEF Counts
<1>3. Spec => [][Counts]_vars
  BY <1>1, <1>2, TypeCorrect, PTL DEF Spec
<1> QED
  BY <1>3 DEF EveryStepCounts, Counts
=============================================================================
