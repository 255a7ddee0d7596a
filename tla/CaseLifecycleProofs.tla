------------------------ MODULE CaseLifecycleProofs ------------------------
(***************************************************************************)
(* Proofs about CaseLifecycle, for any commands, workers and bounds.       *)
(* Under every perturbation: type correctness, and that results are        *)
(* collected only after the evaluation-runner is done with uploading them. *)
(* Under those each theorem names: that no pod is orphaned and no Runner   *)
(* forgotten, that commands which wait for each other are kept, that the   *)
(* record follows CaseStatus, that a failed one stays so, and that a       *)
(* paused case is parked.                                                  *)
(***************************************************************************)
EXTENDS CaseLifecycle, TLAPS

-----------------------------------------------------------------------------
(* Type correctness                                                        *)

(* The Runner thread executes a command only when it has read one: what    *)
(* makes Doing, Control and Done defined where they are applied.           *)
CmdOK == pc["runner"] \in CommandPcs => cmd \in AllCommands

(* What the controller's steps have to keep.                               *)
CtlInv == EnvTypeOK /\ CtlTypeOK /\ CmdOK

TypeInv == CtlInv /\ EvalTypeOK

(* Command(actor) is one of the three commands while actor executes it.    *)
LEMMA CommandType ==
    ASSUME CtlInv, NEW actor \in Actors, pc[actor] \in CommandPcs
    PROVE  Command(actor) \in AllCommands
BY DEF CtlInv, CmdOK, Command, Actors, AllCommands

LEMMA SetRecordType ==
    ASSUME CtlInv, NEW status \in Records, SetRecord(status)
    PROVE  record' \in Records
BY DEF CtlInv, CtlTypeOK, SetRecord

LEMMA LoopType == \A n : Loop(n) \in {"check", "error"}
BY DEF Loop

(* Writing redis leaves a hash of the same shape.                          *)
LEMMA InfoTypes ==
    ASSUME EnvTypeOK
    PROVE  /\ InitRunnerInfo => info' \in RunnerInfo
           /\ ExpireRunnerInfo => info' \in RunnerInfo
           /\ DeleteRunnerInfo => info' \in RunnerInfo
           /\ \A s \in Statuses : UpdateCase(s) => info' \in RunnerInfo
           /\ \A s \in Statuses : UpdateRunner(s) => info' \in RunnerInfo
           /\ \A s \in Statuses : UpdateControl(s) => info' \in RunnerInfo
<1>1. info \in RunnerInfo
  BY DEF EnvTypeOK
<1>2. /\ InitRunnerInfo => info' \in RunnerInfo
      /\ ExpireRunnerInfo => info' \in RunnerInfo
  <2>1. info.ttl \in BOOLEAN
    BY <1>1 DEF RunnerInfo
  <2>2. InitRunnerInfo => info' \in RunnerInfo
    BY <2>1 DEF InitRunnerInfo, RunnerInfo, Field, Statuses
  <2>3. [info EXCEPT !.ttl = TRUE] \in RunnerInfo
    BY <1>1 DEF RunnerInfo
  <2> QED
    BY <1>1, <2>2, <2>3 DEF ExpireRunnerInfo
<1>3. DeleteRunnerInfo => info' \in RunnerInfo
  BY DEF DeleteRunnerInfo, NoInfo, RunnerInfo, Field, Statuses
<1>4. \A s \in Statuses : UpdateCase(s) => info' \in RunnerInfo
  BY <1>1 DEF UpdateCase, RunnerInfo, Field
<1>5. \A s \in Statuses : UpdateRunner(s) => info' \in RunnerInfo
  BY <1>1 DEF UpdateRunner, RunnerInfo, Field
<1>6. \A s \in Statuses : UpdateControl(s) => info' \in RunnerInfo
  BY <1>1 DEF UpdateControl, RunnerInfo, Field
<1> QED
  BY <1>2, <1>3, <1>4, <1>5, <1>6

(* pause(), cancel() and resume(), by either thread.                       *)
LEMMA ExecuteTypes ==
    ASSUME CtlInv, NEW actor \in Actors, Execute(actor)
    PROVE  CtlInv'
<1> USE DEF CtlInv, EnvTypeOK, CtlTypeOK, CmdOK, envVars, Jump, Actors, AllCommands, RunnerPcs,
            MonitorPcs, CommandPcs
<1>1. CASE DoCommand(actor)
  BY <1>1, CommandType DEF DoCommand, SetRecord, Doing, Records
<1>2. CASE WriteControl(actor)
  <2>1. info' \in RunnerInfo
    BY <1>2, CommandType, InfoTypes DEF WriteControl, Control, Statuses
  <2> QED
    BY <1>2, <2>1 DEF WriteControl
<1>3. CASE WaitSync(actor)
  BY <1>3 DEF WaitSync, Raise
<1>4. CASE CommandDone(actor)
  BY <1>4, CommandType DEF CommandDone, SetRecord, Done, Records
<1> QED
  BY <1>1, <1>2, <1>3, <1>4 DEF Execute

(* The Runner thread.                                                      *)
LEMMA RunnerTypes ==
    ASSUME CtlInv, RunnerThread
    PROVE  CtlInv'
<1> USE DEF CtlInv, EnvTypeOK, CtlTypeOK, CmdOK, envVars, Jump, Actors, AllCommands, RunnerPcs,
            MonitorPcs, CommandPcs
<1>1. CASE Start
  BY <1>1 DEF Start, SetRecord, Records
<1>2. CASE Install
  BY <1>2 DEF Install, HelmInstall, Pods
<1>3. CASE InitInfo \/ LimitInfo
  BY <1>3, InfoTypes DEF InitInfo, LimitInfo
<1>4. CASE FindRunning
  BY <1>4 DEF FindRunning
<1>5. CASE FindNotRunning
  BY <1>5, LoopType DEF FindNotRunning
<1>6. CASE Pend
  <2>1. record' \in Records
    BY <1>6, SetRecordType DEF Pend, Records
  <2> QED
    BY <1>6, <2>1, LoopType DEF Pend
<1>7. CASE MarkStarted
  BY <1>7 DEF MarkStarted, SetRecord, Records
<1>8. CASE PollCompleted
  BY <1>8 DEF PollCompleted
<1>9. CASE TakeCallback
  BY <1>9 DEF TakeCallback
<1>10. CASE ClearCallback
  BY <1>10 DEF ClearCallback
<1>11. CASE GiveUp
  BY <1>11 DEF GiveUp, SetRecord, Records
<1>12. CASE Stopping
  BY <1>12 DEF Stopping, SetRecord, Records
<1>13. CASE Collect
  BY <1>13 DEF Collect
<1>14. CASE Finished
  BY <1>14 DEF Finished, SetRecord, Records
<1>15. CASE Execute("runner")
  BY <1>15, ExecuteTypes
<1> QED
  BY <1>1, <1>2, <1>3, <1>4, <1>5, <1>6, <1>7, <1>8, <1>9, <1>10, <1>11, <1>12, <1>13,
     <1>14, <1>15 DEF RunnerThread

(* The monitor thread.                                                     *)
LEMMA MonitorTypes ==
    ASSUME CtlInv, MonitorThread
    PROVE  CtlInv'
<1> USE DEF CtlInv, EnvTypeOK, CtlTypeOK, CmdOK, envVars, Jump, Actors, AllCommands, RunnerPcs,
            MonitorPcs, CommandPcs
<1>1. CASE Scan
  BY <1>1 DEF Scan
<1>2. CASE Uninstall
  BY <1>2 DEF Uninstall, HelmUninstall, PodIsUp, Pods
<1>3. CASE DeleteInfo
  BY <1>3, InfoTypes DEF DeleteInfo
<1>4. CASE Remove
  BY <1>4 DEF Remove
<1>5. CASE Execute("monitor")
  BY <1>5, ExecuteTypes
<1> QED
  BY <1>1, <1>2, <1>3, <1>4, <1>5 DEF MonitorThread

(* Every step of the controller.                                           *)
LEMMA CtlTypes ==
    ASSUME CtlInv, CtlNext
    PROVE  CtlInv'
<1> USE DEF CtlInv, EnvTypeOK, CtlTypeOK, CmdOK, envVars, Jump, Actors, AllCommands, RunnerPcs,
            MonitorPcs, CommandPcs
<1>1. CASE \E c \in Commands : Update(c)
  <2>1. PICK c \in Commands : Update(c)
    BY <1>1
  <2>2. messages' \in Seq({"create"} \cup AllCommands)
    BY <2>1, CommandsAssumption DEF Update
  <2>3. requests' \in 0..MaxRequests
    BY <2>1, MaxRequestsAssumption DEF Update
  <2> QED
    BY <2>1, <2>2, <2>3 DEF Update
<1>2. CASE MessageLoop
  <2>1. CASE Insert
    BY <2>1 DEF Insert, Receive
  <2>2. CASE StartThread
    BY <2>2 DEF StartThread
  <2>3. CASE \E c \in AllCommands : Signal(c)
    BY <2>3 DEF Signal, Receive
  <2> QED
    BY <1>2, <2>1, <2>2, <2>3 DEF MessageLoop
<1>3. CASE RunnerThread
  BY <1>3, RunnerTypes
<1>4. CASE MonitorThread
  BY <1>4, MonitorTypes
<1>5. CASE RaiseIO("runner")
  BY <1>5 DEF RaiseIO, Raise
<1>6. CASE RaiseIO("monitor")
  BY <1>6 DEF RaiseIO, Raise
<1>7. CASE Expire
  BY <1>7 DEF Expire
<1>8. CASE Restart
  <2>1. record' \in Records
    BY <1>8 DEF Restart, Records
  <2>2. pc' = [runner |-> "down", monitor |-> "scan"]
    BY <1>8 DEF Restart
  <2>3. /\ pc' \in [Actors -> RunnerPcs \cup MonitorPcs]
        /\ pc'["runner"] = "down" /\ pc'["monitor"] = "scan"
    BY <2>2
  <2>4. messages' \in Seq({"create"} \cup AllCommands)
    BY <1>8 DEF Restart
  <2> QED
    BY <1>8, <2>1, <2>3, <2>4 DEF Restart
<1> QED
  BY <1>1, <1>2, <1>3, <1>4, <1>5, <1>6, <1>7, <1>8 DEF CtlNext

(* The evaluation-runner, its workers and its pod.                         *)
LEMMA EvalTypes ==
    ASSUME TypeInv, EvalNext
    PROVE  EnvTypeOK' /\ EvalTypeOK'
<1> USE DEF TypeInv, CtlInv, EnvTypeOK, EvalTypeOK, Pods, envVars, Go, InTest
<1>1. CASE PodStarts
  BY <1>1 DEF PodStarts
<1>2. CASE Process
  <2>1. CASE Exec
    BY <2>1 DEF Exec
  <2>2. CASE Mark
    <3>1. info' \in RunnerInfo
      BY <2>2 DEF Mark, RunnerInfo, Field, Statuses
    <3> QED
      BY <2>2, <3>1 DEF Mark
  <2>3. CASE Poll
    BY <2>3 DEF Poll
  <2>4. CASE Finish
    BY <2>4, InfoTypes DEF Finish, Statuses
  <2>5. CASE Read
    BY <2>5 DEF Read
  <2>6. CASE Ack
    BY <2>6, InfoTypes DEF Ack, Statuses
  <2>7. CASE Kill
    BY <2>7 DEF Kill
  <2>8. CASE Push
    BY <2>8 DEF Push
  <2>9. CASE Complete
    BY <2>9, InfoTypes DEF Complete, Statuses
  <2>10. CASE LingerEnds
    BY <2>10 DEF LingerEnds
  <2> QED
    BY <1>2, <2>1, <2>2, <2>3, <2>4, <2>5, <2>6, <2>7, <2>8, <2>9, <2>10 DEF Process
<1>3. CASE EvalCrashes
  BY <1>3 DEF EvalCrashes
<1>4. ASSUME NEW w \in Workers, Worker(w)
      PROVE  EnvTypeOK' /\ EvalTypeOK'
  <2>1. CASE StepRead(w)
    BY <2>1 DEF StepRead, Demands
  <2>2. CASE StepWrite(w)
    BY <2>2, InfoTypes DEF StepWrite, Statuses
  <2>3. CASE BodyEnds(w)
    BY <2>3, StepsAssumption DEF BodyEnds
  <2> QED
    BY <1>4, <2>1, <2>2, <2>3 DEF Worker
<1>5. CASE PodGone
  BY <1>5 DEF PodGone, Vanish
<1>6. CASE PodFails
  BY <1>6 DEF PodFails, Vanish
<1> QED
  BY <1>1, <1>2, <1>3, <1>4, <1>5, <1>6 DEF EvalNext

(* The types and CmdOK hold initially ...                                  *)
LEMMA TypeInit == Init => TypeInv
<1> SUFFICES ASSUME Init PROVE TypeInv
  OBVIOUS
<1>1. EnvTypeOK
  BY DEF Init, EnvInit, EnvTypeOK, NoInfo, RunnerInfo, Field, Pods
<1>2. CtlTypeOK /\ CmdOK
  <2>1. messages \in Seq({"create"} \cup AllCommands)
    BY DEF Init, CtlInit
  <2>2. pc \in [Actors -> RunnerPcs \cup MonitorPcs] /\ pc["runner"] = "none" /\ pc["monitor"] = "scan"
    BY DEF Init, CtlInit, Actors, RunnerPcs, MonitorPcs
  <2>3. requests \in 0..MaxRequests
    BY MaxRequestsAssumption DEF Init, CtlInit
  <2> QED
    BY <2>1, <2>2, <2>3
       DEF Init, CtlInit, CtlTypeOK, CmdOK, Records, RunnerPcs, MonitorPcs, CommandPcs
<1>3. EvalTypeOK
  BY StepsAssumption DEF Init, EvalInit, EvalTypeOK
<1> QED
  BY <1>1, <1>2, <1>3 DEF TypeInv, CtlInv

(* ... and are kept by every step.                                         *)
LEMMA TypeStep == TypeInv /\ [Next]_vars => TypeInv'
<1> SUFFICES ASSUME TypeInv, [Next]_vars PROVE TypeInv'
  OBVIOUS
<1> USE DEF TypeInv
<1>1. CASE CtlNext /\ UNCHANGED evalVars
  BY <1>1, CtlTypes DEF evalVars, EvalTypeOK
<1>2. CASE EvalNext /\ UNCHANGED ctlVars
  <2>1. CtlTypeOK' /\ CmdOK'
    BY <1>2 DEF CtlInv, CtlTypeOK, CmdOK, ctlVars
  <2> QED
    BY <1>2, <2>1, EvalTypes DEF CtlInv
<1>3. CASE HashExpires
  BY <1>3, InfoTypes DEF HashExpires, CtlInv, EnvTypeOK, CtlTypeOK, CmdOK, EvalTypeOK, ctlVars, evalVars
<1>4. CASE UNCHANGED vars
  BY <1>4 DEF vars, envVars, ctlVars, evalVars, CtlInv, EnvTypeOK, CtlTypeOK, CmdOK, EvalTypeOK
<1> QED
  BY <1>1, <1>2, <1>3, <1>4 DEF Next, EvalNext

(* TypeOK holds of every behaviour: no thread of the controller, worker or *)
(* eval-runner process gives a variable a value outside its type.          *)
THEOREM TypeCorrect == Spec => []TypeOK
<1>1. TypeInv => TypeOK
  BY DEF TypeInv, CtlInv, TypeOK
<1> QED
  BY <1>1, TypeInit, TypeStep, PTL DEF Spec

-----------------------------------------------------------------------------
(* Results are collected after the upload                                  *)

(* The inductive invariant behind CollectAfterUpload: "completed" in the   *)
(* runner-status, and every place of the eval-runner from which it may be  *)
(* written, come after push_results.                                       *)
CollectInv ==
    /\ info.runner = "completed" => upload # "none"
    /\ rpc \in {"complete", "linger", "exited"} => upload # "none"
    /\ CollectAfterUpload

Collecting == {"stopping", "collect", "finish"}

(* The controller never writes "completed" to the runner-status itself.    *)
LEMMA CtlRunnerStatus ==
    ASSUME CtlInv, CtlNext
    PROVE  info'.runner \in {info.runner, "init", "absent"}
<1> USE DEF CtlInv, EnvTypeOK, RunnerInfo, envVars
<1>1. CASE \E c \in Commands : Update(c)
  BY <1>1 DEF Update
<1>2. CASE MessageLoop
  BY <1>2 DEF MessageLoop, Insert, StartThread, Signal
<1>3. ASSUME NEW actor \in Actors, Execute(actor)
      PROVE  info'.runner = info.runner
  <2>1. CASE WriteControl(actor)
    BY <2>1 DEF WriteControl, UpdateControl
  <2> QED
    BY <1>3, <2>1 DEF Execute, DoCommand, WaitSync, CommandDone
<1>4. CASE RunnerThread
  <2>1. CASE InitInfo \/ LimitInfo
    BY <2>1 DEF InitInfo, InitRunnerInfo, LimitInfo, ExpireRunnerInfo
  <2>2. CASE Execute("runner")
    BY <2>2, <1>3 DEF Actors
  <2> QED
    BY <1>4, <2>1, <2>2
       DEF RunnerThread, Start, Install, FindRunning, FindNotRunning, Pend, MarkStarted,
           PollCompleted, TakeCallback, ClearCallback, GiveUp, Stopping, Collect, Finished
<1>5. CASE MonitorThread
  <2>1. CASE DeleteInfo
    BY <2>1 DEF DeleteInfo, DeleteRunnerInfo, NoInfo
  <2>2. CASE Execute("monitor")
    BY <2>2, <1>3 DEF Actors
  <2> QED
    BY <1>5, <2>1, <2>2 DEF MonitorThread, Scan, Uninstall, Remove
<1>6. CASE \E actor \in Actors : RaiseIO(actor)
  BY <1>6 DEF RaiseIO
<1>7. CASE Expire \/ Restart
  BY <1>7 DEF Expire, Restart
<1> QED
  BY <1>1, <1>2, <1>4, <1>5, <1>6, <1>7 DEF CtlNext

(* The Runner thread leaves wait() only when it has seen "completed".      *)
LEMMA CtlCollecting ==
    ASSUME CtlInv, CtlNext, pc'["runner"] \in Collecting
    PROVE  pc["runner"] \in Collecting \/ info.runner = "completed"
<1> USE DEF CtlInv, CtlTypeOK, Jump, Collecting
<1>1. CASE \E c \in Commands : Update(c)
  BY <1>1 DEF Update
<1>2. CASE MessageLoop
  BY <1>2 DEF MessageLoop, Insert, StartThread, Signal
<1>3. ASSUME NEW actor \in Actors, Execute(actor)
      PROVE  pc["runner"] \in Collecting
  BY <1>3 DEF Execute, DoCommand, WriteControl, WaitSync, CommandDone, Raise, Actors
<1>4. CASE RunnerThread
  <2>1. CASE PollCompleted
    BY <2>1 DEF PollCompleted, Actors
  <2>2. CASE FindNotRunning \/ Pend
    BY <2>2, LoopType DEF FindNotRunning, Pend, Actors
  <2>3. CASE Execute("runner")
    BY <2>3, <1>3 DEF Actors
  <2> QED
    BY <1>4, <2>1, <2>2, <2>3
       DEF RunnerThread, Start, Install, InitInfo, LimitInfo, FindRunning, MarkStarted, TakeCallback,
           ClearCallback, GiveUp, Stopping, Collect, Finished, Actors
<1>5. CASE MonitorThread
  <2>1. CASE Execute("monitor")
    BY <2>1, <1>3 DEF Actors
  <2> QED
    BY <1>5, <2>1 DEF MonitorThread, Scan, Uninstall, DeleteInfo, Remove, Actors
<1>6. CASE \E actor \in Actors : RaiseIO(actor)
  BY <1>6 DEF RaiseIO, Raise, Actors
<1>7. CASE Expire \/ Restart
  BY <1>7 DEF Expire, Restart
<1> QED
  BY <1>1, <1>2, <1>4, <1>5, <1>6, <1>7 DEF CtlNext

(* The evaluation-runner reaches and writes "completed" after its upload,  *)
(* and the upload is never undone.                                         *)
LEMMA EvalUploads ==
    ASSUME TypeInv, EvalNext, CollectInv
    PROVE  /\ info'.runner = "completed" => upload' # "none"
           /\ rpc' \in {"complete", "linger", "exited"} => upload' # "none"
           /\ upload # "none" => upload' # "none"
<1> USE DEF TypeInv, CtlInv, EnvTypeOK, RunnerInfo, CollectInv, envVars, Go
<1>1. CASE PodStarts
  BY <1>1 DEF PodStarts
<1>2. CASE Process
  BY <1>2 DEF Process, Exec, Mark, Poll, Finish, Read, Ack, Kill, Push, Complete, LingerEnds,
              UpdateCase, UpdateRunner
<1>3. CASE EvalCrashes
  BY <1>3 DEF EvalCrashes
<1>4. ASSUME NEW w \in Workers, Worker(w)
      PROVE  info'.runner = info.runner /\ rpc' = rpc /\ upload' = upload
  BY <1>4 DEF Worker, StepRead, StepWrite, BodyEnds, UpdateCase
<1>5. CASE PodGone \/ PodFails
  BY <1>5 DEF PodGone, PodFails, Vanish
<1> QED
  BY <1>1, <1>2, <1>3, <1>4, <1>5 DEF EvalNext

LEMMA CollectStep == TypeInv /\ CollectInv /\ [Next]_vars => CollectInv'
<1> SUFFICES ASSUME TypeInv, CollectInv, [Next]_vars PROVE CollectInv'
  OBVIOUS
<1> USE DEF CollectInv, CollectAfterUpload
<1>1. CASE CtlNext /\ UNCHANGED evalVars
  BY <1>1, CtlRunnerStatus, CtlCollecting DEF TypeInv, Collecting, evalVars
<1>2. CASE EvalNext /\ UNCHANGED ctlVars
  BY <1>2, EvalUploads DEF ctlVars
<1>3. CASE HashExpires
  BY <1>3 DEF HashExpires, DeleteRunnerInfo, NoInfo, ctlVars, evalVars
<1>4. CASE UNCHANGED vars
  BY <1>4 DEF vars, envVars, ctlVars, evalVars
<1> QED
  BY <1>1, <1>2, <1>3, <1>4 DEF Next, EvalNext

(* The controller builds its report and writes FINISHED at the end of      *)
(* Runner.run only after the evaluation-runner is done with uploading,     *)
(* under every perturbation and with any number of workers and commands.   *)
THEOREM CollectsAfterUpload == Spec => []CollectAfterUpload
<1>1. Init => CollectInv
  BY DEF Init, EnvInit, CtlInit, EvalInit, NoInfo, CollectInv, CollectAfterUpload
<1>2. CollectInv => CollectAfterUpload
  BY DEF CollectInv
<1> QED
  BY <1>1, <1>2, TypeInit, TypeStep, CollectStep, PTL DEF Spec

-----------------------------------------------------------------------------
(* No pod outlives its case in the queue                                   *)

(* The perturbations under which the claim fails: an uninstall that does   *)
(* not happen, a manager that is not there, and the monitor's scan between *)
(* append and start.                                                       *)
Uninstalls == Perturbations \cap {"io", "helm", "restart", "startrace"} = {}

(* The inductive invariant behind NoOrphanPod.  The monitor removes a case *)
(* only after it was installed: a Runner before its install is alive, and  *)
(* no cancel of it is acknowledged, for the case-status is not there yet.  *)
RemovalInv ==
    /\ pod \in {"created", "running"} => queued /\ pc["monitor"] \notin {"delete", "remove"}
    /\ pc["runner"] \in {"none", "unstarted", "start", "install"} =>
          /\ pod = "absent"
          /\ info.case = "absent"
          /\ pc["monitor"] \in {"scan", "doing", "control", "sync"}
          /\ queued <=> pc["runner"] # "none"
    /\ pc["runner"] = "none" => pc["monitor"] = "scan"
    /\ pc["runner"] # "down"

LEMMA RemovalRunner ==
    ASSUME CtlInv, RemovalInv, Uninstalls, RunnerThread
    PROVE  RemovalInv'
<1> USE DEF CtlInv, EnvTypeOK, RunnerInfo, CtlTypeOK, RemovalInv, envVars, Jump, Actors
<1>1. CASE Start
  BY <1>1 DEF Start
<1>2. CASE Install
  BY <1>2 DEF Install, HelmInstall, May, Uninstalls
<1>3. CASE InitInfo \/ LimitInfo
  BY <1>3 DEF InitInfo, LimitInfo
<1>4. CASE FindNotRunning \/ Pend
  BY <1>4, LoopType DEF FindNotRunning, Pend
<1>5. CASE Execute("runner")
  BY <1>5 DEF Execute, DoCommand, WriteControl, UpdateControl, WaitSync, Raise, CommandDone
<1>6. CASE FindRunning \/ MarkStarted \/ PollCompleted \/ TakeCallback \/ ClearCallback
  BY <1>6 DEF FindRunning, MarkStarted, PollCompleted, TakeCallback, ClearCallback
<1>7. CASE GiveUp \/ Stopping \/ Collect \/ Finished
  BY <1>7 DEF GiveUp, Stopping, Collect, Finished
<1> QED
  BY <1>1, <1>2, <1>3, <1>4, <1>5, <1>6, <1>7 DEF RunnerThread

LEMMA RemovalMonitor ==
    ASSUME CtlInv, RemovalInv, Uninstalls, MonitorThread
    PROVE  RemovalInv'
<1> USE DEF CtlInv, EnvTypeOK, RunnerInfo, CtlTypeOK, RemovalInv, envVars, Jump, Actors
<1>1. CASE Scan
  BY <1>1 DEF Scan, Alive, May, Uninstalls
<1>2. CASE Uninstall
  BY <1>2 DEF Uninstall, HelmUninstall, PodIsUp, May, Uninstalls
<1>3. CASE DeleteInfo
  BY <1>3 DEF DeleteInfo, DeleteRunnerInfo, NoInfo
<1>4. CASE Remove
  BY <1>4 DEF Remove
<1>5. CASE Execute("monitor")
  BY <1>5 DEF Execute, DoCommand, WriteControl, UpdateControl, WaitSync, HasStatuses, Raise,
              CommandDone
<1> QED
  BY <1>1, <1>2, <1>3, <1>4, <1>5 DEF MonitorThread

(* The processes in the pod write the case-status only when it is up.      *)
LEMMA RemovalEval ==
    ASSUME TypeInv, RemovalInv, EvalNext, UNCHANGED ctlVars
    PROVE  RemovalInv'
<1>1. pod' \in {"created", "running"} => pod \in {"created", "running"}
  <2>1. CASE Process
    BY <2>1 DEF Process, Exec, Mark, Poll, Finish, Read, Ack, Kill, Push, Complete, LingerEnds,
                envVars
  <2>2. ASSUME NEW w \in Workers, Worker(w)
        PROVE  pod' = pod
    BY <2>2 DEF Worker, StepRead, StepWrite, BodyEnds, envVars
  <2> QED
    BY <2>1, <2>2 DEF EvalNext, PodStarts, EvalCrashes, PodGone, PodFails, envVars
<1>2. pod = "absent" => pod' = "absent" /\ info' = info
  <2>1. CASE Process
    BY <2>1 DEF Process, Exec, Mark, Poll, Finish, Read, Ack, Kill, Push, Complete, LingerEnds,
                Go, PodIsUp
  <2>2. ASSUME NEW w \in Workers, Worker(w), pod = "absent"
        PROVE  FALSE
    BY <2>2 DEF Worker, StepRead, StepWrite, BodyEnds, InTest, PodIsUp
  <2> QED
    BY <2>1, <2>2 DEF EvalNext, PodStarts, EvalCrashes, PodGone, PodFails, Go, PodIsUp
<1> QED
  BY <1>1, <1>2 DEF RemovalInv, ctlVars

LEMMA RemovalStep ==
    ASSUME Uninstalls
    PROVE  TypeInv /\ RemovalInv /\ [Next]_vars => RemovalInv'
<1> SUFFICES ASSUME TypeInv, RemovalInv, [Next]_vars PROVE RemovalInv'
  OBVIOUS
<1>1. CASE CtlNext
  <2> USE DEF TypeInv, CtlInv, EnvTypeOK, RunnerInfo, CtlTypeOK, RemovalInv, envVars, Jump, Actors
  <2>1. CASE \E c \in Commands : Update(c)
    BY <2>1 DEF Update
  <2>2. CASE MessageLoop
    BY <2>2 DEF MessageLoop, Insert, StartThread, Signal
  <2>3. CASE RunnerThread
    BY <2>3, RemovalRunner
  <2>4. CASE MonitorThread
    BY <2>4, RemovalMonitor
  <2>5. CASE (\E actor \in Actors : RaiseIO(actor)) \/ Restart
    BY <2>5 DEF RaiseIO, Restart, May, Uninstalls
  <2>6. CASE Expire
    BY <2>6 DEF Expire
  <2> QED
    BY <1>1, <2>1, <2>2, <2>3, <2>4, <2>5, <2>6 DEF CtlNext
<1>2. CASE EvalNext /\ UNCHANGED ctlVars
  BY <1>2, RemovalEval
<1>3. CASE HashExpires
  BY <1>3 DEF HashExpires, DeleteRunnerInfo, NoInfo, RemovalInv, ctlVars
<1>4. CASE UNCHANGED vars
  BY <1>4 DEF vars, envVars, ctlVars, RemovalInv
<1> QED
  BY <1>1, <1>2, <1>3, <1>4 DEF Next, EvalNext

(* remove_env comes before the removal of a case, and no install follows   *)
(* either of them: as long as helm can be reached, the manager lives and   *)
(* its monitor does not meet a Runner before it is started, no pod is left *)
(* behind by the queue, whatever the case, its commands and time do.       *)
THEOREM NoPodIsOrphaned ==
    ASSUME Uninstalls
    PROVE  Spec => []NoOrphanPod
<1>1. Init => RemovalInv
  BY DEF Init, EnvInit, CtlInit, NoInfo, RemovalInv
<1>2. RemovalInv => NoOrphanPod
  BY DEF RemovalInv, NoOrphanPod
<1>3. TypeInv /\ RemovalInv /\ [Next]_vars => RemovalInv'
  BY RemovalStep
<1> QED
  BY <1>1, <1>2, <1>3, TypeInit, TypeStep, PTL DEF Spec

-----------------------------------------------------------------------------
(* No Runner is forgotten                                                  *)

(* What the monitor removes from the queue is over, or past its timeout: a *)
(* Runner that is still to be started is neither.                          *)
KnownInv ==
    /\ pc["runner"] = "none" => pc["monitor"] = "scan" /\ ~queued
    /\ Alive \/ pc["runner"] = "unstarted" =>
          expired \/ (queued /\ pc["monitor"] = "scan")

LEMMA KnownCtl ==
    ASSUME ~May("startrace"), CtlInv, KnownInv, CtlNext
    PROVE  KnownInv'
<1> USE DEF CtlInv, CtlTypeOK, KnownInv, Alive, Jump, Actors, Raise
<1>1. CASE \E c \in Commands : Update(c)
  BY <1>1 DEF Update
<1>2. CASE MessageLoop
  BY <1>2 DEF MessageLoop, Insert, StartThread, Signal
<1>3. CASE RunnerThread
  <2>1. CASE Start \/ Install \/ InitInfo \/ LimitInfo \/ FindRunning
    BY <2>1 DEF Start, Install, InitInfo, LimitInfo, FindRunning
  <2>2. CASE FindNotRunning \/ Pend
    BY <2>2, LoopType DEF FindNotRunning, Pend
  <2>3. CASE MarkStarted \/ PollCompleted \/ TakeCallback \/ ClearCallback
    BY <2>3 DEF MarkStarted, PollCompleted, TakeCallback, ClearCallback
  <2>4. CASE GiveUp \/ Stopping \/ Collect \/ Finished
    BY <2>4 DEF GiveUp, Stopping, Collect, Finished
  <2>5. CASE Execute("runner")
    BY <2>5 DEF Execute, DoCommand, WriteControl, WaitSync, CommandDone
  <2> QED
    BY <1>3, <2>1, <2>2, <2>3, <2>4, <2>5 DEF RunnerThread
<1>4. CASE MonitorThread
  <2>1. CASE Scan \/ Uninstall \/ DeleteInfo \/ Remove
    BY <2>1 DEF Scan, Uninstall, DeleteInfo, Remove
  <2>2. CASE Execute("monitor")
    BY <2>2 DEF Execute, DoCommand, WriteControl, WaitSync, CommandDone
  <2> QED
    BY <1>4, <2>1, <2>2 DEF MonitorThread
<1>5. CASE \E actor \in Actors : RaiseIO(actor)
  BY <1>5 DEF RaiseIO
<1>6. CASE Expire \/ Restart
  BY <1>6 DEF Expire, Restart
<1> QED
  BY <1>1, <1>2, <1>3, <1>4, <1>5, <1>6 DEF CtlNext

(* The manager appends a Runner before it starts it, and its monitor       *)
(* removes what is not alive: unless it looks between the two, it forgets  *)
(* no Runner that runs, whatever else fails, but one past its timeout.     *)
THEOREM NoRunnerIsForgotten ==
    ASSUME ~May("startrace")
    PROVE  Spec => []RunnerIsKnown
<1>1. Init => KnownInv
  BY DEF Init, CtlInit, KnownInv, Alive
<1>2. KnownInv => RunnerIsKnown
  BY DEF KnownInv, RunnerIsKnown
<1>3. TypeInv /\ KnownInv /\ [Next]_vars => KnownInv'
  <2> SUFFICES ASSUME TypeInv, KnownInv, [Next]_vars PROVE KnownInv'
    OBVIOUS
  <2>1. CASE CtlNext
    BY <2>1, KnownCtl DEF TypeInv
  <2>2. CASE UNCHANGED ctlVars
    BY <2>2 DEF ctlVars, KnownInv, Alive
  <2> QED
    BY <2>1, <2>2 DEF Next, HashExpires, vars
<1> QED
  BY <1>1, <1>2, <1>3, TypeInit, TypeStep, PTL DEF Spec

-----------------------------------------------------------------------------
(* No command is lost where commands wait for each other                   *)

(* What a client can do about the slot: no command is on its way as long   *)
(* as there is one in the slot, which stays there until it was executed.   *)
CommandsWait == (\E i \in DOMAIN messages : messages[i] \in AllCommands) => callback = "none"

(* The command that is executed, or was last, is the one in the slot.      *)
SlotInv == pc["runner"] \in CommandPcs \cup {"clear"} => callback = cmd /\ cmd # "none"

(* A command leaves the slot when it has been executed, and no other one   *)
(* takes its place.                                                        *)
SlotKept ==
    /\ callback # "none" /\ callback' = "none" /\ pc'["runner"] # "down" => callback = cmd
    /\ callback # "none" => callback' \in {callback, "none"}

LEMMA SlotCtl ==
    ASSUME CtlInv, SlotInv, CommandsWait, CtlNext
    PROVE  SlotInv' /\ SlotKept
<1> USE DEF CtlInv, CtlTypeOK, SlotInv, SlotKept, Jump, Actors, CommandPcs
<1>1. CASE \E c \in Commands : Update(c)
  BY <1>1 DEF Update
<1>2. CASE MessageLoop
  <2>1. CASE Insert \/ StartThread
    BY <2>1 DEF Insert, StartThread
  <2>2. ASSUME NEW c \in AllCommands, Signal(c) PROVE SlotInv' /\ SlotKept
    <3>1. callback = "none"
      <4>1. messages # <<>> /\ messages[1] = c
        BY <2>2 DEF Signal, Receive
      <4>2. 1 \in DOMAIN messages
        BY <4>1
      <4> QED
        BY <4>1, <4>2 DEF CommandsWait
    <3> QED
      BY <2>2, <3>1 DEF Signal
  <2> QED
    BY <1>2, <2>1, <2>2 DEF MessageLoop
<1>3. CASE RunnerThread
  <2>1. CASE Start \/ Install \/ InitInfo \/ LimitInfo \/ FindRunning
    BY <2>1 DEF Start, Install, InitInfo, LimitInfo, FindRunning
  <2>2. CASE FindNotRunning \/ Pend
    BY <2>2, LoopType DEF FindNotRunning, Pend
  <2>3. CASE MarkStarted \/ PollCompleted \/ TakeCallback \/ ClearCallback
    BY <2>3 DEF MarkStarted, PollCompleted, TakeCallback, ClearCallback
  <2>4. CASE GiveUp \/ Stopping \/ Collect \/ Finished
    BY <2>4 DEF GiveUp, Stopping, Collect, Finished
  <2>5. CASE Execute("runner")
    BY <2>5 DEF Execute, DoCommand, WriteControl, WaitSync, CommandDone, Raise
  <2> QED
    BY <1>3, <2>1, <2>2, <2>3, <2>4, <2>5 DEF RunnerThread
<1>4. CASE MonitorThread
  BY <1>4 DEF MonitorThread, Scan, Uninstall, DeleteInfo, Remove, Execute, DoCommand, WriteControl,
              WaitSync, CommandDone, Raise
<1>5. CASE \E actor \in Actors : RaiseIO(actor)
  BY <1>5 DEF RaiseIO, Raise
<1>6. CASE Expire \/ Restart
  BY <1>6 DEF Expire, Restart
<1> QED
  BY <1>1, <1>2, <1>3, <1>4, <1>5, <1>6 DEF CtlNext

(* wait() empties the slot after the callback, whatever it holds by then.  *)
(* That loses no command as long as none is sent before: of commands that  *)
(* wait for each other, each is executed before the slot is emptied or     *)
(* filled again, under every perturbation.                                 *)
THEOREM WaitingCommandsAreKept ==
    Spec /\ []CommandsWait =>
        /\ OnlyExecutedIsCleared
        /\ [][callback # "none" => callback' \in {callback, "none"}]_vars
<1>1. Init => SlotInv
  BY DEF Init, CtlInit, SlotInv, CommandPcs
<1>2. TypeInv /\ SlotInv /\ CommandsWait /\ [Next]_vars => SlotInv' /\ SlotKept
  <2> SUFFICES ASSUME TypeInv, SlotInv, CommandsWait, [Next]_vars PROVE SlotInv' /\ SlotKept
    OBVIOUS
  <2>1. CASE CtlNext
    BY <2>1, SlotCtl DEF TypeInv
  <2>2. CASE UNCHANGED ctlVars
    BY <2>2 DEF ctlVars, SlotInv, SlotKept
  <2> QED
    BY <2>1, <2>2 DEF Next, HashExpires, vars
<1>3. SlotKept =>
        /\ callback # "none" /\ callback' = "none" /\ pc'["runner"] # "down" => callback = cmd
        /\ callback # "none" => callback' \in {callback, "none"}
  BY DEF SlotKept
<1> QED
  BY <1>1, <1>2, <1>3, TypeInit, TypeStep, PTL DEF Spec, OnlyExecutedIsCleared

-----------------------------------------------------------------------------
(* The record follows CaseStatus                                           *)

(* One thread writes the record, and every write arrives.                  *)
OneWrites == Perturbations \cap {"expire", "dbfail"} = {}

(* What the record and runner_started say at each place of the Runner      *)
(* thread.  Without a timeout the monitor cancels nothing.                 *)
StatusInv ==
    /\ ~expired
    /\ pc["monitor"] \in {"scan", "uninstall", "delete", "remove"}
    /\ pc["runner"] \in {"none", "unstarted", "start"} => record = "INIT"
    /\ pc["runner"] \in {"none", "unstarted", "start", "install", "init"} => ~started
    /\ ~started /\ pc["runner"] \in {"install", "init", "limit", "check", "mark", "error"} =>
          record \in {"STARTING", "PENDING"}
    /\ pc["runner"] \in {"poll", "signal", "clear", "pend"} \cup CommandPcs => started
    /\ pc["runner"] = "error" => ~started
    /\ pc["runner"] \in {"control", "sync", "done"} => record = Doing[cmd]
    /\ pc["runner"] \in {"collect", "finish"} => record = "STOPPING"

CaseVars == <<record, Phase>>

StatusStep == Status!StatusNext \/ UNCHANGED CaseVars

LEMMA CommandTables ==
    /\ Doing["pause"] = "PAUSING" /\ Doing["cancel"] = "STOPPING" /\ Doing["resume"] = "STARTING"
    /\ Done["pause"] = "PAUSED" /\ Done["cancel"] = "FINISHED" /\ Done["resume"] = "STARTED"
BY DEF Doing, Done

(* A command is obeyed and acknowledged.                                   *)
LEMMA StatusExecute ==
    ASSUME OneWrites, CtlInv, StatusInv, Execute("runner")
    PROVE  StatusInv' /\ StatusStep
<1>1. cmd \in {"pause", "cancel", "resume"} /\ cmd' = cmd /\ Command("runner") = cmd
  BY DEF CtlInv, CmdOK, AllCommands, Execute, Jump, DoCommand, WriteControl, WaitSync,
         CommandDone, Command, CommandPcs
<1> USE DEF CtlInv, CtlTypeOK, Actors, StatusInv, Jump, CommandPcs, StatusStep, CaseVars, Phase
<1>2. CASE DoCommand("runner")
  <2>1. /\ pc' = [pc EXCEPT !["runner"] = "control"] /\ pc["runner"] = "doing"
        /\ record' = Doing[cmd] /\ UNCHANGED <<expired, started>>
    BY <1>1, <1>2 DEF DoCommand, SetRecord, May, OneWrites
  <2>2. Doing[cmd] \in {"PAUSING", "STOPPING", "STARTING"} /\ Doing[cmd]' = Doing[cmd]
    BY <1>1, CommandTables DEF Doing
  <2> QED
    BY <1>1, <2>1, <2>2 DEF Status!StatusNext, Status!Obey
<1>3. CASE WriteControl("runner")
  BY <1>1, <1>3 DEF WriteControl, Doing
<1>4. CASE WaitSync("runner")
  <2>1. /\ \E to \in {"done", "raised"} : pc' = [pc EXCEPT !["runner"] = to]
        /\ pc["runner"] = "sync" /\ UNCHANGED <<record, expired, started>>
    BY <1>4 DEF WaitSync, Raise
  <2> QED
    BY <1>1, <2>1 DEF Doing, Status!StatusNext, Status!Lose
<1>5. CASE CommandDone("runner")
  <2>1. /\ pc' = [pc EXCEPT !["runner"] = "clear"] /\ pc["runner"] = "done"
        /\ record' = Done[cmd] /\ UNCHANGED <<expired, started>>
    BY <1>1, <1>5 DEF CommandDone, SetRecord, May, OneWrites
  <2>2. <<record, record'>> \in {<<"PAUSING", "PAUSED">>, <<"STOPPING", "FINISHED">>,
                                 <<"STARTING", "STARTED">>}
    BY <1>1, <2>1, CommandTables
  <2>3. Status!Acknowledge
    BY <2>1, <2>2 DEF Status!Acknowledge
  <2> QED
    BY <2>1, <2>3 DEF Status!StatusNext
<1> QED
  BY <1>2, <1>3, <1>4, <1>5 DEF Execute

(* The Runner thread, from the start of the case to its end.               *)
LEMMA StatusRunner ==
    ASSUME OneWrites, CtlInv, StatusInv, RunnerThread
    PROVE  StatusInv' /\ StatusStep
<1> USE DEF CtlInv, CtlTypeOK, Actors, StatusInv, Jump, CommandPcs, StatusStep, CaseVars, Phase,
            OneWrites, May, SetRecord, Status!StatusNext
<1>1. CASE Start
  BY <1>1 DEF Start, Status!Begin
<1>2. CASE Install \/ InitInfo \/ LimitInfo
  BY <1>2 DEF Install, InitInfo, LimitInfo
<1>3. CASE FindRunning
  BY <1>3 DEF FindRunning
<1>4. CASE FindNotRunning
  BY <1>4, LoopType DEF FindNotRunning
<1>5. CASE Pend
  BY <1>5, LoopType DEF Pend, Status!SeePod
<1>6. CASE MarkStarted
  BY <1>6 DEF MarkStarted, Status!SeePod
<1>7. CASE PollCompleted
  BY <1>7 DEF PollCompleted, Status!Lose
<1>8. CASE TakeCallback \/ ClearCallback
  BY <1>8 DEF TakeCallback, ClearCallback
<1>9. CASE GiveUp
  BY <1>9 DEF GiveUp, Status!Fail
<1>10. CASE Stopping
  BY <1>10 DEF Stopping, Status!Stop
<1>11. CASE Collect
  BY <1>11 DEF Collect
<1>12. CASE Finished
  BY <1>12 DEF Finished, Status!Deliver
<1>13. CASE Execute("runner")
  BY <1>13, StatusExecute
<1> QED
  BY <1>1, <1>2, <1>3, <1>4, <1>5, <1>6, <1>7, <1>8, <1>9, <1>10, <1>11, <1>12, <1>13
     DEF RunnerThread

LEMMA StatusCtl ==
    ASSUME OneWrites, CtlInv, StatusInv, CtlNext
    PROVE  StatusInv' /\ StatusStep
<1> USE DEF CtlInv, CtlTypeOK, Actors, StatusInv, Jump, CommandPcs, StatusStep, CaseVars, Phase,
            OneWrites, May
<1>1. CASE \E c \in Commands : Update(c)
  BY <1>1 DEF Update
<1>2. CASE MessageLoop
  BY <1>2 DEF MessageLoop, Insert, StartThread, Signal
<1>3. CASE RunnerThread
  BY <1>3, StatusRunner
<1>4. CASE MonitorThread
  BY <1>4 DEF MonitorThread, Scan, Uninstall, DeleteInfo, Remove, Execute, DoCommand, WriteControl,
              WaitSync, CommandDone
<1>5. CASE RaiseIO("runner")
  BY <1>5 DEF RaiseIO, Raise, Status!StatusNext, Status!Lose
<1>6. CASE RaiseIO("monitor")
  BY <1>6 DEF RaiseIO, Raise
<1>7. CASE Expire
  BY <1>7 DEF Expire
<1>8. CASE Restart
  BY <1>8 DEF Restart, Status!StatusNext, Status!Lose, Status!Mark
<1> QED
  BY <1>1, <1>2, <1>3, <1>4, <1>5, <1>6, <1>7, <1>8 DEF CtlNext

LEMMA StatusKeeps ==
    ASSUME OneWrites
    PROVE  TypeInv /\ StatusInv /\ [Next]_vars => StatusInv' /\ StatusStep
<1> SUFFICES ASSUME TypeInv, StatusInv, [Next]_vars PROVE StatusInv' /\ StatusStep
  OBVIOUS
<1>1. CASE CtlNext
  BY <1>1, StatusCtl DEF TypeInv
<1>2. CASE UNCHANGED ctlVars
  BY <1>2 DEF ctlVars, StatusInv, StatusStep, CaseVars, Phase
<1> QED
  BY <1>1, <1>2 DEF Next, HashExpires, vars

(* Through pause, resume, cancel, crashes of the evaluation-runner and     *)
(* restarts of the controller, the record moves as CaseStatus says: a      *)
(* completed status follows its progressive, and what is over stays over.  *)
THEOREM ImplementsCaseStatus ==
    ASSUME OneWrites
    PROVE  Spec => ImplementsStatus
<1>1. Init => StatusInv /\ Status!StatusInit
  BY DEF Init, CtlInit, StatusInv, CommandPcs, Status!StatusInit, Phase
<1>2. TypeInv /\ StatusInv /\ [Next]_vars => StatusInv' /\ StatusStep
  BY StatusKeeps
<1>3. StatusStep <=> [Status!StatusNext]_<<record, Phase>>
  BY DEF StatusStep, CaseVars
<1> QED
  BY <1>1, <1>2, <1>3, TypeInit, TypeStep, PTL
     DEF Spec, ImplementsStatus, Status!StatusSpec, Status!caseVars

(* A case that has failed stays so.                                        *)
FailedInv == record \in {"ERROR", "EXCEPTION"} => Phase = "over"

(* CaseStatus makes an error of a case that is over, or that ends with it. *)
LEMMA FailedStays ==
    ASSUME StatusInv, FailedInv, StatusStep
    PROVE  FailedInv' /\ (record \in {"ERROR", "EXCEPTION"} => record' = record)
BY DEF FailedInv, StatusStep, CaseVars, Status!StatusNext, Status!Begin, Status!SeePod, Status!Obey,
       Status!Acknowledge, Status!Stop, Status!Deliver, Status!Fail, Status!Lose, Status!Mark

(* A record that says ERROR or EXCEPTION does so for ever: a client that   *)
(* sees one need not ask again, and no command revives the case.           *)
THEOREM FailuresAreFinal ==
    ASSUME OneWrites
    PROVE  Spec => [][(record \in {"ERROR", "EXCEPTION"}) => record' = record]_vars
<1>1. Init => StatusInv /\ FailedInv
  BY DEF Init, CtlInit, StatusInv, CommandPcs, FailedInv
<1>2. TypeInv /\ StatusInv /\ [Next]_vars => StatusInv' /\ StatusStep
  BY StatusKeeps
<1>3. StatusInv /\ FailedInv /\ StatusStep
         => FailedInv' /\ (record \in {"ERROR", "EXCEPTION"} => record' = record)
  BY FailedStays
<1> QED
  BY <1>1, <1>2, <1>3, TypeInit, TypeStep, PTL DEF Spec

-----------------------------------------------------------------------------
(* A paused case is parked                                                 *)

(* The statuses of the hash are written by one test, after the process     *)
(* that started it, and are deleted only when the Runner is over.          *)
OneTest ==
    /\ Perturbations \cap {"expire", "dbfail", "startrace", "earlystep"} = {}
    /\ \E w \in Workers : Workers = {w}

Over == pc["runner"] \in {"exited", "raised", "down"}

Syncs(c) == pc["runner"] = "sync" /\ cmd = c

Writes(w, status) == test[w] = "write" /\ todo[w] = status

(* The control status before, while and after a case is paused.            *)
Controlled ==
    /\ pc["runner"] \in {"none", "unstarted", "start", "install", "init"} =>
          /\ info.control = "absent"
          /\ \A w \in Workers : test[w] # "write"
    /\ Syncs("pause") => info.control = "paused"
    /\ Syncs("resume") => info.control = "running"
    /\ record = "PAUSED" => info.control = "paused"
    /\ pc["runner"] = "done" /\ cmd = "pause" => info.control = "paused"

(* Before exec_pytest is through, no test writes; when pytest has ended,   *)
(* no test runs.                                                           *)
BeforeTests ==
    /\ rpc \in {"idle", "exec", "mark"} => info.case \in {"absent", "init"}
    /\ rpc \in {"idle", "exec"} => \A w \in Workers : test[w] = "none"
    /\ rpc = "mark" => \A w \in Workers : test[w] = "read"
    /\ rpc = "finish" \/ info.case = "completed" => \A w \in Workers : test[w] = "ended"

(* The case-status and what a test is about to write belong to a command   *)
(* that is being waited for.                                               *)
Acknowledged(w) ==
    /\ info.case = "paused" => test[w] # "body"
    /\ info.case = "paused" /\ info.control = "running" => Syncs("resume")
    /\ info.case = "paused" /\ Writes(w, "running") => Syncs("resume")
    /\ info.control = "running" /\ Writes(w, "paused") => Syncs("resume")
    /\ info.case = "running" /\ Writes(w, "paused") => Syncs("pause")
    /\ info.control = "paused" /\ ~Syncs("pause") =>
          /\ rpc \notin {"idle", "exec", "mark"}
          /\ info.case # "running" /\ ~Writes(w, "running") /\ test[w] # "body"

ParkInv ==
    /\ queued => pc["runner"] # "none"
    /\ pc["monitor"] # "scan" => Over
    /\ ~Over => Controlled /\ \A w \in Workers : Acknowledged(w)
    /\ BeforeTests

ParkContext == OneTest /\ TypeInv /\ StatusInv /\ ParkInv

Preparing == {"none", "unstarted", "start", "install", "init"}

(* A step that neither begins nor ends the wait for a command, and leaves  *)
(* no record PAUSED but by the end of a pause.                             *)
Unawaited ==
    /\ pc'["runner"] \in Preparing => pc["runner"] \in Preparing
    /\ pc["runner"] = "sync" => pc'["runner"] = "sync" /\ cmd' = cmd
    /\ pc'["runner"] = "sync" => pc["runner"] = "sync"
    /\ record' = "PAUSED" => record = "PAUSED" \/ (pc["runner"] = "done" /\ cmd = "pause")
    /\ pc'["runner"] = "done" /\ cmd' = "pause" => pc["runner"] = "done" /\ cmd = "pause"

(* Such a step of the controller does not touch what was acknowledged.     *)
LEMMA ParkQuietly ==
    ASSUME ParkContext, UNCHANGED <<info.control, info.case, evalVars>>, queued' => pc'["runner"] # "none",
           pc'["monitor"] # "scan" => Over', Over => Over', Over \/ Over' \/ Unawaited
    PROVE  ParkInv'
<1> USE DEF ParkContext, ParkInv, Unawaited, Preparing
<1>1. UNCHANGED <<info.control, info.case, rpc, test, todo>>
  BY DEF evalVars
<1>2. BeforeTests'
  BY <1>1 DEF BeforeTests
<1>3. ASSUME ~Over' PROVE Controlled' /\ \A w \in Workers : Acknowledged(w)'
  <2>1. ~Over /\ Controlled /\ \A w \in Workers : Acknowledged(w)
    BY <1>3
  <2>2. Controlled'
    BY <1>1, <1>3, <2>1 DEF Controlled, Syncs
  <2>3. ASSUME NEW w \in Workers PROVE Acknowledged(w)'
    BY <1>1, <1>3, <2>1 DEF Acknowledged, Writes, Syncs
  <2> QED
    BY <2>2, <2>3
<1> QED
  BY <1>2, <1>3

(* pause(), cancel() and resume(): a pause is acknowledged by a test that  *)
(* then reads, a resume by one that has nothing old to write.              *)
LEMMA ParkExecute ==
    ASSUME ParkContext, Execute("runner"), UNCHANGED evalVars
    PROVE  ParkInv'
<1>1. /\ cmd \in {"pause", "cancel", "resume"} /\ cmd' = cmd /\ Command("runner") = cmd
      /\ pc["runner"] \in CommandPcs
  BY DEF ParkContext, TypeInv, CtlInv, CmdOK, AllCommands, Execute, Jump, DoCommand, WriteControl,
         WaitSync, CommandDone, Command, CommandPcs
<1>2. /\ pc \in [Actors -> RunnerPcs \cup MonitorPcs] /\ info \in RunnerInfo /\ queued' = queued
      /\ UNCHANGED <<rpc, test, todo>> /\ ~Over
  BY <1>1 DEF ParkContext, TypeInv, CtlInv, CtlTypeOK, EnvTypeOK, evalVars, Over, CommandPcs, Execute,
              DoCommand, WriteControl, WaitSync, CommandDone
<1>3. Controlled /\ (\A w \in Workers : Acknowledged(w)) /\ BeforeTests /\ pc["monitor"] = "scan"
  BY <1>2 DEF ParkContext, ParkInv
<1>4. ASSUME DoCommand("runner") \/ CommandDone("runner") PROVE ParkInv'
  <2>1. /\ \/ pc["runner"] = "doing" /\ pc' = [pc EXCEPT !["runner"] = "control"] /\ record' = Doing[cmd]
           \/ pc["runner"] = "done" /\ pc' = [pc EXCEPT !["runner"] = "clear"] /\ record' = Done[cmd]
        /\ info' = info
    BY <1>1, <1>4 DEF DoCommand, CommandDone, Jump, SetRecord, May, ParkContext, OneTest, envVars
  <2>2. record' = "PAUSED" => pc["runner"] = "done" /\ cmd = "pause"
    BY <1>1, <2>1, CommandTables
  <2>3. pc'["runner"] \in {"control", "clear"} /\ pc'["monitor"] = "scan"
    BY <1>2, <1>3, <2>1 DEF Actors
  <2> QED
    BY <1>1, <1>2, <2>1, <2>2, <2>3, ParkQuietly DEF Over, Unawaited, Preparing
<1>5. ASSUME WriteControl("runner") PROVE ParkInv'
  <2>1. /\ pc["runner"] = "control" /\ pc'["runner"] = "sync" /\ pc'["monitor"] = "scan"
        /\ info'.control = Control[cmd] /\ info'.case = info.case
        /\ record' = record /\ record = Doing[cmd]
    BY <1>1, <1>2, <1>3, <1>5
       DEF WriteControl, UpdateControl, Jump, Actors, RunnerInfo, ParkContext, StatusInv
  <2>2. record # "PAUSED"
    BY <1>1, <2>1, CommandTables
  <2>3. /\ cmd = "pause" => info'.control = "paused"
        /\ cmd = "resume" => info'.control = "running"
        /\ cmd = "cancel" => info'.control = "cancelled"
    BY <2>1 DEF Control
  <2>4. BeforeTests'
    BY <1>2, <1>3, <2>1 DEF BeforeTests
  <2>5. Controlled'
    BY <1>1, <2>1, <2>2, <2>3 DEF Controlled, Syncs
  <2>6. ASSUME NEW w \in Workers PROVE Acknowledged(w)'
    <3>1. Acknowledged(w)
      BY <1>3
    <3> QED
      BY <1>1, <1>2, <2>1, <2>3, <3>1 DEF Acknowledged, Syncs, Writes
  <2> QED
    BY <1>2, <2>1, <2>4, <2>5, <2>6 DEF ParkInv
<1>6. ASSUME WaitSync("runner") PROVE ParkInv'
  <2>1. /\ pc["runner"] = "sync" /\ pc'["monitor"] = "scan" /\ UNCHANGED <<info, record>>
        /\ pc'["runner"] = "raised" \/ (pc'["runner"] = "done" /\ Synced)
    BY <1>2, <1>3, <1>6 DEF WaitSync, Jump, Actors, Raise, envVars
  <2>2. BeforeTests'
    BY <1>2, <1>3, <2>1 DEF BeforeTests
  <2>3. ASSUME pc'["runner"] = "done" PROVE Controlled'
    BY <1>1, <1>3, <2>1, <2>3 DEF Controlled, Syncs
  <2>4. ASSUME pc'["runner"] = "done", NEW w \in Workers PROVE Acknowledged(w)'
    <3>1. Acknowledged(w) /\ (info.case = info.control \/ info.case = "completed")
      BY <1>3, <2>1, <2>4 DEF Synced
    <3>2. /\ cmd = "pause" => info.control = "paused"
          /\ cmd = "resume" => info.control = "running"
      BY <1>3, <2>1 DEF Controlled, Syncs
    <3>3. info.case = "completed" => test[w] = "ended"
      BY <1>3 DEF BeforeTests
    <3>4. rpc \in {"idle", "exec", "mark"} => info.case \in {"absent", "init"}
      BY <1>3 DEF BeforeTests
    <3> QED
      BY <1>1, <1>2, <2>1, <2>4, <3>1, <3>2, <3>3, <3>4 DEF Acknowledged, Syncs, Writes
  <2> QED
    BY <1>2, <2>1, <2>2, <2>3, <2>4 DEF ParkInv, Over
<1> QED
  BY <1>4, <1>5, <1>6 DEF Execute

(* Every step of the controller.                                           *)
LEMMA ParkCtl ==
    ASSUME ParkContext, CtlNext, UNCHANGED evalVars
    PROVE  ParkInv'
<1>1. /\ pc \in [Actors -> RunnerPcs \cup MonitorPcs] /\ info \in RunnerInfo
      /\ ~May("startrace") /\ ~May("expire") /\ ~May("dbfail")
  BY DEF ParkContext, TypeInv, CtlInv, CtlTypeOK, EnvTypeOK, OneTest, May
<1>2. StatusInv /\ ParkInv
  BY DEF ParkContext
<1> USE DEF Jump, Actors, Unawaited, Preparing
<1>3. CASE \E c \in Commands : Update(c)
  <2>1. UNCHANGED <<info, record, cmd, queued, pc>>
    BY <1>3 DEF Update, envVars
  <2>2. Over => Over'
    BY <2>1 DEF Over
  <2> QED
    BY <1>2, <2>1, <2>2, ParkQuietly DEF ParkInv
<1>4. CASE MessageLoop
  <2>1. UNCHANGED <<info, record, cmd>>
    BY <1>4 DEF MessageLoop, Insert, StartThread, Signal, envVars
  <2>2. /\ pc'["monitor"] = pc["monitor"] /\ (queued' => pc'["runner"] # "none")
        /\ \/ pc' = pc
           \/ pc["runner"] \in {"none", "unstarted"} /\ pc'["runner"] \in {"unstarted", "start"}
    BY <1>1, <1>2, <1>4 DEF MessageLoop, Insert, StartThread, Signal, ParkInv
  <2>3. Over => Over'
    BY <2>1, <2>2 DEF Over
  <2>4. pc'["monitor"] # "scan" => Over'
    BY <1>2, <2>2, <2>3 DEF ParkInv
  <2> QED
    BY <2>1, <2>2, <2>3, <2>4, ParkQuietly
<1>5. CASE RunnerThread
  <2>1. CASE Execute("runner")
    BY <2>1, ParkExecute
  <2>2. CASE InitInfo
    <3>1. /\ pc["runner"] = "init" /\ pc'["runner"] = "limit" /\ pc'["monitor"] = pc["monitor"]
          /\ info'.control = "running" /\ info'.case = "init" /\ UNCHANGED <<record, cmd, queued>>
          /\ record # "PAUSED"
      BY <1>1, <1>2, <2>2 DEF InitInfo, InitRunnerInfo, StatusInv
    <3>2. UNCHANGED <<rpc, test, todo>>
      BY DEF evalVars
    <3>3. BeforeTests' /\ Controlled'
      BY <1>2, <3>1, <3>2 DEF ParkInv, BeforeTests, Controlled, Over, Syncs
    <3>4. ASSUME NEW w \in Workers PROVE Acknowledged(w)'
      <4>1. test[w] # "write"
        BY <1>2, <3>1 DEF ParkInv, Controlled, Over
      <4> QED
        BY <3>1, <3>2, <4>1 DEF Acknowledged, Writes
    <3> QED
      BY <1>2, <3>1, <3>3, <3>4 DEF ParkInv, Over
  <2>3. CASE ~Execute("runner") /\ ~InitInfo
    <3>1. UNCHANGED <<info.control, info.case, queued>> /\ pc'["monitor"] = pc["monitor"]
      BY <1>1, <1>5, <2>3
         DEF RunnerThread, Start, Install, LimitInfo, ExpireRunnerInfo, RunnerInfo, FindRunning, FindNotRunning, Pend, MarkStarted,
             PollCompleted, TakeCallback, ClearCallback, GiveUp, Stopping, Collect, Finished,
             envVars
    <3>2. record' \in {record, "STARTING", "PENDING", "STARTED", "ERROR", "STOPPING", "FINISHED"}
      BY <1>5, <2>3
         DEF RunnerThread, Start, Install, LimitInfo, FindRunning, FindNotRunning, Pend, MarkStarted,
             PollCompleted, TakeCallback, ClearCallback, GiveUp, Stopping, Collect, Finished,
             SetRecord
    <3>3. /\ pc["runner"] \notin {"none", "unstarted", "sync", "done", "exited", "raised", "down"}
          /\ pc'["runner"] \notin {"none", "unstarted", "start", "sync", "done"}
          /\ pc'["runner"] \in {"install", "init"} => pc["runner"] \in {"start", "install"}
      BY <1>1, <1>5, <2>3, LoopType
         DEF RunnerThread, Start, Install, LimitInfo, FindRunning, FindNotRunning, Pend, MarkStarted,
             PollCompleted, TakeCallback, ClearCallback, GiveUp, Stopping, Collect, Finished
    <3>4. ~Over
      BY <3>3 DEF Over
    <3>5. (queued' => pc'["runner"] # "none") /\ (pc'["monitor"] # "scan" => Over')
      BY <1>2, <3>1, <3>3, <3>4 DEF ParkInv
    <3> QED
      BY <3>1, <3>2, <3>3, <3>4, <3>5, ParkQuietly
  <2> QED
    BY <2>1, <2>2, <2>3
<1>6. CASE MonitorThread
  <2>1. /\ pc'["runner"] = pc["runner"] /\ UNCHANGED <<record, cmd>>
        /\ queued' => queued
    BY <1>1, <1>2, <1>6
       DEF MonitorThread, Scan, Uninstall, DeleteInfo, Remove, Execute, DoCommand, WriteControl,
           WaitSync, CommandDone, StatusInv
  <2>2. CASE Scan
    <3>1. info' = info /\ Over /\ Over'
      BY <1>1, <1>2, <2>1, <2>2 DEF Scan, Alive, StatusInv, ParkInv, envVars, Over
    <3> QED
      BY <1>2, <2>1, <3>1, ParkQuietly DEF ParkInv
  <2>3. CASE Uninstall \/ DeleteInfo \/ Remove
    <3>1. Over /\ Over'
      BY <1>2, <2>1, <2>3 DEF Uninstall, DeleteInfo, Remove, ParkInv, Over
    <3>2. info'.case \in {info.case, "absent"} /\ UNCHANGED <<rpc, test>>
      BY <2>3 DEF Uninstall, DeleteInfo, Remove, DeleteRunnerInfo, NoInfo, envVars, evalVars
    <3>3. BeforeTests'
      BY <1>2, <3>2 DEF ParkInv, BeforeTests
    <3> QED
      BY <1>2, <2>1, <3>1, <3>3 DEF ParkInv
  <2>4. ~Execute("monitor")
    BY <1>2 DEF Execute, DoCommand, WriteControl, WaitSync, CommandDone, StatusInv
  <2> QED
    BY <1>6, <2>2, <2>3, <2>4 DEF MonitorThread
<1>7. CASE RaiseIO("runner") \/ RaiseIO("monitor")
  <2>1. UNCHANGED <<info, record, cmd, queued>>
    BY <1>7 DEF RaiseIO, envVars
  <2>2. \/ pc'["monitor"] = pc["monitor"] /\ pc'["runner"] = "raised" /\ pc["runner"] # "none"
        \/ pc'["monitor"] = "scan" /\ pc'["runner"] = pc["runner"]
    BY <1>1, <1>7 DEF RaiseIO, Raise
  <2>3. CASE pc'["runner"] = "raised"
    <3>1. Over'
      BY <2>3 DEF Over
    <3> QED
      BY <1>2, <2>1, <2>3, <3>1, ParkQuietly DEF ParkInv
  <2>4. CASE pc'["monitor"] = "scan" /\ pc'["runner"] = pc["runner"]
    <3>1. Over => Over'
      BY <2>1, <2>4 DEF Over
    <3> QED
      BY <1>2, <2>1, <2>4, <3>1, ParkQuietly DEF ParkInv
  <2> QED
    BY <2>2, <2>3, <2>4
<1>8. CASE Expire
  BY <1>1, <1>8 DEF Expire
<1>9. CASE Restart
  <2>1. /\ pc'["runner"] = "down" /\ pc'["monitor"] = "scan" /\ ~queued' /\ info' = info
    BY <1>9 DEF Restart, envVars
  <2>2. Over'
    BY <2>1 DEF Over
  <2> QED
    BY <2>1, <2>2, ParkQuietly
<1> QED
  BY <1>3, <1>4, <1>5, <1>6, <1>7, <1>8, <1>9 DEF CtlNext

(* Every step of the evaluation-runner and its test.  Moved is one that    *)
(* writes no case-status, and moves the test at most to its end.           *)
LEMMA ParkEval ==
    ASSUME ParkContext, EvalNext, UNCHANGED ctlVars
    PROVE  ParkInv'
<1>1. PICK w \in Workers : Workers = {w}
  BY DEF ParkContext, OneTest
<1>2. /\ info \in RunnerInfo /\ test \in [Workers -> {"none", "read", "write", "body", "ended", "killed"}]
      /\ todo \in [Workers -> {"running", "paused", "cancelled"}] /\ ~May("earlystep")
  BY DEF ParkContext, TypeInv, CtlInv, EnvTypeOK, EvalTypeOK, OneTest, May
<1>3. UNCHANGED <<pc, cmd, record, queued>>
  BY DEF ctlVars
<1> DEFINE Before1 == /\ rpc \in {"idle", "exec", "mark"} => info.case \in {"absent", "init"}
                      /\ rpc \in {"idle", "exec"} => test[w] = "none"
                      /\ rpc = "mark" => test[w] = "read"
                      /\ rpc = "finish" \/ info.case = "completed" => test[w] = "ended"
           Control1 == pc["runner"] \in {"none", "unstarted", "start", "install", "init"} =>
                          info.control = "absent" /\ test[w] # "write"
           Goal == Before1' /\ (~Over => Control1' /\ Acknowledged(w)')
<1>4. Before1 /\ (~Over => Control1 /\ Acknowledged(w))
  BY <1>1 DEF ParkContext, ParkInv, BeforeTests, Controlled
<1>5. info'.control = info.control
  BY <1>2 DEF EvalNext, PodStarts, Process, Exec, Mark, Poll, Finish, Read, Ack, Kill, Push, Complete,
              LingerEnds, EvalCrashes, Worker, StepRead, StepWrite, BodyEnds, PodGone, PodFails,
              Vanish, UpdateCase, UpdateRunner, envVars, RunnerInfo
<1> DEFINE Moved == /\ info'.case = info.case /\ todo' = todo
                    /\ rpc' \in {"idle", "exec", "mark"} => rpc' = rpc
                    /\ rpc' = "finish" => rpc = "finish" \/ AllEnded
                    /\ test'[w] \in {test[w], "ended", "killed"}
                    /\ test[w] = "ended" => test'[w] = "ended"
                    /\ rpc' \in {"idle", "exec", "mark"} => test'[w] = test[w]
<1>6. ASSUME Moved PROVE Goal
  BY <1>1, <1>2, <1>3, <1>4, <1>5, <1>6
     DEF Acknowledged, Writes, Syncs, AllEnded
<1>7. ASSUME PodStarts PROVE Goal
  BY <1>1, <1>2, <1>3, <1>4, <1>5, <1>7
     DEF PodStarts, Acknowledged, Writes, Syncs
<1>8. ASSUME Process PROVE Goal
  <2> USE DEF Go
  <2>1. ASSUME Exec PROVE Goal
    BY <1>1, <1>2, <1>3, <1>4, <1>5, <2>1
       DEF Exec, envVars, Acknowledged, Writes, Syncs
  <2>2. ASSUME Mark PROVE Goal
    <3>1. rpc = "mark" /\ rpc' = "poll" /\ info'.case = "running" /\ UNCHANGED <<test, todo>>
      BY <1>2, <2>2 DEF Mark, RunnerInfo
    <3> QED
      BY <1>1, <1>2, <1>3, <1>4, <1>5, <3>1
         DEF Acknowledged, Writes, Syncs
  <2>3. ASSUME Finish PROVE Goal
    <3>1. /\ rpc = "finish" /\ rpc' = "push" /\ info'.case = "completed" /\ UNCHANGED <<test, todo>>
      BY <1>2, <2>3 DEF Finish, UpdateCase, RunnerInfo
    <3> QED
      BY <1>1, <1>2, <1>3, <1>4, <1>5, <3>1
         DEF Acknowledged, Writes, Syncs
  <2>4. ASSUME Ack PROVE Goal
    <3>1. /\ rpc = "ack" /\ rpc' = "kill" /\ info'.case = "cancelled" /\ UNCHANGED <<test, todo>>
      BY <1>2, <2>4 DEF Ack, UpdateCase, RunnerInfo
    <3> QED
      BY <1>1, <1>2, <1>3, <1>4, <1>5, <3>1
         DEF Acknowledged, Writes, Syncs
  <2>5. ASSUME Poll \/ Read \/ Kill \/ Push \/ Complete \/ LingerEnds PROVE Goal
    BY <1>1, <1>2, <1>6, <2>5
       DEF Poll, Read, Kill, Push, Complete, LingerEnds, UpdateRunner, envVars, RunnerInfo
  <2> QED
    BY <1>8, <2>1, <2>2, <2>3, <2>4, <2>5 DEF Process
<1>9. ASSUME EvalCrashes PROVE Goal
  BY <1>1, <1>6, <1>9 DEF EvalCrashes, Go, envVars
<1>10. ASSUME Worker(w) PROVE Goal
  <2> USE DEF InTest
  <2>1. ASSUME StepRead(w) PROVE Goal
    <3>1. /\ test[w] = "read" /\ rpc' = rpc /\ rpc # "mark" /\ info' = info
          /\ \/ /\ info.control \in Demands /\ info.case # info.control
                /\ test'[w] = "write" /\ todo'[w] = info.control
             \/ /\ ~(info.control \in Demands /\ info.case # info.control)
                /\ test'[w] = IF info.case = "running" THEN "body" ELSE "read"
                /\ todo' = todo
      BY <1>2, <2>1 DEF StepRead, CollectInTime, envVars
    <3> QED
      BY <1>1, <1>2, <1>3, <1>4, <1>5, <3>1
         DEF Acknowledged, Writes, Syncs, Demands
  <2>2. ASSUME StepWrite(w) PROVE Goal
    <3>1. /\ test[w] = "write" /\ rpc' = rpc /\ info'.case = todo[w]
          /\ test'[w] = IF todo[w] = "running" THEN "body" ELSE "read"
      BY <1>2, <2>2 DEF StepWrite, UpdateCase, RunnerInfo
    <3> QED
      BY <1>1, <1>2, <1>3, <1>4, <1>5, <3>1
         DEF Acknowledged, Writes, Syncs
  <2>3. ASSUME BodyEnds(w) PROVE Goal
    <3>1. /\ test[w] = "body" /\ rpc' = rpc /\ info' = info /\ todo' = todo
          /\ test'[w] \in {"read", "ended"}
      BY <1>2, <2>3 DEF BodyEnds, envVars
    <3> QED
      BY <1>1, <1>2, <1>3, <1>4, <1>5, <3>1
         DEF Acknowledged, Writes, Syncs
  <2> QED
    BY <1>10, <2>1, <2>2, <2>3 DEF Worker
<1>11. ASSUME PodGone \/ PodFails PROVE Goal
  BY <1>1, <1>2, <1>6, <1>11 DEF PodGone, PodFails, Vanish
<1>12. Goal
  BY <1>1, <1>7, <1>8, <1>9, <1>10, <1>11 DEF EvalNext
<1>13. BeforeTests' /\ (~Over => Controlled')
  <2>1. BeforeTests'
    BY <1>1, <1>12 DEF BeforeTests
  <2>2. ASSUME ~Over PROVE Controlled'
    <3>1. Controlled
      BY <2>2 DEF ParkContext, ParkInv
    <3> QED
      BY <1>1, <1>3, <1>5, <1>12, <2>2, <3>1 DEF Controlled, Syncs
  <2> QED
    BY <2>1, <2>2
<1> QED
  BY <1>1, <1>3, <1>12, <1>13 DEF ParkContext, ParkInv, Over

(* While one thread writes the record and one test follows the commands,   *)
(* a record that says PAUSED is true: redis holds the pause, and the test  *)
(* is not in the body of a step, however many commands came before.        *)
THEOREM PausedCaseIsParked ==
    ASSUME OneTest
    PROVE  Spec => []PausedIsParked
<1>1. OneWrites
  BY DEF OneTest, OneWrites
<1>2. Init => StatusInv /\ ParkInv
  BY DEF Init, EnvInit, CtlInit, EvalInit, NoInfo, StatusInv, CommandPcs, ParkInv, Over, Controlled,
         BeforeTests, Acknowledged, Syncs, Writes
<1>3. TypeInv /\ StatusInv /\ ParkInv /\ [Next]_vars => StatusInv' /\ ParkInv'
  <2> SUFFICES ASSUME TypeInv, StatusInv, ParkInv, [Next]_vars PROVE StatusInv' /\ ParkInv'
    OBVIOUS
  <2>1. CASE CtlNext /\ UNCHANGED evalVars
    BY <1>1, <2>1, StatusCtl, ParkCtl DEF TypeInv, ParkContext
  <2>2. CASE EvalNext /\ UNCHANGED ctlVars
    BY <2>2, ParkEval DEF ctlVars, StatusInv, ParkContext
  <2>3. CASE HashExpires
    BY <2>3 DEF HashExpires, May, OneTest
  <2>4. CASE UNCHANGED vars
    BY <2>4 DEF vars, envVars, ctlVars, evalVars, StatusInv, ParkInv, Over, Controlled,
                BeforeTests, Acknowledged, Syncs, Writes
  <2> QED
    BY <2>1, <2>2, <2>3, <2>4 DEF Next, EvalNext
<1>4. TypeInv /\ StatusInv /\ ParkInv => PausedIsParked
  <2> SUFFICES ASSUME TypeInv, StatusInv, ParkInv, record = "PAUSED", Alive
               PROVE  info.control = "paused" /\ \A w \in Workers : test[w] # "body"
    BY DEF PausedIsParked
  <2>1. ~Syncs("pause")
    BY CommandTables DEF StatusInv, Syncs
  <2> QED
    BY <2>1 DEF ParkInv, Over, Alive, Controlled, Acknowledged
<1> QED
  BY <1>2, <1>3, <1>4, TypeInit, TypeStep, PTL DEF Spec
=============================================================================
