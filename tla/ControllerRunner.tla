-------------------------- MODULE ControllerRunner --------------------------
(***************************************************************************)
(* The controller's side of one evaluation case: the case record in MySQL, *)
(* the manager process (manager.py) with its message loop and its monitor  *)
(* thread, the Runner thread of the case (runner.py), and the requests of  *)
(* auto_test.py that the manager receives.                                 *)
(*                                                                         *)
(* Two actors execute commands on the case: its Runner thread, through the *)
(* callback slot, and the monitor thread, which calls cancel() itself.     *)
(***************************************************************************)
EXTENDS RunnerEnv, Naturals, Sequences

CONSTANTS
    Commands,      \* the commands Update lets through to the manager
    MaxAbnormal,   \* POD_MAX_ABNORMAL_STATUS_NUMBER
    MaxRequests    \* bound: how many commands clients send

AllCommands == {"pause", "cancel", "resume"}

ASSUME CommandsAssumption == Commands \subseteq AllCommands
ASSUME MaxAbnormalAssumption == MaxAbnormal \in Nat \ {0}
ASSUME MaxRequestsAssumption == MaxRequests \in Nat

VARIABLES
    record,     \* CaseRecord.status
    messages,   \* the queue between the API server and the manager
    requests,   \* commands sent so far
    queued,     \* the Runner is in manager.runner_queue
    expired,    \* RUNNER_TIMEOUT has passed since the Runner was made
    callback,   \* Runner.callback
    pc,         \* where the Runner thread and the monitor thread are
    cmd,        \* the callback the Runner thread has read
    count,      \* wait(): checks that did not find the pod running
    started     \* wait(): runner_started

ctlVars == <<record, messages, requests, queued, expired, callback, pc, cmd, count, started>>

Actors == {"runner", "monitor"}

Records == {"INIT", "STARTING", "STARTED", "PENDING", "PAUSING", "PAUSED",
            "STOPPING", "FINISHED", "ERROR", "EXCEPTION"}

CommandPcs == {"doing", "control", "sync", "done"}
RunnerPcs == {"none", "unstarted", "start", "install", "init", "limit", "check", "pend", "mark",
              "poll", "signal", "clear", "error", "stopping", "collect", "finish",
              "exited", "raised", "down"} \cup CommandPcs
MonitorPcs == {"scan", "uninstall", "delete", "remove"} \cup CommandPcs

CtlTypeOK ==
    /\ record \in Records
    /\ messages \in Seq({"create"} \cup AllCommands)
    /\ requests \in 0..MaxRequests
    /\ queued \in BOOLEAN
    /\ expired \in BOOLEAN
    /\ callback \in AllCommands \cup {"none"}
    /\ pc \in [Actors -> RunnerPcs \cup MonitorPcs]
    /\ pc["runner"] \in RunnerPcs
    /\ pc["monitor"] \in MonitorPcs
    /\ cmd \in AllCommands \cup {"none"}
    /\ count \in Nat
    /\ started \in BOOLEAN

(* Post has saved the record and put the create message.                   *)
CtlInit ==
    /\ record = "INIT"
    /\ messages = <<"create">>
    /\ requests = 0
    /\ queued = FALSE
    /\ expired = FALSE
    /\ callback = "none"
    /\ pc = [runner |-> "none", monitor |-> "scan"]
    /\ cmd = "none"
    /\ count = 0
    /\ started = FALSE

Jump(actor, from, to) == pc[actor] = from /\ pc' = [pc EXCEPT ![actor] = to]

(* update_case_record logs a database error and goes on.                   *)
SetRecord(status) == record' = status \/ (May("dbfail") /\ UNCHANGED record)

Alive == pc["runner"] \notin {"none", "unstarted", "exited", "raised", "down"}

(* The statuses a command goes through: CR_STATUS_TARGET_MAP, and what     *)
(* pause, cancel and resume write.                                         *)
Doing   == [pause |-> "PAUSING", cancel |-> "STOPPING",  resume |-> "STARTING"]
Done    == [pause |-> "PAUSED",  cancel |-> "FINISHED",  resume |-> "STARTED"]

(* Mutant of Control: the spelling differs from redis/const.py.            *)
ControlMisspelt == [pause |-> "paused", cancel |-> "canceled", resume |-> "running"]

Control == [pause |-> "paused",  cancel |-> "cancelled", resume |-> "running"]

(* PARAMS_STATUS_TARGET_MAP: the statuses in which a command is accepted.  *)
Supported == [pause |-> {"STARTED"}, cancel |-> {"STARTED", "PAUSED"}, resume |-> {"PAUSED"}]

-----------------------------------------------------------------------------
(* The API server and the manager's message loop                           *)

(* Update: a request whose status tables allow it becomes a message.  The  *)
(* client waits ten seconds at most, so the next one may come at any time. *)
Update(c) ==
    /\ requests < MaxRequests
    /\ record \in Supported[c] \ {Doing[c], Done[c]}
    /\ messages' = Append(messages, c)
    /\ requests' = requests + 1
    /\ UNCHANGED <<envVars, record, queued, expired, callback, pc, cmd, count, started>>

Receive(m) ==
    /\ messages # <<>> /\ Head(messages) = m
    /\ messages' = Tail(messages)

(* insert: the Runner is in the queue before its thread is started.        *)
Insert ==
    /\ Receive("create")
    /\ queued' = TRUE
    /\ Jump("runner", "none", "unstarted")
    /\ UNCHANGED <<envVars, record, requests, expired, callback, cmd, count, started>>

StartThread ==
    /\ Jump("runner", "unstarted", "start")
    /\ UNCHANGED <<envVars, record, messages, requests, queued, expired, callback, cmd,
                   count, started>>

(* pause, cancel and resume put the command in the callback slot, over any *)
(* command that waits there; a case that has left the queue is not found.  *)
Signal(c) ==
    /\ pc["runner"] # "unstarted"
    /\ Receive(c)
    /\ callback' = IF queued THEN c ELSE callback
    /\ UNCHANGED <<envVars, record, requests, queued, expired, pc, cmd, count, started>>

-----------------------------------------------------------------------------
(* The Runner thread: run() up to wait()                                   *)

Start ==
    /\ Jump("runner", "start", "install")
    /\ SetRecord("STARTING")
    /\ UNCHANGED <<envVars, messages, requests, queued, expired, callback, cmd, count, started>>

(* exec_env: anything on stderr makes it return without init_runner_info,  *)
(* whether helm installed the release or not; an exception is logged and   *)
(* init_runner_info follows.                                               *)
Install ==
    /\ \/ HelmInstall /\ Jump("runner", "install", "init")
       \/ May("helm") /\ (HelmInstall \/ UNCHANGED pod) /\ Jump("runner", "install", "check")
       \/ May("io") /\ (HelmInstall \/ UNCHANGED pod) /\ Jump("runner", "install", "init")
    /\ UNCHANGED <<info, record, messages, requests, queued, expired, callback, cmd,
                   count, started>>

InitInfo ==
    /\ Jump("runner", "init", "limit")
    /\ InitRunnerInfo
    /\ UNCHANGED <<pod, record, messages, requests, queued, expired, callback, cmd,
                   count, started>>

LimitInfo ==
    /\ Jump("runner", "limit", "check")
    /\ ExpireRunnerInfo
    /\ UNCHANGED <<pod, record, messages, requests, queued, expired, callback, cmd,
                   count, started>>

-----------------------------------------------------------------------------
(* The Runner thread: wait()                                               *)

Loop(n) == IF n < MaxAbnormal THEN "check" ELSE "error"

(* check_runner_pod_running, when its output has "Running".                *)
FindRunning ==
    /\ pod = "running"
    /\ Jump("runner", "check", IF started THEN "poll" ELSE "mark")
    /\ UNCHANGED <<envVars, record, messages, requests, queued, expired, callback, cmd,
                   count, started>>

(* Mutant: a started Runner that has used up its checks gives up without   *)
(* having become pending.                                                  *)
FindNotRunningAbrupt ==
    /\ pod # "running" \/ May("kubectl")
    /\ count' = count + 1
    /\ Jump("runner", "check",
            IF started /\ count + 1 < MaxAbnormal THEN "pend" ELSE Loop(count + 1))
    /\ UNCHANGED <<envVars, record, messages, requests, queued, expired, callback, cmd, started>>

(* Mutant: the loop continues before it counts.                            *)
FindNotRunningUncounted ==
    /\ pod # "running" \/ May("kubectl")
    /\ Jump("runner", "check", IF started THEN "pend" ELSE Loop(count))
    /\ UNCHANGED <<envVars, record, messages, requests, queued, expired, callback, cmd, count,
                   started>>

(* ... and when it has not.  The count is never reset.                     *)
FindNotRunning ==
    /\ pod # "running" \/ May("kubectl")
    /\ count' = count + 1
    /\ Jump("runner", "check", IF started THEN "pend" ELSE Loop(count + 1))
    /\ UNCHANGED <<envVars, record, messages, requests, queued, expired, callback, cmd, started>>

Pend ==
    /\ Jump("runner", "pend", Loop(count))
    /\ SetRecord("PENDING")
    /\ started' = FALSE
    /\ UNCHANGED <<envVars, messages, requests, queued, expired, callback, cmd, count>>

MarkStarted ==
    /\ Jump("runner", "mark", "poll")
    /\ SetRecord("STARTED")
    /\ started' = TRUE
    /\ UNCHANGED <<envVars, messages, requests, queued, expired, callback, cmd, count>>

(* check_runner_pod_completed: a missing runner-status is a KeyError.      *)
PollCompleted ==
    /\ Jump("runner", "poll", CASE info.runner = "absent"    -> "raised"
                                [] info.runner = "completed" -> "stopping"
                                [] OTHER                     -> "signal")
    /\ UNCHANGED <<envVars, record, messages, requests, queued, expired, callback, cmd,
                   count, started>>

(* signal() without argument reads the slot, and leaves it as it is.       *)
TakeCallback ==
    /\ Jump("runner", "signal", IF callback = "none" THEN "check" ELSE "doing")
    /\ cmd' = callback
    /\ UNCHANGED <<envVars, record, messages, requests, queued, expired, callback, count,
                   started>>

(* self.callback = None, once the callback has returned.                   *)
ClearCallback ==
    /\ Jump("runner", "clear", "check")
    /\ callback' = "none"
    /\ cmd' = "none"
    /\ UNCHANGED <<envVars, record, messages, requests, queued, expired, count, started>>

GiveUp ==
    /\ Jump("runner", "error", "raised")
    /\ SetRecord("ERROR")
    /\ UNCHANGED <<envVars, messages, requests, queued, expired, callback, cmd, count, started>>

-----------------------------------------------------------------------------
(* The Runner thread: run() after wait()                                   *)

Stopping ==
    /\ Jump("runner", "stopping", "collect")
    /\ SetRecord("STOPPING")
    /\ UNCHANGED <<envVars, messages, requests, queued, expired, callback, cmd, count, started>>

(* get_results: the report and the allure archive of what was uploaded.    *)
Collect ==
    /\ Jump("runner", "collect", "finish")
    /\ UNCHANGED <<envVars, record, messages, requests, queued, expired, callback, cmd,
                   count, started>>

Finished ==
    /\ Jump("runner", "finish", "exited")
    /\ SetRecord("FINISHED")
    /\ UNCHANGED <<envVars, messages, requests, queued, expired, callback, cmd, count, started>>

-----------------------------------------------------------------------------
(* pause(), cancel() and resume(): by the Runner thread or the monitor     *)

Command(actor) == IF actor = "monitor" THEN "cancel" ELSE cmd

DoCommand(actor) ==
    /\ Jump(actor, "doing", "control")
    /\ SetRecord(Doing[Command(actor)])
    /\ UNCHANGED <<envVars, messages, requests, queued, expired, callback, cmd, count, started>>

WriteControl(actor) ==
    /\ Jump(actor, "control", "sync")
    /\ UpdateControl(Control[Command(actor)])
    /\ UNCHANGED <<pod, record, messages, requests, queued, expired, callback, cmd, count,
                   started>>

(* What an exception does: it ends the Runner thread, while the monitor    *)
(* logs it and starts its next scan.                                       *)
Raise(actor) == IF actor = "runner" THEN "raised" ELSE "scan"

(* Mutant: a case that is over acknowledges nothing.                       *)
WaitSyncStrict(actor) ==
    /\ IF HasStatuses
         THEN info.control = info.case /\ Jump(actor, "sync", "done")
         ELSE Jump(actor, "sync", Raise(actor))
    /\ UNCHANGED <<envVars, record, messages, requests, queued, expired, callback, cmd,
                   count, started>>

(* wait_case_sync polls every five seconds, without a bound.               *)
WaitSync(actor) ==
    /\ IF HasStatuses
         THEN Synced /\ Jump(actor, "sync", "done")
         ELSE Jump(actor, "sync", Raise(actor))
    /\ UNCHANGED <<envVars, record, messages, requests, queued, expired, callback, cmd,
                   count, started>>

(* Mutant of CommandDone: a cancelled Runner leaves the queue without      *)
(* remove_env.                                                             *)
CommandDoneNoRemoveEnv(actor) ==
    /\ Jump(actor, "done", IF actor = "runner" THEN "clear" ELSE "remove")
    /\ SetRecord(Done[Command(actor)])
    /\ UNCHANGED <<envVars, messages, requests, queued, expired, callback, cmd, count, started>>

CommandDone(actor) ==
    /\ Jump(actor, "done", IF actor = "runner" THEN "clear" ELSE "uninstall")
    /\ SetRecord(Done[Command(actor)])
    /\ UNCHANGED <<envVars, messages, requests, queued, expired, callback, cmd, count, started>>

-----------------------------------------------------------------------------
(* The monitor thread                                                      *)

(* Mutant of Scan: the Runner is started after its thread was looked at.   *)
ScanUnstarted ==
    /\ queued
    /\ \/ ~Alive /\ Jump("monitor", "scan", "uninstall")
       \/ Alive /\ expired /\ Jump("monitor", "scan", "doing")
    /\ UNCHANGED <<envVars, record, messages, requests, queued, expired, callback, cmd, count,
                   started>>

(* A Runner that is not alive is removed, one past its timeout cancelled   *)
(* first.  Thread.is_alive is false before start() as well.                *)
Scan ==
    /\ queued
    /\ \/ ~Alive /\ (pc["runner"] # "unstarted" \/ May("startrace"))
          /\ Jump("monitor", "scan", "uninstall")
       \/ Alive /\ expired /\ Jump("monitor", "scan", "doing")
    /\ UNCHANGED <<envVars, record, messages, requests, queued, expired, callback, cmd,
                   count, started>>

(* remove_env: what helm prints is logged; an exception skips the rest.    *)
Uninstall ==
    /\ \/ HelmUninstall /\ Jump("monitor", "uninstall", "delete")
       \/ May("io") /\ UNCHANGED pod /\ Jump("monitor", "uninstall", "remove")
       \/ May("helm") /\ UNCHANGED pod /\ Jump("monitor", "uninstall", "delete")
    /\ UNCHANGED <<info, record, messages, requests, queued, expired, callback, cmd, count,
                   started>>

(* ... also one of redis, after helm has uninstalled the release.          *)
DeleteInfo ==
    /\ Jump("monitor", "delete", "remove")
    /\ DeleteRunnerInfo \/ (May("io") /\ UNCHANGED info)
    /\ UNCHANGED <<pod, record, messages, requests, queued, expired, callback, cmd, count,
                   started>>

Remove ==
    /\ Jump("monitor", "remove", "scan")
    /\ queued' = FALSE
    /\ UNCHANGED <<envVars, record, messages, requests, expired, callback, cmd, count, started>>

-----------------------------------------------------------------------------
(* Exceptions, time and restarts                                           *)

(* The calls that may raise outside a try: ssh, files, redis.              *)
RaiseIO(actor) ==
    /\ May("io")
    /\ pc[actor] \in IF actor = "runner"
                        THEN {"install", "init", "limit", "check", "poll", "control", "sync", "collect"}
                        ELSE {"control", "sync", "uninstall"}
    /\ pc' = [pc EXCEPT ![actor] = Raise(actor)]
    /\ UNCHANGED <<envVars, record, messages, requests, queued, expired, callback, cmd,
                   count, started>>

(* Runner.timeout becomes true.                                            *)
Expire ==
    /\ May("expire")
    /\ pc["runner"] # "none" /\ ~expired
    /\ expired' = TRUE
    /\ UNCHANGED <<envVars, record, messages, requests, queued, callback, pc, cmd, count, started>>

(* The controller goes down and comes up.  Queue, messages and threads are *)
(* lost; Manager.init marks every case that is not over.                   *)
Restart ==
    /\ May("restart")
    /\ pc["runner"] # "down"
    /\ pc' = [runner |-> "down", monitor |-> "scan"]
    /\ \/ record' = IF record \in {"FINISHED", "ERROR", "EXCEPTION"} THEN record ELSE "EXCEPTION"
       \/ May("dbfail") /\ UNCHANGED record
    /\ messages' = <<>>
    /\ queued' = FALSE
    /\ callback' = "none"
    /\ cmd' = "none"
    /\ count' = 0
    /\ started' = FALSE
    /\ UNCHANGED <<envVars, requests, expired>>

-----------------------------------------------------------------------------
Execute(actor) ==
    DoCommand(actor) \/ WriteControl(actor) \/ WaitSync(actor) \/ CommandDone(actor)

RunnerThread ==
    \/ Start \/ Install \/ InitInfo \/ LimitInfo
    \/ FindRunning \/ FindNotRunning \/ Pend \/ MarkStarted
    \/ PollCompleted \/ TakeCallback \/ ClearCallback \/ GiveUp
    \/ Stopping \/ Collect \/ Finished
    \/ Execute("runner")

MonitorThread == Scan \/ Uninstall \/ DeleteInfo \/ Remove \/ Execute("monitor")

MessageLoop == Insert \/ StartThread \/ \E c \in AllCommands : Signal(c)

CtlNext ==
    \/ \E c \in Commands : Update(c)
    \/ MessageLoop \/ RunnerThread \/ MonitorThread
    \/ \E actor \in Actors : RaiseIO(actor)
    \/ Expire \/ Restart
=============================================================================
