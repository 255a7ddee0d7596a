# Formal models of df-evaluation

TLA+ modules, TLC configurations and TLAPS proofs about the evaluation service
of this repository: a controller that runs performance test cases in
Kubernetes pods, the evaluation-runner inside such a pod, and the redis hash,
the MySQL record and the message queue through which they talk.

Paths below are relative to `src/`. `EC` is `eval-controller/eval-controller`,
`ER` is `eval-runner/eval-runner`, `EL` is `eval-lib`.

## 1. The system

| Component | State | Operations | Talks to |
|---|---|---|---|
| API server (`EC/server`, `EC/service/auto_test.py`) | the case records in MySQL, `UPDATE_LOCK` | Post, Get, Update, Delete | message queue, MySQL |
| Manager process (`EC/manager/manager.py`) | `runner_queue`, message queue | message loop: insert, pause, cancel, resume; monitor thread; `init` at start-up | Runner threads |
| Runner thread, one per case (`EC/manager/runner.py`) | callback slot, `wait()`'s count and `runner_started` | run, exec_env, wait, pause, cancel, resume, wait_case_sync, remove_env, get_results | helm and kubectl over ssh, redis, MySQL |
| Redis information (`EL/databases/redis`) | one hash per case: control, case and runner status, TTL of a day; a global lock | init, update, get, delete, pause, cancel, resume | used by controller, eval-runner and tests |
| eval-runner process (`ER/eval-runner.py`) | the pytest process, log forwarder | exec_pytest, wait, interrupt, push_results | redis, result API |
| Test cases (`ER/case`, `step()` in `ER/common/utils.py`) | where each pytest worker is; cloud instances | step(), bodies of steps | redis, Aliyun, ssh |
| Result service and report (`EC/service/result.py`, `EC/report`) | files of the runner's data directory | post_log, get_log, post_zip, get_performance_md, report merge | eval-runner, clients |
| Platform and agent tools (`ER/platform_tools`, `ER/agent_tools`) | instances, deployments | create, await, delete; deploy, sync, retry | Aliyun, ssh |
| eval-bench (`eval-bench`) | worker goroutines, channels, latency results | start, stop, collect, rate limiting | the server under test |

What is hard here: three processes and several threads per case that share
three statuses in redis and one in MySQL without transactions; commands that
are acknowledged by comparing two fields which several writers set; a record
written by two threads; time-outs (an hour in the monitor, a day in redis) that
race late answers; failures that are only logged (`update_case_record`,
`ResultClient`, `helm`); and restarts that lose every thread but no pod.

What makes each component right:

* Runner thread and manager: no command lost, a record that tells the truth and
  ends in a final status, no pod left behind, a queue that drains, results
  collected only once they are there.
* eval-runner and `step()`: a pause parks the test, a cancel ends it, every
  command is acknowledged; "completed" means uploaded.
* Redis lock: mutual exclusion as long as sections are short; released in the end.
* API: the quota holds, tables of statuses are enforced, only the named cases change.
* Log forwarding: what the controller has is a prefix of the log (without gaps).
* Instances: that deleting them fails can be seen from the answers of the calls before.
* eval-bench: the rate asked for is produced; samples are counted once.

## 2. Modules

    The life of a case
      RunnerEnv            redis hash and pod: what both sides share
        EvalRunner         the process in the pod and its pytest workers
        ControllerRunner   record, manager, monitor, Runner thread, commands
          CaseLifecycle    both sides together: one case from POST to its end
      CaseStatus           what a client sees of the record (abstract)
    Between cases
      AutoTestApi          the API's threads, its lock and quota; cases as CaseStatus
      ManagerQueue         the list of Runners, message loop and monitor
    Under the life of a case
      RedisLock            the lock and the calls under it, command by command
      AtomicInfo           what RunnerEnv relies on (abstract)
    Beside it: the log, the test, the report
      LogForward           eval-runner to controller
        LogReading         controller to client
      CloudInstances       machines and their provider
        AgentDeployment    the agent, the deepflow server, the helpers
          NginxCase        the test: its script from step 1 to step 7
      ReportData           measures to report
    eval-bench
      BenchRate            flags and rate arithmetic
        EvalBench          goroutines and channels

`MC...` modules hold the instances for TLC, `...Proofs` modules the theorems
(`ReportData` is checked as it is).

How they fit together. Every state of the service is keyed by the case's uuid
(record, hash, release, Runner, message), so `CaseLifecycle` is the life of ONE
case in full, and `AutoTestApi` and `ManagerQueue` are what cases do to each
other, with the inside of a case reduced: to a behaviour of `CaseStatus`, which
`CaseLifecycle` is shown to implement, and to a thread that ends. `RunnerEnv`
takes each call of `RedisRunnerInfo` as one step; `RedisLock` is shown, and
proved, to implement that (`AtomicInfo`). Log and report hang on the two places where
`EvalRunner` starts a thread and uploads; `NginxCase` is one of the tests that
`EvalRunner` has as a sequence of bodies.

**RunnerEnv.** `info` is the hash `runner-<uuid>`; a field is `"absent"` when it
(or the hash) does not exist, as after `delete_runner_info`, from where HSET
brings back a hash without a TTL. A call of `RedisRunnerInfo` is one atomic
step, because it runs under the global lock; `init_runner_info`, which takes no lock, is
two, HMSET and EXPIRE (`InitInfo`, `LimitInfo`). `pod` is what `kubectl get pod`
would show. `Perturbations` selects what may go wrong; each module's comment
says what each name stands for. A run is a choice of them.

**EvalRunner.** `rpc` is the place in `Runner.run`: `exec` (Popen), `mark` (the
update after it), `poll`/`read` (the two halves of the loop of `wait`), `ack`
and `kill` (the cancel branch), `finish`, `push`, `complete`, `linger`. Each
worker `w` is in `step()` (`read`, or `write` between the read and the write of
redis), in the body of a step, or over. A body may end the test at any
time (an assertion fails). `Workers` is `--workers {process_num}`. The update of
`mark` comes after pytest was started, so a test may be faster; `CollectInTime` keeps
the first step() behind it unless `earlystep` is considered.

**ControllerRunner.** `pc` has the Runner thread's and the monitor's place. A
command is executed by an *actor*: by the Runner thread through the callback
slot (`TakeCallback` .. `ClearCallback`) or by the monitor, which calls
`cancel()` itself. `DoCommand`, `WriteControl`, `WaitSync` and `CommandDone` are
the four steps of `pause`, `cancel` and `resume`. An exception ends the Runner
thread and returns the monitor to its scan (`Raise`). `Commands` is what the API
lets through: `Update` (`EC/service/auto_test.py:175`) tests the status against a
list that holds one `dict_keys` object, so as written it refuses every status;
the models take the commands of the status tables, which is what the code
behind that test is for. `Commands = {}` would be the service as it answers
today, and is covered by every run, since no command needs to be sent.

**CaseLifecycle.** The two sides interleave. `Next` adds redis's own expiry.
`Fairness` is weak fairness of each thread and process.

**CaseStatus.** The record's status as a client may rely on it: a completed
status only right after its own progressive one, ERROR only from STARTING or
PENDING, FINISHED after collecting only from STOPPING, nothing but a restart
changes the record of a Runner that is over. `CaseLifecycle` implements it with
`status <- record` and `phase <- Phase`.

**RedisLock.** One action per redis command of `acquire_lock`, `release_lock` and
the calls between them; `owner` names the call whose identifier the key holds,
`dirty` the clients whose WATCH has been invalidated. A call is an update of two
fields (as `exec_pytest` makes it), a read or a deletion. What may go wrong:
clients die (`crash`; `tear`: between the two HSETs), a holder exceeds the lock's
twenty seconds (`slow`), a waiter its thirty (`giveup`: the code tests the time
between two rounds, after its sleep, and then enters without the lock), and
`init_runner_info`, which takes no lock, may meet the other calls (`earlyboot`). The values a field
can have do not matter here: it holds the name of its last writer.

**LogForward, LogReading.** The log is a sequence of pieces numbered from 1; a
read, an append and a cut may end between any two, and every other piece ends a line.
`LogForward` has pytest, the `LogClient` thread (`check`, `read`, `post`) and
`post_log`, whose append may fail before the copy is there, after any part of the batch,
or inside a character (`wide`; `broken` keeps the places). `LogReading` adds `post_zip`,
`get_log` and a client that asks each time for the lines after those it has; a page with a cut
character cannot be decoded and is answered 500 (`Undecodable`). `earlyzip` lets the archive arrive before
the forwarder's thread has ended, which the code does not exclude.

**CloudInstances, AgentDeployment, NginxCase.** `pc` is the place in the test's
script; each call of it is an action, with a name after the function that makes
it. `known` collects what has come about. Three patterns cover how the code treats a
failure: `Try` fails the test, `Ignore` logs it and goes on, `Retry` repeats a
bounded number of times. What a later call needs of an earlier one is its `needs`,
so that a logged failure turns up where it really hurts. The provider
boots and halts instances, may leave one out of a listing or not find its name (`lookup`),
refuses to stop what is not running, or an empty list, and to delete what is not stopped;
`warned`, `omitted` and `refused` remember what was answered. The deepflow server registers an
agent and gives it an analyzer. `control` is the case's control status: before the first call of
each of the seven steps (`Openings`) `step()` waits while it is paused (`Parked`). A call without a
time limit (`Unlimited`) may never return (`Hangs`).

**BenchRate, EvalBench.** `main` of eval-bench, in two parts: from the flags to tokens
and executions (integers, no time), and from there the goroutines and their
channels, with the number of samples in place of the samples. `EvalBench` plans
every command line of the instance first and goes on with those of `Followed`. `Exec` sends a
request, `Scan` gets its answer, `Report` puts the time into a channel: the mysql client sends those of
all its sessions before the first `Scan` (`session` counts in both loops), the others have one.

**AutoTestApi.** Threads of the server (`Handlers`) with a request each; UPDATE_LOCK;
the message queue; and for each case its record (moving as `CaseStatus` allows), the
callback slot, the command being executed, and where the monitor is with it (`runner`). The monitor
may cancel a case of `Overtime`: it writes STOPPING and FINISHED beside the Runner, which goes on and
writes its own last status whatever the record shows (`MonitorCancels`, `MonitorEnds`,
`EndsRegardless`); such a case is no longer a behaviour of `CaseStatus`, and `Overdue` has it. An INSERT
that fails ends its request (`Save`). Four expressions keep the code
from doing what it is there for, and `Defects` says which of them are as written:
`attribute` (`conf.runner_max_num`), `membership` (`not in [....keys()]`), `where`
(`CaseRecord.uuid in uuids`), `route` (DELETE calls Update). As written, every POST is answered
500, every PATCH of a status 400 and every DELETE 500, and nothing else can be
said of the API; the run about the quota, the lock and the commands is therefore about
the handlers with the first two and the last repaired. `where` stays as written: an
update without a status is to set the status of every record to NULL, which MySQL
8.0 in its default strict mode, the one the charts deploy, refuses. `Disturbed` lets a
command take more than ten seconds, and a paused pod be missed. DELETE marks the
record and sends a message that the manager ignores.

**ManagerQueue.** `runner_queue` as a sequence, with the positions of the two
Python iterators that walk it: `at` of the message loop, `pos` of the monitor. Both
move on before a Runner is served, so a removal shifts the rest under them;
`shrunk` remembers that it happened during a search. `insert` is two steps, `Insert` and `Start`; the
monitor may look in between, and takes the Runner off (`early`). The monitor's cancel waits for as long as
`hash` does not say that the case answers: a pod that is `silent` keeps the one monitor thread until redis drops
the hash (`Forget`), and a hash that is missing is a KeyError, which ends the scan (`NoHash`, `GiveUp`).

**ReportData.** Measures in numbered rows, through yaml (keys sorted as strings),
`dict.update` (`Merged`: one file after the other), `Dict2Obj` to the template; a measure is its row number. `InOrder` and `AsStrings`
are what `yaml.dump` does. A file that cannot be read, merged or rendered ends the report with
a log entry (`ReportFails`). No test of the repository writes more than one row yet;
the template has five.

Definitions whose comment begins with "Mutant" are faulty variants: each shows
that one property of one run notices the fault. No specification uses them.

## 3. Runs

| Run | Instance | What may happen | Properties |
|---|---|---|---|
| `case_one_writer` | one worker, one step, three commands of any kind | all but expire, starved, dbfail, startrace, earlystep | `TypeOK`, `CollectAfterUpload`, `PausedIsParked`, `ImplementsStatus` |
| `case_removal` | one worker, one step, one pause or cancel; fair | all but io, helm, restart, startrace, dbfail, starved, upload | `NoOrphanPod`, `RunnerIsKnown`, `QueueDrains` |
| `case_undisturbed` | two workers, two steps, two of pause, resume; fair | earlystep | `CaseEnds`, `SyncReturns` |
| `case_command_lost` | one worker, two commands | earlystep | `OnlyExecutedIsCleared` is violated |
| `lock_calls` | two clients; fair | crash | `MutualExclusion`, `ImplementsAtomic`, `DeadLockFreed` |
| `lock_late` | two clients | everything | `ReleasesOwn` |
| `log_faults` | six pieces (three lines), pages of two; fair | disk, wide, net, file | `NoGaps`, `LogIsComplete`, `ReadsTheLog`, `ReadsItAll` |
| `nginx_faults` | two machines, three polls, two tries; fair | cloud, slow, lookup, fault, hang, pause, cancel | `PassedIsReal`, `RefusalsAreForetold`, `EveryStepCounts`, `TestEnds` |
| `bench_faults` | rates to 130, threads and sessions to 3; two threads followed, mysql with two sessions and http, full channels; fair | error, fatal, dial | `LimiterWorks`, `RateKept`, `StartedTogether`, `LossBounded`, `WorkersGoOn`, `EndsOnTime` |
| `api_updates` | two clients, two cases, a quota of one, three requests; fair | restart; cases end or fail, one may be cancelled by the monitor; the INSERT fails | `QuotaKept`, `OneCommandAtATime`, `LockHeldInside`, `RequestsEnd` |
| `manager_faults` | two cases, one command; fair | raise, old, deaf, forget, for either case | `OnlyOverLeave`, `FoundUnlessShrunk`, `EndedLeave` |
| `report_rows` | two cases, ten rows without gaps | cases without a result, a report that fails | `NoCaseLost`, `RowsAreMeasured` |

What the passing runs show:

* `CollectAfterUpload`: redis's runner-status never says "completed" before
  `push_results`, whatever is overwritten, deleted, expired or restarted.
* `PausedIsParked`: with one worker, a record that says PAUSED (and is served by a
  live Runner) means that no step is executing and that redis still holds the
  pause, across resumes and late writes of `step()`. It takes a test that does not
  reach its first step before `exec_pytest` has written the statuses: see below.
* `ImplementsStatus`: see CaseStatus. It fails as soon as the monitor's cancel
  writes beside the Runner thread (`expire`), which is why that run leaves time-outs
  out; an update that fails (`dbfail`) breaks it too.
* `NoOrphanPod`: with time-outs, an uninstall never overtakes an install, since a
  cancel is not acknowledged before the hash is complete. `RunnerIsKnown`: a Runner
  thread that lives is in the queue, where its commands find it and the monitor
  watches it, or the monitor has given it up; its mutant scans a Runner that is not yet started.
* `QueueDrains`: an eval-runner that dies keeps its pod Running, and a cancel of it
  waits without a bound; the TTL set by `init_runner_info` is what frees the
  monitor, after a day. Its mutant forgets the TTL.
* `CaseEnds`, `SyncReturns`: pause and resume always return, a case always ends
  or stays paused. A cancel does not always return: see below.
* `MutualExclusion`, `ImplementsAtomic`: while calls stay within the lock's times, and
  no client dies between the two HSETs of an update, each call is one step.
  `DeadLockFreed`: SETNX and EXPIRE are two commands; a waiter sets the expiration
  time that a death between them leaves unset. `ReleasesOwn`: WATCH, GET and
  MULTI/EXEC never delete another's key, even when the own one has expired
  between the GET and the DELETE.
* `NoGaps`, `LogIsComplete`: the log position advances on a 200 only and from what
  was read, so batches are repeated, never skipped; the last batch, sent after
  stop(), is not sent again when it is refused. `ReadsTheLog`, `ReadsItAll`: a page
  ends at a newline, so that a client which asks on from the number of lines it
  has sees each once, though a line may be half there when it asks. It comes to the end, or to a page with half a
  character that a failed append has left: the batch is appended again behind it, but the half stays, and every
  request for that page is answered 500.
* `PassedIsReal`: most calls of the test are not looked at
  when they fail. What passes was nonetheless deployed, configured and measured,
  because each silence makes a later call fail. Wrk2 is the exception (below). `RefusalsAreForetold`: deleting
  goes wrong silently or late (machines refused, or left behind by a test that passes), but never without
  a sign: one of the waits has answered false, or an answer of the provider lacked a machine. The code reads
  neither. Its mutant answers true after the last poll. `EveryStepCounts`: there is no way back in the script but to
  the next machine, and each loop counts its own rounds (`ToGo` numbers the calls). `TestEnds`: so the test ends,
  unless one of the calls without a time limit hangs or the case is found paused again and again; the code bounds neither.
* `LimiterWorks`, `RateKept`: roundings up over threads and down over sessions never
  give a limiter of rate 0 and keep the rate within a tenth and a request per
  thread. `StartedTogether`, `LossBounded`, `WorkersGoOn`, `EndsOnTime`: the
  channels have room where they must not block, the collector keeps the workers
  going and stops, with requests that fail, hang, or kill the program. What is lost are two full channels and one
  execution per worker; with mysql that is a request per session.
* `QuotaKept`: two POSTs count under the lock, and a record only becomes active
  there; `OneCommandAtATime`: Await, inside the lock, is what keeps a second
  command from replacing the first in its slot. Both leave out the cases that the monitor has found to take too
  long (`Overdue`), of whose records they are false (the second with a fourth request); that these exist, and what the monitor writes for
  them, disturbs none of the others. `LockHeldInside`: the lock is
  with the thread inside "with", and with nobody when there is none; `RequestsEnd`: so every request
  is answered, also when a case ends under a command or is over.
* `OnlyOverLeave`, `EndedLeave`: `remove` under both iterators hides Runners from a
  scan, but a Runner that runs unlisted was cancelled by the monitor, or met by it between append and start;
  and every ended one leaves in some later scan, though calls raise, a Runner before it never acknowledges its
  cancel, or has no hash. That the monitor ever comes past a silent case is the TTL of its hash, after a day.
  `FoundUnlessShrunk`: a command misses its Runner, if that is in the list, only when the list shrank meanwhile.
* `RowsAreMeasured`: the keys come back sorted as strings, "0", "1", "10", "2", and
  a value goes where its number says or to the end; with rows 0 to 9 that is the
  same. `NoCaseLost`: a report that is made has every case, since `dict.update` loses no key of its own; of
  keys that all files have, `case_name` and `add_case_info`, the one of the file read last stays.

### Where the code departs from what its documents or its own expressions say

`case_command_lost` (PROJECT.json, "findings") quotes the comment it contradicts: a
command that arrives while the Runner thread executes another is erased by
`self.callback = None`. The following were met while modelling; each can be had
from TLC by the change named in brackets.

The case:

* `step()` read "running", the eval-runner acknowledged "cancelled", `step()`
  writes "running", the worker is killed: the cancel waits for ever, in the
  Runner thread or in the monitor. [`case_undisturbed` with `Commands <- Everyone`:
  `SyncReturns` is violated]
* A cancelled case goes from FINISHED back to STOPPING, or to PENDING and ERROR
  when its pod completes before the next check: `CaseStatus` allows `Stop` and
  `SeePod` from there because the code takes them.
* `insert` appends before it starts the thread; a scan in between drops a Runner
  that then runs unmonitored, and nobody removes its pod. [`startrace` in
  `case_removal`: `RunnerIsKnown`, `NoOrphanPod`; `OnlyOverLeave` without `early`]
* Between a command's last update of the record and `self.callback = None` the next
  command is already allowed (the record says PAUSED, its request is answered), and is still
  erased from the slot. `OneCommandAtATime` counts a command as done with that update;
  `CommandsWait`, the condition of the theorem `WaitingCommandsAreKept`, covers this window too.
* `exec_pytest` writes "running" after it has started pytest. A test whose first
  `step()` comes before that and finds a pause writes "paused", which "running"
  overwrites; it writes "paused" once more later on. The resume that follows is acknowledged by the
  stale "running", the next pause by the stale "paused", and the body of a step runs
  under a PAUSED record. It takes three commands, and was found by a proof that would not
  close. [`earlystep` in `case_one_writer`: `PausedIsParked`]
* With several workers the first one that pauses acknowledges for all.
  [`Workers = {w1, w2}` in `case_one_writer`: `PausedIsParked`]

Lock and log:

* `acquire_lock` returns an identifier when its thirty seconds are over without the
  lock. [`giveup` in `lock_calls`: `MutualExclusion`]
* `line_size` of `get_log` becomes sed's second address, so it is the number of the
  last line and not a number of lines; a request beyond it gets one line.
* There are two log files: a client that read from the archive's before the first
  append reads on from the copy's. [`earlyzip` in `log_faults`: `ReadsTheLog`]
* An exception in `send_log` or in reading the file ends the forwarder's thread; the
  rest of the log comes with the results only, in the other file.
* A write that ends inside a character makes the lines from there on unreadable, page by page, for ever.
  [`ReadsItAll` without `Undecodable`]

The test and eval-bench:

* `_await_instances_status` returns False after its last poll without looking at what
  that poll found, and nobody reads it. A machine whose name the lookup does not find is passed over by
  `delete_instances`, and the test passes. [`RefusalsAreForetold` without `omitted`]
* The requests to the deepflow server and the waits for exit statuses have no time limit. [`TestEnds` without `hung`] A wrk2 that fails writes an empty file, and the test passes
  without a latency: `"latency"` is not among what `PassedIsReal` promises.
* `-c` divides the rate of every engine, but only mysql sends that many requests
  in an execution: http with `-c 3` sends a third. [`RateKept` without its condition]
* The http client dereferences the missing answer of a failed request, which ends
  eval-bench at the first error.

API and manager:

* The four expressions of `Defects`. [all four in `api_updates`: nothing is ever served]
* An answer after ten seconds (POST_TIMEOUT) leaves the command pending, and the next
  may be sent at once. [`Disturbed = TRUE`: `OneCommandAtATime`] After a cancel a record goes from FINISHED to
  STOPPING, which the quota counts again. [`cancel` among `Commands`: `QuotaKept`]
* A command misses its Runner when the monitor removes another one during the
  search, and is gone. [`FoundUnlessShrunk` without `shrunk`]
* A row that is missing moves the later ones into its place, since the blanks that
  are to fill the gap are `len - k` of them, a negative number. [`Gaps = TRUE`: `RowsAreMeasured`] Of eleven
  rows without gaps the last is lost: "10" comes third, is appended at place 2, and row 2 overwrites
  it. [`MaxRows = 11`: `RowsAreMeasured`] The report is written to
  `report/markdown`, `get_performance_md` reads `report`.

### Bounds

`MaxAbnormal` is 1 or 2 instead of 10: a first miss that is not the last
one, and the last one, are then both reached, and the count has no other use.
`MaxRequests` 1 to 3: two commands are what it takes for one to meet
another's execution, and pause, resume, pause for a word of the first to answer for the third;
the theorem about paused cases has any number. `Steps` 1 or 2: the loop of a test, and its last step. One
worker, or two where workers interfere. Two clients of the lock: a holder and one
that waits, repairs, or takes an expired key; a third does nothing a second does not, and
the theorems hold for any number. `MaxPieces` 6 and `MaxStored` 3: three lines over two
pages, any batch of which is refused, cut or repeated; `MaxStored` bounds the
repetitions, `MaxBroken` 1 the characters that are cut. `MaxPolls` 3, `MaxTries` 2: success at once, at the end, and never. Two machines as in the
test. `Rates` to 130 with three threads and three sessions: from below the
refusal (90) to above it, with every remainder that tokens tell apart; the theorem has
all. Two sessions of mysql and five executions of http are followed. `ChanSize` 1 instead of 10000, so that workers do block, `MaxExecs` 10 requests of all workers together. Two handlers,
two cases and a quota of one: one request too many. Two cases in the
manager's queue, either of which may be the one that holds the monitor up, before or behind the other (the
safety properties are proved for any number).
Ten rows are the most for which the order of strings is that of the template, for any
number of cases (theorem `RowsShown`). Deadlock is not checked:
a case, a test and a benchmark end, clients stop asking.

### Fairness

The threads are loops over sleeps and remote calls, so each takes a
step when it can; tests' bodies are assumed to end; Kubernetes starts and removes
pods; clocks advance. Clients and perturbations are not fair. Three assumptions
about time are in the actions instead: a pod does not start between `helm
install` and `init_runner_info` unless `earlyboot` is considered; pytest does not collect
its tests between `Popen` and the update that follows unless `earlystep` is; and the
hash's day is over only when nothing live is left to answer the monitor
(`Silent`), unless `starved` is. Pollers keep calling the lock (`WF` of `Call`: the
monitor and the eval-runner do so every few seconds). A log client asks again, and the
forwarder loops. The provider does what it was asked for, in its time.

What is not assumed: that a call of the test without a time limit returns (`Hangs` may come instead), that a paused
case is continued, that the deepflow server registers anything, that a pod acknowledges the monitor's cancel, that
a request of eval-bench is answered, that a thread or process which may die lives. Where the monitor comes past a
silent case all the same (`EndedLeave`, `QueueDrains`), it is redis that drops a hash with a TTL: `Forget` is fair for
cases past the manager's RUNNER_TIMEOUT, which is an hour: the hash's day is over some time after that. A Runner without its hash ends, since its wait reads the
same hash. `RequestsEnd` takes it that a Runner acknowledges (`WF` of `Acknowledge`): the code has ten
seconds of patience instead (POST_TIMEOUT), so that a request ends also where it does not.

Strong fairness is used where something is tried again and again and does not fail for ever: threads that
compete for UPDATE_LOCK (Python gives it to a waiter in the end), goroutines that wait for room in a channel (Go
queues them), `remove_env` and a cancel that is acknowledged, which `raise` may hit in a scan but not in every one.

## 4. Theorems

Each is proved for every value of the constants that the modules' named assumptions
admit: any number of workers, clients, cases, machines; any bounds. Where a theorem
has a condition of its own, it is given here; without one it holds under every perturbation.

`CaseLifecycleProofs`:

* `TypeCorrect`: `Spec => []TypeOK`. `TypeOK` is not inductive by itself: the
  tables `Doing`, `Control` and `Done` are applied to `cmd`, so `TypeInv` adds that
  a Runner thread inside a command has read one (`CmdOK`).
* `CollectsAfterUpload`: `Spec => []CollectAfterUpload`.
  `CollectInv` adds where "completed" can come from: it is in redis, or the
  eval-runner is at a place from which it writes it, only after the upload; the
  controller itself only ever erases it (`CtlRunnerStatus`), and leaves `wait()`
  only when it sees it (`CtlCollecting`).
* `NoPodIsOrphaned`: `Spec => []NoOrphanPod` when none of io, helm, restart and
  startrace happens. `RemovalInv` says why an uninstall cannot come before the
  install: before it, the pod is absent, hence nobody has written the
  case-status, hence no cancel is acknowledged and the monitor is not past it.
* `ImplementsCaseStatus`: `Spec => ImplementsStatus` when neither expire nor dbfail
  happens (`OneWrites`), with any number of workers. `StatusInv` relates the record to
  the place of the Runner thread: what each place expects to find there is what the
  abstract step it is about to take starts from, and only a Runner thread executes commands.
* `FailuresAreFinal`: under the same condition a record that says ERROR or EXCEPTION says so for
  ever. `FailedInv`: the phase of such a record is over, from where `CaseStatus` has no step.
* `NoRunnerIsForgotten`: `Spec => []RunnerIsKnown` without startrace, whatever else happens. `KnownInv`:
  where the monitor is past its look at a Runner, that Runner is over or past its timeout; one that is
  still to be started is neither.
* `WaitingCommandsAreKept`: what is missing in the code that erases commands (see
  `case_command_lost`) is that one waits for another, and only that. If no command is sent while one is
  in the slot (`CommandsWait`, a condition on behaviours), `OnlyExecutedIsCleared` holds, and no
  command takes the place of another, under every perturbation. `SlotInv`: a Runner thread
  inside a command has read the one in the slot.
* `PausedCaseIsParked`: `Spec => []PausedIsParked` when, besides, startrace and earlystep do
  not happen and there is one worker (`OneTest`). `ParkInv` has three parts, the first two for as long as the
  Runner is not over. `Controlled`: while a command is waited for, the control status is
  this command's, and the pause while the record says PAUSED. `Acknowledged`: a case-status, or a
  status that a worker is about to write, that differs from the control status is there only
  while the command for it is waited for, so that no late write answers for
  a later command. `BeforeTests`: until `exec_pytest` is through, only `init_runner_info` has written the case-status. The attempt to prove it for tests
  that are faster than `exec_pytest` is what turned up the race above.

`RedisLockProofs`:

* `TypeCorrect`, and `Exclusive`: `Spec => []MutualExclusion` when nobody is slow or gives
  up (`InItsTime`), whoever dies. `Held` is the invariant: a client anywhere between a
  successful SETNX and its EXEC owns the key. It is stronger than
  exclusion, which says nothing of the places where a lock is being given an expiration
  time or released.
* `CallsAreAtomic`: `Spec => ImplementsAtomic` when, besides, no client dies between
  the two HSETs of an update and `init_runner_info` meets no other call (`Undivided`). `Whole` says that the
  two fields agree unless the owner is between them; every step is then a step
  of `AtomicInfo` or a stutter. This is what `RunnerEnv` takes for granted.
* `ReleasesOnlyItsOwn`: `Spec => ReleasesOwn`, also where exclusion fails. `Watched`: before an
  EXEC that would succeed, the key is one's own or has expired; whoever writes it meanwhile spoils the EXEC.

`LogReadingProofs`, for a log of any length:

* `NothingSkipped`: `ForwardSpec => []NoGaps`. `GapInv`
  adds that the piece before the position is stored (`Reached`); an append that fails adds a
  beginning of the batch, or nothing (`PostAppends`, `PostKeeps`).
* `NothingLost`: `ForwardSpec => []LogIsComplete` when only the test writes the
  log. `LostInv` says that all pieces up to the position are stored, and that the last
  read, which follows stop(), covered the file.
* `NothingRepeated`: without failures the copy is the log, each piece once.
* `FollowsTheLog`: `Spec => []ReadsTheLog`, with pages of any length, when the results do not
  overtake the forwarder (earlyzip). The step is a lemma about `Split`: what is appended changes
  no line that was complete (`SplitKept`). It rests on the kth newline being there and
  being one (`KthExists`, `KthIsOne`), for which `LeastNumber`, the induction over
  numbers, is derived from the library's well-founded order on finite sets.
* `ReadsLinesOfTheTest`: when, besides, no append fails, each line the client has is the line at this
  place of what the test wrote. `BeginningInv`: the copy is a beginning of the log, and until the thread
  dies the position is its end; a request of which the answer is lost is the last one. The rest is `FollowsTheLog`
  and, again, `SplitKept`.

`EvalBenchProofs`:

* `LimitersWork`, `RateIsKept`: the two invariants of `BenchRate`, for all positive
  flags. `PlanOfFlags` says the plan is
  `PlanOf(flags)`; the rest is arithmetic: `TokensMakeRate` (tokens times executions is
  the rate), bounds of the two divisions, and the refusal that keeps a session's rate at ten
  or more. `FollowsPlan`: `EvalBench` implements `BenchRate`, so both hold of the whole program.
* `TypeCorrect`, `WorkersStartTogether`, `LossIsBounded`, for a finite set of workers and
  channels of any size. `BenchInv` counts: starts and stops sent and still to send are as many
  as there are workers (`Sending`), none is taken before all clients are ready (`Started`), and every
  request sent is in the result, in a channel, or with the worker that will report it (`Accounted`), which
  has at most those of one execution.

`ManagerQueueProofs`, for any number of cases and commands and under every perturbation: `TypeCorrect`, `ListedOnce`,
`OnlyOverRunnersLeave`, `CommandsFindTheirRunner`. `QueueInv` says that a case is created by one
message and inserted once, so that the list has no Runner twice and `remove` (`Without`) takes off
the one that the monitor looked at; that the one about to be started is listed, unless the monitor met it
(`Starting`); and that what the monitor takes off is over, cancelled or met too early (`Leaving`). `Searched`: the Runner
of a command is not where the search has been, unless the list shrank.

`NginxCaseProofs`, for any list of two machines or more (whose names are none of the
model's `Facts`): `TypeCorrect`, `PassedTestsAreReal`, `RefusalsWereForetold`, `StepsCount`. `Learnt`
says for each place of the script what must be known there, whichever calls before it
only logged their failure. `RefusalsWereForetold`: `AllWell` is what holds at each place as long as no answer was
false or lacked a machine: every machine behind the script runs, the ones found are all, and they are stopped before they are
deleted. `StepsCount`: `Spec => EveryStepCounts`. Machine, call and round are a
variant of the script, which it lowers in every step and nobody else raises; what TLC adds
with `TestEnds` is that a step is always possible, or a call hangs, or the test is parked.

`AutoTestApiProofs`, for any number of handlers, finitely many cases and any of the defects:

* `TypeCorrect`.
* `QuotaIsKept`: when clients only pause and resume (a cancelled case runs
  on as FINISHED and counts again). `Locked` and `Counted`: what is inside the lock is alone
  there, and a case that the service is not through with counts for the quota. This, and what follows, is
  said of the cases whose record only requests and the Runner write (`Kept`); the others, once they are
  overdue, never count again.
* `OneCommand`: when, besides, commands are obeyed within the ten seconds (`~Disturbed`).
  A command is at one place, message, slot or execution (`AtOnePlace`);
  until it is obeyed, its request waits for it and so keeps the lock (`Awaited`); the cases a
  request is about to command have no other command (`Selected`), because the records tell (`Shown`).
* `LockIsReturned`: `Spec => []LockHeldInside`, with all of these.

`ReportDataProofs`, for any cases and metrics:

* `EveryCaseReported`: `Spec => []NoCaseLost`, with gaps and any number of rows, of reports that are made. `MergeInv` says that
  what is merged are the cases of the files, with their measures; `MergedIsAll`, that this does
  not depend on the order in which they are read.
* `RowsShown`: `Spec => []RowsAreMeasured` without gaps and with at most ten rows. `GaplessInv`: the rows of
  a metric are those below their number. Of them `KeysAre` says that sorting as
  strings leaves their order (`DigitsOrdered`), and `DictIs` that each is then appended at its place. `Merged` and
  `Dict2Obj` are recursive functions over an interval; `UpToInduction`, from `LeastNumber`, shows that
  their closed form is the one function that satisfies the recursion.

Every safety invariant and action property of the passing runs is the subject of a theorem. What stays with TLC is
liveness under fairness and what rests on ENABLED, which the prover does not have
(`QueueDrains`, `CaseEnds`, `SyncReturns`, `DeadLockFreed`, `ReadsItAll`, `TestEnds`, `WorkersGoOn`,
`EndsOnTime`, `RequestsEnd`, `EndedLeave`). `PausedIsParked` does not hold with several workers, `QuotaKept` not with cancel,
`RowsAreMeasured` not with gaps or more than ten rows.

## 5. Not modelled

* Start-up: entry point, Flask wiring, configuration, `init_mysql` with its retry (a
  second attempt finds the database proxy open and raises "Connection already
  opened"). Sequential, no state of its own.
* Contents: Helm values, report templates, archives, command lines, the index of
  reports; the ssh and HTTP layers below a call that succeeds or raises.
* `stop`, `restart`, `release` and `check_abnormal_restart_time` of the agent tools and
  `_start_instances` of the Aliyun tools: no test of the repository calls them.
* Clients of eval-bench other than mysql and http, and the test servers: I/O around
  one request. (The multicast client returns no sample.)
* Flags of eval-bench that are zero or negative: `flag.Int` accepts them, `-t 0` divides by zero at once.
* Keys of three digits in a report (`Digits` has two); GET of the API, which only reads (and shows deleted records too).

## 6. Plan

Done so far: the life of a case; API, manager, lock, log, instances and agent, report,
eval-bench; every safety property of the runs proved. Left, in this order:

1. Several `CaseLifecycle`s under one `ManagerQueue`, in place of the perturbation
   `starved`.
2. The connection pool of `EL/common/ssh.py` and start-up.
