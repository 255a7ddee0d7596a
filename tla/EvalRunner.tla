----------------------------- MODULE EvalRunner -----------------------------
(***************************************************************************)
(* The process in the pod (eval-runner.py, class Runner) and the pytest    *)
(* workers it starts, which call step() (common/utils.py) at each step of  *)
(* a test.  The two talk to the controller through the redis hash only.    *)
(***************************************************************************)
EXTENDS RunnerEnv, Naturals

CONSTANTS
    Workers,   \* the pytest workers: "--workers {process_num}"
    Steps      \* calls of step() a test makes

ASSUME WorkersAssumption == Workers # {}
ASSUME StepsAssumption == Steps \in Nat \ {0}

VARIABLES
    rpc,      \* where the eval-runner is in Runner.run
    test,     \* where each worker is: in step(), in the body of a step, or over
    todo,     \* the case-status a worker inside step() is about to write
    left,     \* the calls of step() each worker still has to make
    upload    \* what became of the result archive

evalVars == <<rpc, test, todo, left, upload>>

EvalTypeOK ==
    /\ rpc \in {"idle", "exec", "mark", "poll", "read", "ack", "kill", "finish",
                "push", "complete", "linger", "exited", "crashed", "gone"}
    /\ test \in [Workers -> {"none", "read", "write", "body", "ended", "killed"}]
    /\ todo \in [Workers -> {"running", "paused", "cancelled"}]
    /\ left \in [Workers -> 0..Steps]
    /\ upload \in {"none", "stored", "lost"}

EvalInit ==
    /\ rpc = "idle"
    /\ test = [w \in Workers |-> "none"]
    /\ todo = [w \in Workers |-> "running"]
    /\ left = [w \in Workers |-> Steps]
    /\ upload = "none"

Go(from, to) == PodIsUp /\ rpc = from /\ rpc' = to

-----------------------------------------------------------------------------
(* The eval-runner                                                         *)

(* The container starts: init_env creates the directories.                 *)
PodStarts ==
    /\ pod = "created" /\ rpc = "idle"
    /\ pod' = "running"
    /\ rpc' = "exec"
    /\ UNCHANGED <<info, test, todo, left, upload>>

(* exec_pytest, the Popen: the workers reach their first step().           *)
Exec ==
    /\ Go("exec", "mark")
    /\ test' = [w \in Workers |-> "read"]
    /\ UNCHANGED <<envVars, todo, left, upload>>

(* exec_pytest, the update: the tests are under way since Exec.            *)
Mark ==
    /\ Go("mark", "poll")
    /\ info' = [info EXCEPT !.runner = "running", !.case = "running"]
    /\ UNCHANGED <<pod, test, todo, left, upload>>

AllEnded == \A w \in Workers : test[w] = "ended"

(* wait: pytest_process.poll()                                             *)
Poll ==
    /\ Go("poll", IF AllEnded THEN "finish" ELSE "read")
    /\ UNCHANGED <<envVars, test, todo, left, upload>>

(* Mutant: both statuses are completed in one update, before the upload.   *)
FinishBoth ==
    /\ Go("finish", "push")
    /\ info' = [info EXCEPT !.case = "completed", !.runner = "completed"]
    /\ UNCHANGED <<pod, test, todo, left, upload>>

(* wait: the pytest process has ended, well or not.                        *)
Finish ==
    /\ Go("finish", "push")
    /\ UpdateCase("completed")
    /\ UNCHANGED <<pod, test, todo, left, upload>>

(* wait: get_runner_info.  A missing control status is a KeyError, which   *)
(* ends the process; the container goes on with "tail -f".                 *)
Read ==
    /\ Go("read", CASE info.control = "absent"    -> "crashed"
                    [] info.control = "cancelled" -> "ack"
                    [] OTHER                      -> "poll")
    /\ UNCHANGED <<envVars, test, todo, left, upload>>

(* wait: the case is said to be cancelled before pytest is killed.         *)
Ack ==
    /\ Go("ack", "kill")
    /\ UpdateCase("cancelled")
    /\ UNCHANGED <<pod, test, todo, left, upload>>

(* interrupt: kill() reaches the shell; its workers may outlive it.        *)
Kill ==
    /\ Go("kill", "push")
    /\ \/ test' = [w \in Workers |-> IF test[w] = "ended" THEN "ended" ELSE "killed"]
       \/ May("orphan") /\ UNCHANGED test
    /\ UNCHANGED <<envVars, todo, left, upload>>

(* push_results: a failed upload is only logged (ResultClient).            *)
Push ==
    /\ Go("push", "complete")
    /\ \/ upload' = "stored"
       \/ May("upload") /\ upload' = "lost"
    /\ UNCHANGED <<envVars, test, todo, left>>

Complete ==
    /\ Go("complete", "linger")
    /\ UpdateRunner("completed")
    /\ UNCHANGED <<pod, test, todo, left, upload>>

(* The last five minutes of Runner.run are over and the Job completes.     *)
LingerEnds ==
    /\ Go("linger", "exited")
    /\ pod' = IF pod = "running" THEN "completed" ELSE pod
    /\ test' = [w \in Workers |-> IF test[w] = "ended" THEN "ended" ELSE "killed"]
    /\ UNCHANGED <<info, todo, left, upload>>

(* An exception in Runner.run: "python3 ... || tail -f /dev/null" keeps    *)
(* the pod Running, and the workers go on without their parent.            *)
EvalCrashes ==
    /\ May("evalcrash")
    /\ \E from \in {"exec", "mark", "poll", "read", "ack", "kill", "finish", "push",
                    "complete"} : Go(from, "crashed")
    /\ UNCHANGED <<envVars, test, todo, left, upload>>

-----------------------------------------------------------------------------
(* step(), in a worker                                                     *)

InTest(w, from) == PodIsUp /\ test[w] = from

Demands == {"paused", "cancelled", "running"}

(* pytest takes longer to collect its tests than exec_pytest from Popen to *)
(* its update, unless "earlystep" is considered.                           *)
CollectInTime == rpc = "mark" => May("earlystep")

(* get_runner_info, and the choice it leads to: write the case-status the  *)
(* control status asks for, leave the loop, or sleep and read again.       *)
StepRead(w) ==
    /\ InTest(w, "read") /\ CollectInTime
    /\ IF info.control \in Demands /\ info.case # info.control
         THEN /\ test' = [test EXCEPT ![w] = "write"]
              /\ todo' = [todo EXCEPT ![w] = info.control]
         ELSE /\ test' = [test EXCEPT ![w] = IF info.case = "running" THEN "body" ELSE "read"]
              /\ UNCHANGED todo
    /\ UNCHANGED <<envVars, rpc, left, upload>>

(* Mutant: step() returns after the update instead of reading again.       *)
StepWriteOnce(w) ==
    /\ InTest(w, "write")
    /\ UpdateCase(todo[w])
    /\ test' = [test EXCEPT ![w] = "body"]
    /\ todo' = [todo EXCEPT ![w] = "running"]
    /\ UNCHANGED <<pod, rpc, left, upload>>

(* update_runner_info, with what was read before: the control status may   *)
(* have changed since.                                                     *)
StepWrite(w) ==
    /\ InTest(w, "write")
    /\ UpdateCase(todo[w])
    /\ test' = [test EXCEPT ![w] = IF todo[w] = "running" THEN "body" ELSE "read"]
    /\ todo' = [todo EXCEPT ![w] = "running"]
    /\ UNCHANGED <<pod, rpc, left, upload>>

(* The body of a step is over; an assertion that fails ends the test.      *)
BodyEnds(w) ==
    /\ InTest(w, "body")
    /\ \/ /\ left[w] > 1
          /\ test' = [test EXCEPT ![w] = "read"]
          /\ left' = [left EXCEPT ![w] = @ - 1]
       \/ /\ test' = [test EXCEPT ![w] = "ended"]
          /\ left' = [left EXCEPT ![w] = 0]
    /\ UNCHANGED <<envVars, rpc, todo, upload>>

-----------------------------------------------------------------------------
(* The end of the pod                                                      *)

Vanish ==
    /\ rpc' = "gone"
    /\ test' = [w \in Workers |-> IF test[w] = "ended" THEN "ended" ELSE "killed"]
    /\ UNCHANGED <<info, todo, left, upload>>

PodGone == pod = "terminating" /\ pod' = "absent" /\ Vanish

PodFails == May("podfail") /\ pod = "running" /\ pod' = "failed" /\ Vanish

Worker(w) == StepRead(w) \/ StepWrite(w) \/ BodyEnds(w)

Process ==
    \/ Exec \/ Mark \/ Poll \/ Finish \/ Read \/ Ack \/ Kill
    \/ Push \/ Complete \/ LingerEnds

EvalNext ==
    \/ PodStarts \/ Process \/ EvalCrashes
    \/ \E w \in Workers : Worker(w)
    \/ PodGone \/ PodFails
=============================================================================
