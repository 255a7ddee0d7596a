----------------------------- MODULE EvalBench ------------------------------
(***************************************************************************)
(* eval-bench (eb/main.go): main makes a plan of the command line          *)
(* (BenchRate); a worker for each thread sends requests by this plan and   *)
(* puts the time each took into a channel, the collector counts what is in *)
(* the channels, and main starts the workers together, stops them after    *)
(* the duration and prints.                                                *)
(***************************************************************************)
EXTENDS BenchRate, FiniteSets

CONSTANTS
    Workers,
    ChanSize,       \* capacity of latencyChan and of errLatencyChan, 10000 in the code
    Followed,       \* a bound: the command lines that are followed beyond their plan
    MaxExecs,       \* a bound: requests, of all workers, after which no token is taken
    Perturbations   \* what may happen: "error", "fatal", "dial"

ASSUME WorkersAssumption == IsFiniteSet(Workers) /\ ChanSize \in Nat
ASSUME FollowedAssumption == \A f \in Followed : f.t = Cardinality(Workers)

VARIABLES
    main,       \* where main is
    toSend,     \* starts or stops that main has still to send
    ready,      \* the workers whose client IsReady
    worker,     \* where each worker is
    left,       \* executions of its token still to do, with the one under way
    session,    \* the request of its execution that each worker is at
    executed,   \* requests that all workers have sent
    ch,         \* how many are in each channel
    collector,  \* where the collector is
    result,     \* Count and ErrCount of LatencyResult
    printed     \* the total that is printed

mainVars == <<main, toSend, printed>>
workerVars == <<ready, worker, left, session, executed>>
collectorVars == <<collector, result>>
vars == <<rateVars, mainVars, workerVars, ch, collectorVars>>

May(p) == p \in Perturbations

Init ==
    /\ RateInit
    /\ main = "planning" /\ toSend = 0 /\ printed = 0
    /\ ready = {} /\ worker = [w \in Workers |-> "init"]
    /\ left = [w \in Workers |-> 0] /\ session = [w \in Workers |-> 1] /\ executed = 0
    /\ ch = [start |-> 0, stop |-> 0, end |-> 0, ok |-> 0, err |-> 0]
    /\ collector = "none" /\ result = [ok |-> 0, err |-> 0]

(* A return of main, log.Fatal or a panic ends every goroutine.            *)
Alive == main \notin {"exited", "fatal", "panicked"}

(* From the checks of the command line up to the wait for the clients; a    *)
(* panic comes a little later, in the threads.                             *)
Plan ==
    /\ main = "planning" /\ Divide
    /\ main' = CASE plan'.outcome = "fatal" -> "fatal"
                [] plan'.outcome = "panic" -> "panicked"
                [] OTHER                   -> "waiting"
    /\ UNCHANGED <<toSend, printed, workerVars, ch, collectorVars>>

Send(c) == ch' = [ch EXCEPT ![c] = @ + 1]
Receive(c) == ch[c] > 0 /\ ch' = [ch EXCEPT ![c] = @ - 1]

Goto(w, p) == worker' = [worker EXCEPT ![w] = p]

-----------------------------------------------------------------------------
(* InitClient: most clients end the process when they cannot connect; the  *)
(* multicast client returns without being ready.                           *)
InitClient(w) ==
    /\ worker[w] = "init"
    /\ \/ Goto(w, "waiting") /\ ready' = ready \cup {w} /\ UNCHANGED main
       \/ May("dial") /\ Goto(w, "waiting") /\ UNCHANGED <<main, ready>>
       \/ May("fatal") /\ main' = "fatal" /\ UNCHANGED <<worker, ready>>
    /\ UNCHANGED <<toSend, printed, left, session, executed, ch, collectorVars>>

Begin(w) ==
    /\ worker[w] = "waiting" /\ Receive("start") /\ Goto(w, "looping")
    /\ UNCHANGED <<mainVars, ready, left, session, executed, collectorVars>>

TakeStop(w) ==
    /\ worker[w] = "looping" /\ Receive("stop") /\ Goto(w, "returned")
    /\ UNCHANGED <<mainVars, ready, left, session, executed, collectorVars>>

(* select comes to its default only if there is no stop.                   *)
TakeToken(w) ==
    /\ worker[w] = "looping" /\ ch["stop"] = 0
    /\ executed + plan.exec * Requests(flags) <= MaxExecs
    /\ left' = [left EXCEPT ![w] = plan.exec] /\ Goto(w, "exec")
    /\ UNCHANGED <<mainVars, ready, session, executed, ch, collectorVars>>

(* The loops over the requests of an execution: back to the first one      *)
(* after the last.                                                         *)
Last(w) == session[w] = Requests(flags)
NextSession(w) == session' = [session EXCEPT ![w] = IF Last(w) THEN 1 ELSE @ + 1]

(* Exec sends a request, and the mysql client those of all its sessions    *)
(* before it looks at the first answer.                                    *)
Exec(w) ==
    /\ worker[w] = "exec" /\ executed' = executed + 1
    /\ NextSession(w) /\ Goto(w, IF Last(w) THEN "scan" ELSE "exec")
    /\ UNCHANGED <<mainVars, ready, left, ch, collectorVars>>

(* A request is answered, or fails.                                        *)
Scan(w) ==
    /\ worker[w] = "scan"
    /\ Goto(w, "ok") \/ (May("error") /\ Goto(w, "err"))
    /\ UNCHANGED <<mainVars, ready, left, session, executed, ch, collectorVars>>

(* The time is reported when the channel has room; the next answer of the  *)
(* execution follows, the next execution of the token, or select.  The     *)
(* http client first reads the body of the response, and there is none     *)
(* after an error.                                                         *)
Report(w) ==
    /\ worker[w] \in {"ok", "err"} /\ ch[worker[w]] < ChanSize
    /\ Send(worker[w]) /\ NextSession(w)
    /\ Goto(w, IF ~Last(w) THEN "scan" ELSE IF left[w] = 1 THEN "looping" ELSE "exec")
    /\ left' = IF Last(w) THEN [left EXCEPT ![w] = @ - 1] ELSE left
    /\ main' = IF flags.e = "http" /\ worker[w] = "err" THEN "panicked" ELSE main
    /\ UNCHANGED <<toSend, printed, ready, executed, collectorVars>>

Worker(w) ==
    \/ InitClient(w) \/ Begin(w) \/ TakeStop(w) \/ TakeToken(w)
    \/ Exec(w) \/ Scan(w) \/ Report(w)

-----------------------------------------------------------------------------
(* The collector's select takes from any channel that has something; it    *)
(* sleeps when none has.                                                   *)
CollectEnd ==
    /\ collector = "selecting" /\ Receive("end") /\ collector' = "returned"
    /\ UNCHANGED <<mainVars, workerVars, result>>

(* Mutant of Collect: errors are left in their channel.                    *)
CollectOk(c) ==
    /\ collector = "selecting" /\ c = "ok" /\ Receive(c)
    /\ result' = [result EXCEPT ![c] = @ + 1]
    /\ UNCHANGED <<mainVars, workerVars, collector>>

Collect(c) ==
    /\ collector = "selecting" /\ Receive(c)
    /\ result' = [result EXCEPT ![c] = @ + 1]
    /\ UNCHANGED <<mainVars, workerVars, collector>>

Collector == CollectEnd \/ \E c \in {"ok", "err"} : Collect(c)

-----------------------------------------------------------------------------
(* Mutant of AllReady: the client asked last decides.                      *)
AllReadyLast == \E w \in Workers : w \in ready

(* A round of IsReady in which every client is.                            *)
AllReady == \A w \in Workers : w \in ready

WaitReady ==
    /\ main = "waiting" /\ AllReady
    /\ main' = "starting" /\ toSend' = Cardinality(Workers) /\ collector' = "selecting"
    /\ UNCHANGED <<printed, workerVars, ch, result>>

(* Mutant of SendToAll: the channel takes one at a time.                   *)
SendToAllUnbuffered(c) ==
    toSend > 0 /\ ch[c] = 0 /\ toSend' = toSend - 1 /\ Send(c) /\ UNCHANGED main

(* The channels of starts and stops have room for those of all threads.    *)
SendToAll(c) == toSend > 0 /\ toSend' = toSend - 1 /\ Send(c) /\ UNCHANGED main

SendStarts ==
    /\ main = "starting" /\ SendToAll("start")
    /\ UNCHANGED <<printed, workerVars, collectorVars>>

(* The seconds of the duration pass.                                       *)
Elapse ==
    /\ main = "starting" /\ toSend = 0
    /\ main' = "stopping" /\ toSend' = Cardinality(Workers)
    /\ UNCHANGED <<printed, workerVars, ch, collectorVars>>

SendStops ==
    /\ main = "stopping" /\ SendToAll("stop")
    /\ UNCHANGED <<printed, workerVars, collectorVars>>

SendEnd ==
    /\ main = "stopping" /\ toSend = 0 /\ Send("end") /\ main' = "printing"
    /\ UNCHANGED <<toSend, printed, workerVars, collectorVars>>

(* Mutant of Total: a request that fails is none.                          *)
TotalOk(r) == r.ok

Total(r) == r.ok + r.err

(* Printing follows at once, whatever the channels still hold.             *)
PrintResult ==
    /\ main = "printing" /\ printed' = Total(result) /\ main' = "exited"
    /\ UNCHANGED <<toSend, workerVars, ch, collectorVars>>

Main == WaitReady \/ SendStarts \/ SendStops \/ SendEnd \/ PrintResult

Running == Alive /\ main # "planning" /\ flags \in Followed

Next ==
    \/ Plan
    \/ /\ Running
       /\ Main \/ Elapse \/ Collector \/ \E w \in Workers : Worker(w)
       /\ UNCHANGED rateVars

Spec == Init /\ [][Next]_vars

(* The goroutines are scheduled, and those that wait for room in a channel *)
(* get it in their order.  A request may take for ever, and the duration   *)
(* may be as long as it likes.                                             *)
FairSpec ==
    /\ Spec
    /\ WF_vars(Running /\ Main /\ UNCHANGED rateVars)
    /\ WF_vars(Running /\ Collector /\ UNCHANGED rateVars)
    /\ \A w \in Workers : SF_vars(Running /\ Report(w) /\ UNCHANGED rateVars)

-----------------------------------------------------------------------------
TypeOK ==
    /\ main \in {"planning", "waiting", "starting", "stopping", "printing", "exited", "fatal", "panicked"}
    /\ worker \in [Workers -> {"init", "waiting", "looping", "exec", "scan", "ok", "err", "returned"}]
    /\ session \in [Workers -> 1..Requests(flags)]
    /\ ch \in [start : 0..Cardinality(Workers), stop : 0..Cardinality(Workers), end : 0..1,
               ok : 0..ChanSize, err : 0..ChanSize]

(* No request is sent before every client is ready: the duration is        *)
(* measured over all threads.                                              *)
StartedTogether == executed > 0 => ready = Workers

(* The printed total leaves out no more of the requests that were sent     *)
(* than two full channels and one execution of each worker, which is as    *)
(* many requests as the mysql client has sessions, and one for the others. *)
LossBounded ==
    main = "exited" =>
        executed <= printed + 2 * ChanSize + Cardinality(Workers) * Requests(flags)

(* A worker that waits for room in a channel goes on.                      *)
WorkersGoOn ==
    \A w \in Workers : worker[w] \in {"ok", "err"} ~> (worker[w] \notin {"ok", "err"} \/ ~Alive)

(* After the duration main ends, though a request may hang for ever.       *)
EndsOnTime == main = "stopping" ~> ~Alive
=============================================================================
