---------------------------- MODULE AutoTestApi -----------------------------
(***************************************************************************)
(* The auto-test resource of the controller (service/auto_test.py and its  *)
(* routes): threads of the API server that create cases, change their      *)
(* status and delete them, under UPDATE_LOCK, while the manager works      *)
(* through the queue they write to, Runners move the records as CaseStatus *)
(* says, and the monitor, which cancels Runners that take too long, writes *)
(* the same records beside them.                                           *)
(*                                                                         *)
(* Four expressions of the code keep it from doing what it is there for:   *)
(* "attribute" (line 104), "membership" (175), "where" (219) and "route"   *)
(* (server/auto_test.py 41).  Defects holds those that are as written; the *)
(* others are as repaired.                                                 *)
(***************************************************************************)
EXTENDS Naturals, Sequences, FiniteSets, SequencesExt

CONSTANTS
    Handlers,       \* threads of the API server
    Cases,          \* uuids
    MaxRunners,     \* max_runner_num of the configuration
    Commands,       \* the statuses that clients ask for
    MaxRequests,    \* a bound: requests of all clients
    Defects,        \* the expressions that are as written
    Overtime,       \* the cases that may take longer than RUNNER_TIMEOUT
    Disturbed       \* a command may take longer than POST_TIMEOUT, or a paused pod be missed

ASSUME HandlersAssumption == "free" \notin Handlers
ASSUME CasesAssumption == IsFiniteSet(Cases) /\ MaxRunners \in Nat
ASSUME CommandsAssumption == Commands \subseteq {"pause", "cancel", "resume"}

VARIABLES
    lock,       \* the holder of UPDATE_LOCK
    pc, req,    \* where each handler is, and with what request
    todo,       \* the cases it has still to send a message for
    reply,      \* the HTTP status it has answered with, 0 while it is at work
    received,   \* requests so far
    records,    \* CaseRecord.status of each case
    phases,     \* how far the service is with it
    deleted,    \* CaseRecord.deleted
    messages,   \* the queue to the manager
    runner,     \* how a case stands with the manager: its Runner is listed, the monitor
                \* cancels it, has given that up ("overdue") or has taken it out ("gone")
    slot,       \* the command that waits in Runner.callback
    doing       \* the command the Runner executes

handlerVars == <<lock, pc, req, todo, reply, received>>
serviceVars == <<records, phases, runner, slot, doing>>
vars == <<handlerVars, serviceVars, deleted, messages>>

Case(u) == INSTANCE CaseStatus WITH status <- records[u], phase <- phases[u]

Records == {"INIT", "STARTING", "STARTED", "PENDING", "PAUSING", "PAUSED",
            "STOPPING", "FINISHED", "ERROR", "EXCEPTION"}
Phases == {"new", "serving", "collecting", "over"}

Requests ==
    [op : {"POST"}, uuids : {{}}, status : {"none"}]
        \cup [op : {"PATCH"}, uuids : (SUBSET Cases) \ {{}},
              status : Commands \cup (IF "where" \in Defects THEN {"none"} ELSE {})]
        \cup [op : {"DELETE"}, uuids : (SUBSET Cases) \ {{}}, status : {"none"}]

Init ==
    /\ lock = "free" /\ pc = [h \in Handlers |-> "idle"]
    /\ req = [h \in Handlers |-> [op |-> "POST", uuids |-> {}, status |-> "none"]]
    /\ todo = [h \in Handlers |-> {}] /\ reply = [h \in Handlers |-> 0] /\ received = 0
    /\ records = [u \in Cases |-> "none"] /\ phases = [u \in Cases |-> "none"]
    /\ deleted = {} /\ messages = <<>> /\ runner = [u \in Cases |-> "none"]
    /\ slot = [u \in Cases |-> "none"] /\ doing = [u \in Cases |-> "none"]

Message(u, c) == [uuid |-> u, status |-> c]

Goto(h, p) == pc' = [pc EXCEPT ![h] = p]

Begun(h, p) == reply' = [reply EXCEPT ![h] = 0] /\ Goto(h, p)

Answer(h, code) == reply' = [reply EXCEPT ![h] = code] /\ Goto(h, "idle")

(* A return or an exception inside "with" gives the lock back.             *)
LeaveWith(h, code) == lock' = "free" /\ Answer(h, code)

Existing == {u \in Cases : records[u] # "none"}

-----------------------------------------------------------------------------
(* A bound: every case that is being created has a uuid.                   *)
Posts == Cardinality({h \in Handlers : pc[h] \in {"acquire", "POST", "save"} /\ req[h].op = "POST"})

(* A request comes in.  is_valid and the route send some away; as written, *)
(* a status is compared with a list of one dict_keys, and DELETE calls     *)
(* Update, which asks AutoTestDelete for its status.                       *)
Receive(h) ==
    /\ pc[h] = "idle" /\ received < MaxRequests /\ received' = received + 1
    /\ \E r \in Requests :
        /\ r.op = "POST" => Posts + Cardinality(Existing) < Cardinality(Cases)
        /\ req' = [req EXCEPT ![h] = r]
        /\ IF r.op = "DELETE" /\ "route" \in Defects THEN Answer(h, 500)
           ELSE IF r.op = "PATCH" /\ r.status = "none" THEN Begun(h, "all")
           ELSE IF r.op = "PATCH" /\ "membership" \in Defects THEN Answer(h, 400)
           ELSE Begun(h, "acquire")
    /\ UNCHANGED <<lock, todo, serviceVars, deleted, messages>>

(* Mutant of Acquire: the lock is not asked for.                           *)
AcquireNot(h) ==
    /\ pc[h] = "acquire" /\ lock' = h /\ Goto(h, req[h].op)
    /\ UNCHANGED <<req, todo, reply, received, serviceVars, deleted, messages>>

Acquire(h) ==
    /\ pc[h] = "acquire" /\ lock = "free" /\ lock' = h /\ Goto(h, req[h].op)
    /\ UNCHANGED <<req, todo, reply, received, serviceVars, deleted, messages>>

-----------------------------------------------------------------------------
(* Post.                                                                   *)
ActiveStatuses == {"INIT", "STARTED", "STARTING", "PENDING", "PAUSED", "PAUSING", "STOPPING"}
Active == {u \in Cases : records[u] \in ActiveStatuses}

(* As written, the configuration has no attribute runner_max_num.          *)
Count(h) ==
    /\ pc[h] = "POST"
    /\ IF "attribute" \in Defects THEN LeaveWith(h, 500)
       ELSE IF Cardinality(Active) >= MaxRunners THEN LeaveWith(h, 400)
       ELSE Goto(h, "save") /\ UNCHANGED <<lock, reply>>
    /\ UNCHANGED <<req, todo, received, serviceVars, deleted, messages>>

(* uuid4 gives a uuid that no record has.  The INSERT may fail, which ends  *)
(* the request.                                                            *)
Save(h) ==
    /\ pc[h] = "save"
    /\ \/ /\ Goto(h, "put") /\ UNCHANGED <<lock, reply>>
          /\ \E u \in Cases \ Existing :
              /\ todo' = [todo EXCEPT ![h] = {u}]
              /\ records' = [records EXCEPT ![u] = "INIT"]
              /\ phases' = [phases EXCEPT ![u] = "new"]
       \/ LeaveWith(h, 500) /\ UNCHANGED <<todo, records, phases>>
    /\ UNCHANGED <<req, received, runner, slot, doing, deleted, messages>>

(* The record is there: the first Get finds it.                            *)
Put(h) ==
    /\ pc[h] = "put" /\ LeaveWith(h, 200)
    /\ \E u \in todo[h] : messages' = Append(messages, Message(u, "create"))
    /\ todo' = [todo EXCEPT ![h] = {}]
    /\ UNCHANGED <<req, received, serviceVars, deleted>>

-----------------------------------------------------------------------------
(* Update.                                                                 *)

(* CR_STATUS_TARGET_MAP: the status while it is being done, and when it is.*)
Target(c) ==
    CASE c = "pause" -> <<"PAUSING", "PAUSED">>
      [] c = "cancel" -> <<"STOPPING", "FINISHED">>
      [] c = "resume" -> <<"STARTING", "STARTED">>

Shows(u, c) == records[u] \in ToSet(Target(c))

(* PARAMS_STATUS_TARGET_MAP *)
Supported(c) ==
    CASE c = "pause" -> {"STARTED"}
      [] c = "cancel" -> {"STARTED", "PAUSED"}
      [] c = "resume" -> {"PAUSED"}

Asked(h) == req[h].uuids \cap Existing

Updatable(h) ==
    {u \in Asked(h) : ~Shows(u, req[h].status) /\ records[u] \in Supported(req[h].status)}

(* Mutant of SelectCases: the exception leaves the lock taken.             *)
SelectCasesKeeping(h) ==
    /\ pc[h] = "PATCH"
    /\ IF Updatable(h) = {} THEN Answer(h, 400) /\ UNCHANGED <<lock, todo>>
       ELSE todo' = [todo EXCEPT ![h] = Updatable(h)] /\ Goto(h, "send") /\ UNCHANGED <<lock, reply>>
    /\ UNCHANGED <<req, received, serviceVars, deleted, messages>>

SelectCases(h) ==
    /\ pc[h] = "PATCH"
    /\ IF Updatable(h) = {} THEN LeaveWith(h, 400) /\ UNCHANGED todo
       ELSE todo' = [todo EXCEPT ![h] = Updatable(h)] /\ Goto(h, "send") /\ UNCHANGED <<lock, reply>>
    /\ UNCHANGED <<req, received, serviceVars, deleted, messages>>

SendMessages(h) ==
    /\ pc[h] = "send" /\ Goto(h, "await")
    /\ \E s \in SetToSeqs(todo[h]) :
        messages' = messages \o [i \in DOMAIN s |-> Message(s[i], req[h].status)]
    /\ todo' = [todo EXCEPT ![h] = {}]
    /\ UNCHANGED <<lock, req, reply, received, serviceVars, deleted>>

(* Commands on their way to a case, or being executed.                     *)
Pending(u) ==
    Cardinality({i \in DOMAIN messages : messages[i].uuid = u /\ messages[i].status \in Commands})
        + (IF slot[u] = "none" THEN 0 ELSE 1) + (IF doing[u] = "none" THEN 0 ELSE 1)

(* Mutant of Await: the request is answered when its messages are sent.    *)
AwaitNothing(h) ==
    /\ pc[h] = "await" /\ LeaveWith(h, 200)
    /\ UNCHANGED <<req, todo, received, serviceVars, deleted, messages>>

(* Every asked case shows the change, or POST_TIMEOUT is over, which is    *)
(* when the command was lost, unless the service is disturbed.             *)
Await(h) ==
    /\ pc[h] = "await"
    /\ \/ \A u \in Asked(h) : Shows(u, req[h].status)
       \/ \A u \in Asked(h) : Pending(u) = 0
       \/ Disturbed
    /\ LeaveWith(h, 200)
    /\ UNCHANGED <<req, todo, received, serviceVars, deleted, messages>>

(* Without a status: "CaseRecord.uuid in uuids" is true, so the status of  *)
(* every record is to be NULL, which MySQL refuses; the answer would fail   *)
(* too, at a filter that was never made.                                   *)
UpdateAll(h) ==
    /\ pc[h] = "all" /\ Answer(h, 500)
    /\ UNCHANGED <<lock, req, todo, received, serviceVars, deleted, messages>>

(* Delete marks the records; the manager knows no forced end.              *)
Delete(h) ==
    /\ pc[h] = "DELETE" /\ LeaveWith(h, 200)
    /\ deleted' = deleted \cup Asked(h)
    /\ \E s \in SetToSeqs(req[h].uuids) :
        messages' = messages \o [i \in DOMAIN s |-> Message(s[i], "force_end")]
    /\ UNCHANGED <<req, todo, received, serviceVars>>

Handler(h) ==
    \/ Acquire(h) \/ Count(h) \/ Save(h) \/ Put(h) \/ SelectCases(h) \/ SendMessages(h)
    \/ Await(h) \/ UpdateAll(h) \/ Delete(h)

-----------------------------------------------------------------------------
(* The service: the manager's loop and the Runner of each case.            *)

(* One record moves; how, CaseStatus says.                                 *)
Moves(u) ==
    \E s \in Records, p \in Phases :
        records' = [records EXCEPT ![u] = s] /\ phases' = [phases EXCEPT ![u] = p]

(* The cases whose Runner the monitor has found to take too long.          *)
Overdue == {u \in Cases : runner[u] \in {"cancelling", "overdue", "gone"}}

Begins(u) ==
    /\ Moves(u) /\ Case(u)!Begin
    /\ runner' = [runner EXCEPT ![u] = "listed"]

Obeys(u) ==
    Moves(u) /\ Case(u)!Obey /\ records'[u] = Target(slot[u])[1]

(* The Runner writes its last status whatever the record shows: with the   *)
(* monitor at it, that need not be what it wrote before.                   *)
EndsRegardless(u) ==
    /\ u \in Overdue /\ phases'[u] = "over"
    /\ <<phases[u], records'[u]>> \in {<<"serving", "ERROR">>, <<"collecting", "FINISHED">>}

GoesOn(u) ==
    /\ Moves(u)
    /\ \/ (records[u] # "PAUSED" \/ Disturbed) /\ Case(u)!SeePod
       \/ Case(u)!Stop \/ Case(u)!Deliver \/ Case(u)!Fail \/ EndsRegardless(u)

(* The manager takes a message: signal() puts a command into the Runner of *)
(* a case in the queue, in place of one that is still there.               *)
TakeMessage ==
    /\ messages # <<>> /\ messages' = Tail(messages)
    /\ \E u \in Cases, c \in Commands \cup {"create", "force_end"} :
        /\ Head(messages) = Message(u, c)
        /\ IF c = "create" /\ phases[u] = "new"
           THEN Begins(u) /\ UNCHANGED <<slot, doing>>
           ELSE /\ slot' = IF c \in Commands /\ phases[u] = "serving" /\ runner[u] # "gone"
                           THEN [slot EXCEPT ![u] = c] ELSE slot
                /\ UNCHANGED <<records, phases, runner, doing>>
    /\ UNCHANGED <<handlerVars, deleted>>

Obey(u) ==
    /\ slot[u] # "none" /\ doing[u] = "none" /\ Obeys(u)
    /\ doing' = [doing EXCEPT ![u] = slot[u]] /\ slot' = [slot EXCEPT ![u] = "none"]
    /\ UNCHANGED <<handlerVars, runner, deleted, messages>>

Acknowledge(u) ==
    /\ doing[u] # "none" /\ doing' = [doing EXCEPT ![u] = "none"]
    /\ records' = [records EXCEPT ![u] = Target(doing[u])[2]]
    /\ UNCHANGED <<handlerVars, phases, runner, slot, deleted, messages>>

(* Between commands the Runner looks at the pod and comes to the end; what *)
(* is in its slot then is lost.                                            *)
GoOn(u) ==
    /\ doing[u] = "none" /\ GoesOn(u)
    /\ slot' = IF phases'[u] = "serving" THEN slot ELSE [slot EXCEPT ![u] = "none"]
    /\ UNCHANGED <<handlerVars, runner, doing, deleted, messages>>

(* The monitor, one thread, comes to a Runner that is still alive after    *)
(* RUNNER_TIMEOUT, perhaps after its last write, and calls its cancel().   *)
MonitorCancels(u) ==
    /\ u \in Overtime /\ runner[u] \in {"listed", "overdue"}
    /\ \A v \in Cases : runner[v] # "cancelling"
    /\ runner' = [runner EXCEPT ![u] = "cancelling"]
    /\ records' = [records EXCEPT ![u] = "STOPPING"]
    /\ UNCHANGED <<handlerVars, phases, slot, doing, deleted, messages>>

(* The case has acknowledged, and the Runner, which may go on, is taken    *)
(* out; or cancel() raises and it stays in.                                *)
MonitorEnds(u) ==
    /\ runner[u] = "cancelling"
    /\ \/ /\ runner' = [runner EXCEPT ![u] = "gone"]
          /\ records' = [records EXCEPT ![u] = "FINISHED"]
       \/ runner' = [runner EXCEPT ![u] = "overdue"] /\ UNCHANGED records
    /\ UNCHANGED <<handlerVars, phases, slot, doing, deleted, messages>>

(* A Runner that is not alive is taken out.                                *)
MonitorRemoves(u) ==
    /\ phases[u] = "over" /\ runner[u] \in {"listed", "overdue"}
    /\ runner' = [runner EXCEPT ![u] = IF u \in Overdue THEN "gone" ELSE "none"]
    /\ UNCHANGED <<handlerVars, records, phases, slot, doing, deleted, messages>>

(* The controller starts again: its threads and the queue are gone, and    *)
(* the manager marks what was not over.                                    *)
Restart ==
    /\ \E u \in Existing : phases[u] # "over"
    /\ lock' = "free" /\ pc' = [h \in Handlers |-> "idle"] /\ todo' = [h \in Handlers |-> {}]
    /\ records' = [u \in Cases |->
           IF records[u] \in {"none", "FINISHED", "ERROR", "EXCEPTION"} THEN records[u]
           ELSE "EXCEPTION"]
    /\ phases' = [u \in Cases |-> IF u \in Existing THEN "over" ELSE "none"]
    /\ slot' = [u \in Cases |-> "none"] /\ doing' = slot' /\ runner' = slot'
    /\ messages' = <<>>
    /\ UNCHANGED <<req, reply, received, deleted>>

Service ==
    \/ TakeMessage
    \/ \E u \in Existing :
        \/ Obey(u) \/ Acknowledge(u) \/ GoOn(u)
        \/ MonitorCancels(u) \/ MonitorEnds(u) \/ MonitorRemoves(u)

Next == (\E h \in Handlers : Receive(h) \/ Handler(h)) \/ Service \/ Restart

Spec == Init /\ [][Next]_vars

(* Threads that wait for the lock get it in turn; the manager takes its    *)
(* messages, and a Runner executes its commands.                           *)
FairSpec ==
    /\ Spec
    /\ \A h \in Handlers : SF_vars(Handler(h))
    /\ WF_vars(TakeMessage) /\ \A u \in Cases : WF_vars(Obey(u)) /\ WF_vars(Acknowledge(u))

-----------------------------------------------------------------------------
TypeOK ==
    /\ lock \in Handlers \cup {"free"}
    /\ pc \in [Handlers -> {"idle", "acquire", "POST", "save", "put", "PATCH", "send",
                           "await", "DELETE", "all"}]
    /\ req \in [Handlers -> [op : {"POST", "PATCH", "DELETE"}, uuids : SUBSET Cases,
                             status : Commands \cup {"none"}]]
    /\ todo \in [Handlers -> SUBSET Cases] /\ received \in Nat
    /\ records \in [Cases -> Records \cup {"none"}]
    /\ phases \in [Cases -> Phases \cup {"none"}]
    /\ deleted \subseteq Cases
    /\ messages \in Seq([uuid : Cases, status : Commands \cup {"create", "force_end"}])
    /\ runner \in [Cases -> {"none", "listed", "cancelling", "overdue", "gone"}]
    /\ slot \in [Cases -> Commands \cup {"none"}] /\ doing \in [Cases -> Commands \cup {"none"}]

(* However many clients create cases at once, no more of them are being    *)
(* served than the configuration allows (Post, line 104), those aside      *)
(* whose finished record the monitor's cancel may set back to STOPPING.    *)
QuotaKept == Cardinality(Active \ Overdue) <= MaxRunners

(* A case has one command at a time: the next is refused or waits until    *)
(* the Runner has taken up the first (the comment of line 178); unless the *)
(* monitor's writes hide from the requests how far the case is.            *)
OneCommandAtATime == \A u \in Cases \ Overdue : Pending(u) <= 1

(* The statements inside "with UPDATE_LOCK".                               *)
InLock == {"POST", "save", "put", "PATCH", "send", "await", "DELETE"}

(* The lock is with the thread that is inside "with", and with nobody when *)
(* there is none: no answer, exception or restart leaves it taken, though  *)
(* a request holds it for seconds while others decide how the case goes on.*)
LockHeldInside == \A h \in Handlers : pc[h] \in InLock <=> lock = h

(* Every request is answered, whatever happens to the cases.               *)
RequestsEnd == \A h \in Handlers : pc[h] # "idle" ~> pc[h] = "idle"
=============================================================================
