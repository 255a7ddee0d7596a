-------------------------- MODULE AutoTestApiProofs --------------------------
(***************************************************************************)
(* Proofs about the auto-test resource, for any number of API threads and  *)
(* cases: without cancel, the quota is kept; and if a command is obeyed    *)
(* within POST_TIMEOUT, a case has one command at a time; both but for the *)
(* cases whose record the monitor writes too.  In any case the lock is     *)
(* held by the thread inside it.                                           *)
(***************************************************************************)
EXTENDS AutoTestApi, FiniteSetTheorems, SequenceTheorems, TLAPS

(* Clients only pause and resume.                                          *)
PauseAndResume == Commands \subseteq {"pause", "resume"}

Locked == \A h \in Handlers : pc[h] \in InLock => lock = h

(* Only a case that the service has begun has a Runner.                    *)
Listed ==
    \A u \in Cases : runner[u] # "none" =>
        phases[u] \in {"serving", "collecting", "over"} /\ records[u] # "none"

(* The cases whose record only requests and the Runner write.              *)
Kept == Cases \ Overdue

Served == Active \ Overdue

(* What the service is not through with counts for the quota; a record is  *)
(* moved by a command only while its case is served.                       *)
Counted ==
    \A u \in Kept :
        /\ phases[u] \in {"new", "serving", "collecting"} => records[u] \in ActiveStatuses
        /\ doing[u] # "none" => phases[u] = "serving"

(* A PATCH that comes to the lock has a status.                            *)
PatchWithStatus ==
    \A h \in Handlers :
        (pc[h] = "acquire" /\ req[h].op = "PATCH") \/ pc[h] \in {"PATCH", "send"}
            => req[h].status \in Commands

(* Between the count and the INSERT the quota has room.                    *)
RoomToSave == \A h \in Handlers : pc[h] = "save" => Cardinality(Served) < MaxRunners

QuotaInv ==
    TypeOK /\ PatchWithStatus /\ Locked /\ Listed /\ Counted /\ RoomToSave /\ QuotaKept

-----------------------------------------------------------------------------
(* The messages with a command for a case.                                 *)
Queued(u) == {i \in 1..Len(messages) : messages[i].uuid = u /\ messages[i].status \in Commands}

(* No command is on its way to a case, or being executed.                  *)
Quiet(u) == Queued(u) = {} /\ slot[u] = "none" /\ doing[u] = "none"

(* A command is in a message, in the slot or being executed: in one of     *)
(* them, and once.                                                         *)
AtOnePlace ==
    \A u \in Kept :
        /\ \A i, j \in Queued(u) : i = j
        /\ Queued(u) # {} => slot[u] = "none" /\ doing[u] = "none"
        /\ slot[u] # "none" => doing[u] = "none"

(* What a record shows when a command for it is not yet obeyed.            *)
Before(c) ==
    IF c = "pause" THEN {"STARTED", "PENDING", "STOPPING", "FINISHED", "ERROR"}
    ELSE {"PAUSED", "STOPPING", "FINISHED"}

Unobeyed(u, c) == slot[u] = c \/ \E i \in Queued(u) : messages[i].status = c

(* The request a command came with waits, with the lock, while the command *)
(* is not obeyed: then the record does not show it.                        *)
AwaitedFor(u, c) ==
    /\ records[u] \in Before(c)
    /\ \E h \in Handlers : pc[h] = "await" /\ req[h].status = c /\ u \in req[h].uuids

Awaited == \A u \in Kept, c \in Commands : Unobeyed(u, c) => AwaitedFor(u, c)

(* A request is about to send a command to cases that have none.           *)
Selected ==
    \A h \in Handlers : pc[h] = "send" =>
        /\ todo[h] \subseteq req[h].uuids
        /\ \A u \in todo[h] \ Overdue : Quiet(u) /\ records[u] \in Before(req[h].status)

(* What the record of a case shows before it begins, while it is served    *)
(* and during a command.                                                   *)
Shown ==
    \A u \in Kept :
        /\ phases[u] = "new" => records[u] = "INIT"
        /\ phases[u] = "serving" => records[u] \notin {"STOPPING", "FINISHED"}
        /\ doing[u] = "pause" => records[u] = "PAUSING"
        /\ doing[u] = "resume" => records[u] = "STARTING"
        /\ doing[u] # "none" => phases[u] = "serving"

CommandInv ==
    TypeOK /\ PatchWithStatus /\ Locked /\ Listed /\ AtOnePlace /\ Awaited /\ Selected /\ Shown

-----------------------------------------------------------------------------
(* The messages a request sends: one for each of its cases.                *)
Sent(s, c) == [i \in DOMAIN s |-> Message(s[i], c)]

MessageSet == [uuid : Cases, status : Commands \cup {"create", "force_end"}]

LEMMA SentMessages ==
  ASSUME NEW S \in SUBSET Cases, NEW s \in SetToSeqs(S), NEW c \in Commands \cup {"force_end"}
  PROVE  /\ Sent(s, c) \in Seq(MessageSet)
         /\ \A i \in 1..Len(Sent(s, c)) :
                /\ Sent(s, c)[i].uuid \in S /\ Sent(s, c)[i].status = c
                /\ \A j \in 1..Len(Sent(s, c)) : Sent(s, c)[i].uuid = Sent(s, c)[j].uuid => i = j
<1> DEFINE n == Cardinality(S)
<1>1. n \in Nat
  BY CasesAssumption, FS_Subset, FS_CardinalityType
<1>2. s \in [1..n -> S] /\ \A i, j \in 1..n : i # j => s[i] # s[j]
  BY DEF SetToSeqs
<1> HIDE DEF n
<1>3. Sent(s, c) = [i \in 1..n |-> [uuid |-> s[i], status |-> c]]
  BY <1>2 DEF Sent, Message
<1>4. Sent(s, c) \in [1..n -> MessageSet]
  BY <1>2, <1>3 DEF MessageSet
<1>5. Sent(s, c) \in Seq(MessageSet) /\ Len(Sent(s, c)) = n
  BY <1>1, <1>4
<1>6. \A i \in 1..n : Sent(s, c)[i].uuid = s[i] /\ Sent(s, c)[i].status = c
  BY <1>3
<1> QED
  BY <1>2, <1>5, <1>6

LEMMA InitTyped == Init => TypeOK
<1> SUFFICES ASSUME Init PROVE TypeOK
  OBVIOUS
<1>1. messages \in Seq(MessageSet)
  BY DEF Init
<1>2. req \in [Handlers -> [op : {"POST", "PATCH", "DELETE"}, uuids : SUBSET Cases,
                           status : Commands \cup {"none"}]]
  BY DEF Init
<1> QED
  BY <1>1, <1>2 DEF Init, TypeOK, MessageSet

(* The steps of the service on one case, as CaseStatus has them.           *)
LEMMA ServiceMoves ==
  ASSUME TypeOK, NEW u \in Cases, Moves(u)
  PROVE  /\ records' \in [Cases -> Records \cup {"none"}]
         /\ phases' \in [Cases -> Phases \cup {"none"}]
         /\ \A v \in Cases : v # u => records'[v] = records[v] /\ phases'[v] = phases[v]
BY DEF TypeOK, Moves

LEMMA Targets ==
  /\ Target("pause") = <<"PAUSING", "PAUSED">>
  /\ Target("cancel") = <<"STOPPING", "FINISHED">>
  /\ Target("resume") = <<"STARTING", "STARTED">>
BY DEF Target

LEMMA StepTyped == TypeOK /\ PatchWithStatus /\ [Next]_vars => TypeOK'
<1> SUFFICES ASSUME TypeOK, PatchWithStatus, [Next]_vars PROVE TypeOK'
  OBVIOUS
<1> USE DEF Goto, Answer, LeaveWith, handlerVars, serviceVars
<1>1. CASE UNCHANGED vars
  BY <1>1 DEF vars, TypeOK
<1>2. ASSUME NEW h \in Handlers, Receive(h) PROVE TypeOK'
  <2>1. PICK r \in Requests : Receive(h)!2!(r)
    BY <1>2 DEF Receive
  <2>2. r \in [op : {"POST", "PATCH", "DELETE"}, uuids : SUBSET Cases,
              status : Commands \cup {"none"}]
    BY DEF Requests
  <2>3. \E p \in {"idle", "all", "acquire"} : pc' = [pc EXCEPT ![h] = p]
    BY <2>1, Zenon DEF Begun
  <2>4. req' = [req EXCEPT ![h] = r] /\ received' \in Nat
    BY <1>2, <2>1 DEF Receive, TypeOK
  <2>5. UNCHANGED <<lock, todo, records, phases, runner, slot, doing, deleted, messages>>
    BY <1>2 DEF Receive
  <2> QED
    BY <2>2, <2>3, <2>4, <2>5 DEF TypeOK
<1>3. ASSUME NEW h \in Handlers, Acquire(h) \/ Count(h) PROVE TypeOK'
  BY <1>3 DEF Acquire, Count, TypeOK
<1>4. ASSUME NEW h \in Handlers, Save(h) PROVE TypeOK'
  <2>1. UNCHANGED <<req, received, runner, slot, doing, deleted, messages>>
    BY <1>4 DEF Save
  <2>2. CASE /\ pc' = [pc EXCEPT ![h] = "idle"] /\ lock' = "free"
             /\ UNCHANGED <<todo, records, phases>>
    BY <2>1, <2>2 DEF TypeOK
  <2>3. ASSUME NEW u \in Cases, pc' = [pc EXCEPT ![h] = "put"], lock' = lock,
               todo' = [todo EXCEPT ![h] = {u}], records' = [records EXCEPT ![u] = "INIT"],
               phases' = [phases EXCEPT ![u] = "new"]
        PROVE  TypeOK'
    BY <2>1, <2>3 DEF TypeOK, Records, Phases
  <2> QED
    BY <1>4, <2>2, <2>3 DEF Save
<1>5. ASSUME NEW h \in Handlers, Put(h) PROVE TypeOK'
  BY <1>5 DEF Put, TypeOK, Message
<1>6. ASSUME NEW h \in Handlers, SelectCases(h) PROVE TypeOK'
  <2>1. Updatable(h) \subseteq Cases
    BY DEF Updatable, Asked, Existing
  <2>2. todo' = todo \/ todo' = [todo EXCEPT ![h] = Updatable(h)]
    BY <1>6 DEF SelectCases
  <2>3. \E p \in {"idle", "send"} : pc' = [pc EXCEPT ![h] = p]
    BY <1>6 DEF SelectCases
  <2>4. lock' \in {lock, "free"} /\ UNCHANGED <<req, received, serviceVars, deleted, messages>>
    BY <1>6 DEF SelectCases
  <2> QED
    BY <2>1, <2>2, <2>3, <2>4 DEF TypeOK
<1>7. ASSUME NEW h \in Handlers, SendMessages(h) PROVE TypeOK'
  <2>1. PICK s \in SetToSeqs(todo[h]) : messages' = messages \o Sent(s, req[h].status)
    BY <1>7 DEF SendMessages, Sent
  <2>2. req[h].status \in Commands /\ todo[h] \subseteq Cases
    BY <1>7 DEF SendMessages, PatchWithStatus, TypeOK
  <2>3. messages' \in Seq(MessageSet)
    BY <2>1, <2>2, SentMessages, ConcatProperties DEF TypeOK, MessageSet
  <2> QED
    BY <1>7, <2>3 DEF SendMessages, TypeOK, MessageSet
<1>8. ASSUME NEW h \in Handlers, Await(h) \/ UpdateAll(h) PROVE TypeOK'
  <2>1. /\ lock' \in {lock, "free"} /\ pc' = [pc EXCEPT ![h] = "idle"]
        /\ UNCHANGED <<req, todo, received, serviceVars, deleted, messages>>
    BY <1>8 DEF Await, UpdateAll
  <2> QED
    BY <2>1 DEF TypeOK
<1>9. ASSUME NEW h \in Handlers, Delete(h) PROVE TypeOK'
  <2>1. PICK s \in SetToSeqs(req[h].uuids) : messages' = messages \o Sent(s, "force_end")
    BY <1>9 DEF Delete, Sent
  <2>2. messages' \in Seq(MessageSet)
    BY <2>1, SentMessages, ConcatProperties DEF TypeOK, MessageSet
  <2> QED
    BY <1>9, <2>2 DEF Delete, TypeOK, MessageSet, Asked
<1>10. CASE TakeMessage
  <2>1. messages' \in Seq(MessageSet)
    BY <1>10 DEF TakeMessage, TypeOK, MessageSet
  <2>2. /\ records' \in [Cases -> Records \cup {"none"}]
        /\ phases' \in [Cases -> Phases \cup {"none"}]
        /\ doing' = doing
    BY <1>10, ServiceMoves DEF TakeMessage, Begins, TypeOK
  <2>4. slot' \in [Cases -> Commands \cup {"none"}]
    BY <1>10 DEF TakeMessage, TypeOK
  <2>3. runner' \in [Cases -> {"none", "listed", "cancelling", "overdue", "gone"}]
    BY <1>10 DEF TakeMessage, Begins, TypeOK
  <2> QED
    BY <1>10, <2>1, <2>2, <2>3, <2>4 DEF TakeMessage, TypeOK, MessageSet
<1>11. ASSUME NEW u \in Cases, Obey(u) PROVE TypeOK'
  BY <1>11, ServiceMoves DEF Obey, Obeys, TypeOK
<1>12. ASSUME NEW u \in Cases, Acknowledge(u) PROVE TypeOK'
  <2>1. Target(doing[u])[2] \in Records
    <3>1. doing[u] \in {"pause", "cancel", "resume"}
      BY <1>12, CommandsAssumption DEF Acknowledge, TypeOK
    <3> QED
      BY <3>1, Targets DEF Records
  <2> QED
    BY <1>12, <2>1 DEF Acknowledge, TypeOK
<1>13. ASSUME NEW u \in Cases, GoOn(u) PROVE TypeOK'
  BY <1>13, ServiceMoves DEF GoOn, GoesOn, TypeOK
<1>14. CASE Restart
  BY <1>14 DEF Restart, TypeOK, Records, Phases
<1>15. ASSUME NEW u \in Cases, MonitorCancels(u) \/ MonitorEnds(u) \/ MonitorRemoves(u)
       PROVE  TypeOK'
  BY <1>15 DEF MonitorCancels, MonitorEnds, MonitorRemoves, TypeOK, Records
<1> QED
  BY <1>1, <1>2, <1>3, <1>4, <1>5, <1>6, <1>7, <1>8, <1>9, <1>10, <1>11, <1>12, <1>13, <1>14, <1>15
     DEF Next, Handler, Service, Existing

(* The service's steps leave the requests alone.                           *)
LEMMA ServiceAlone == Service => UNCHANGED handlerVars
BY DEF Service, TakeMessage, Obey, Acknowledge, GoOn, MonitorCancels, MonitorEnds,
       MonitorRemoves, handlerVars

LEMMA StepPatch == TypeOK /\ PatchWithStatus /\ [Next]_vars => PatchWithStatus'
<1> SUFFICES ASSUME TypeOK, PatchWithStatus, [Next]_vars PROVE PatchWithStatus'
  OBVIOUS
<1> USE DEF Goto, Answer, LeaveWith, PatchWithStatus
<1>1. CASE UNCHANGED vars \/ Service
  BY <1>1, ServiceAlone DEF vars, handlerVars
<1>2. ASSUME NEW h \in Handlers, Receive(h) PROVE PatchWithStatus'
  <2>1. PICK r \in Requests : Receive(h)!2!(r)
    BY <1>2 DEF Receive
  <2>2. r.op = "PATCH" /\ r.status # "none" => r.status \in Commands
    BY DEF Requests
  <2>3. \/ pc' = [pc EXCEPT ![h] = "idle"] \/ pc' = [pc EXCEPT ![h] = "all"]
        \/ pc' = [pc EXCEPT ![h] = "acquire"] /\ (r.op = "PATCH" => r.status # "none")
    BY <2>1, Zenon DEF Begun
  <2>4. req' = [req EXCEPT ![h] = r]
    BY <2>1
  <2> QED
    BY <2>2, <2>3, <2>4 DEF TypeOK
<1>3. ASSUME NEW h \in Handlers, Acquire(h) PROVE PatchWithStatus'
  BY <1>3 DEF Acquire, TypeOK
<1>4. ASSUME NEW h \in Handlers, SelectCases(h) PROVE PatchWithStatus'
  <2>1. /\ pc[h] = "PATCH" /\ req' = req
        /\ pc' = [pc EXCEPT ![h] = "send"] \/ pc' = [pc EXCEPT ![h] = "idle"]
    BY <1>4 DEF SelectCases
  <2> QED
    BY <2>1 DEF TypeOK
<1>5. ASSUME NEW h \in Handlers, Count(h) \/ Save(h) \/ Put(h) PROVE PatchWithStatus'
  BY <1>5 DEF Count, Save, Put, TypeOK
<1>6. ASSUME NEW h \in Handlers, SendMessages(h) \/ Await(h) \/ UpdateAll(h) \/ Delete(h)
      PROVE  PatchWithStatus'
  BY <1>6 DEF SendMessages, Await, UpdateAll, Delete, TypeOK
<1>7. CASE Restart
  BY <1>7 DEF Restart
<1> QED
  BY <1>1, <1>2, <1>3, <1>4, <1>5, <1>6, <1>7 DEF Next, Handler

(* The lock is given back by its holder, or by the end of the process.     *)
LEMMA StepLocked == TypeOK /\ Locked /\ [Next]_vars => Locked'
<1> SUFFICES ASSUME TypeOK, Locked, [Next]_vars PROVE Locked'
  OBVIOUS
<1> USE HandlersAssumption DEF Goto, Answer, LeaveWith, Locked, InLock
<1>1. CASE UNCHANGED vars \/ Service
  BY <1>1, ServiceAlone DEF vars, handlerVars
<1>2. ASSUME NEW h \in Handlers, Receive(h) PROVE Locked'
  <2>1. \E p \in {"idle", "all", "acquire"} : pc' = [pc EXCEPT ![h] = p]
    BY <1>2 DEF Receive, Begun
  <2> QED
    BY <1>2, <2>1 DEF Receive, TypeOK
<1>3. ASSUME NEW h \in Handlers, Acquire(h) PROVE Locked'
  BY <1>3 DEF Acquire, TypeOK
<1>4. ASSUME NEW h \in Handlers, Count(h) \/ Save(h) \/ Put(h) PROVE Locked'
  BY <1>4 DEF Count, Save, Put, TypeOK
<1>5. ASSUME NEW h \in Handlers, SelectCases(h) PROVE Locked'
  BY <1>5 DEF SelectCases, TypeOK
<1>6. ASSUME NEW h \in Handlers, SendMessages(h) \/ Await(h) \/ UpdateAll(h) \/ Delete(h)
      PROVE  Locked'
  BY <1>6 DEF SendMessages, Await, UpdateAll, Delete, TypeOK
<1>7. CASE Restart
  BY <1>7 DEF Restart
<1> QED
  BY <1>1, <1>2, <1>3, <1>4, <1>5, <1>6, <1>7 DEF Next, Handler

-----------------------------------------------------------------------------
(* The monitor.                                                            *)
LEMMA StepListed == TypeOK /\ Listed /\ [Next]_vars => Listed'
<1> SUFFICES ASSUME TypeOK, Listed, [Next]_vars PROVE Listed'
  OBVIOUS
<1> USE DEF Listed
<1>1. CASE UNCHANGED <<records, phases, runner>>
  BY <1>1
<1>2. ASSUME NEW h \in Handlers, Receive(h) PROVE UNCHANGED <<records, phases, runner>>
  BY <1>2 DEF Receive, serviceVars
<1>3. ASSUME NEW h \in Handlers, Acquire(h) \/ Count(h) \/ Put(h) \/ SelectCases(h) \/ SendMessages(h)
                                   \/ Await(h) \/ UpdateAll(h) \/ Delete(h)
      PROVE UNCHANGED <<records, phases, runner>>
  BY <1>3 DEF Acquire, Count, Put, SelectCases, SendMessages, Await, UpdateAll, Delete, serviceVars
<1>4. ASSUME NEW h \in Handlers, Save(h) PROVE Listed'
  <2>1. CASE UNCHANGED <<records, phases>>
    BY <1>4, <2>1 DEF Save
  <2>2. ASSUME NEW u \in Cases, records[u] = "none", runner' = runner,
               records' = [records EXCEPT ![u] = "INIT"], phases' = [phases EXCEPT ![u] = "new"]
        PROVE  Listed'
    BY <2>2 DEF TypeOK
  <2> QED
    BY <1>4, <2>1, <2>2 DEF Save, Existing
<1>5. CASE TakeMessage
  <2>1. ASSUME NEW u \in Cases, Begins(u) PROVE Listed'
    BY <2>1, ServiceMoves DEF Begins, Case!Begin, TypeOK
  <2> QED
    BY <1>1, <1>5, <2>1 DEF TakeMessage
<1>6. ASSUME NEW u \in Cases, Obey(u) PROVE Listed'
  BY <1>6, ServiceMoves DEF Obey, Obeys, Case!Obey
<1>7. ASSUME NEW u \in Cases, Acknowledge(u) PROVE Listed'
  <2>1. doing[u] \in {"pause", "cancel", "resume"}
    BY <1>7, CommandsAssumption DEF Acknowledge, TypeOK
  <2>2. Target(doing[u])[2] # "none"
    BY <2>1, Targets
  <2> QED
    BY <1>7, <2>2 DEF Acknowledge, TypeOK
<1>8. ASSUME NEW u \in Cases, GoOn(u) PROVE Listed'
  BY <1>8, ServiceMoves DEF GoOn, GoesOn, EndsRegardless, Case!SeePod, Case!Stop, Case!Deliver, Case!Fail
<1>9. ASSUME NEW u \in Cases, MonitorCancels(u) \/ MonitorEnds(u) \/ MonitorRemoves(u)
      PROVE  Listed'
  BY <1>9 DEF MonitorCancels, MonitorEnds, MonitorRemoves, TypeOK
<1>10. CASE Restart
  BY <1>10 DEF Restart
<1> QED
  BY <1>1, <1>2, <1>3, <1>4, <1>5, <1>6, <1>7, <1>8, <1>9, <1>10
     DEF Next, Handler, Service, Existing, vars, serviceVars

(* Until the controller starts again, a case stays overdue.                *)
LEMMA KeptBefore ==
  ASSUME TypeOK, Listed, Service
  PROVE  Kept' \subseteq Kept
<1>1. CASE runner' = runner
  BY <1>1 DEF Kept, Overdue
<1>2. CASE TakeMessage
  <2>1. ASSUME NEW u \in Cases, Begins(u) PROVE Kept' \subseteq Kept
    BY <2>1 DEF Begins, Case!Begin, Listed, Kept, Overdue, TypeOK
  <2> QED
    BY <1>1, <1>2, <2>1 DEF TakeMessage
<1>3. ASSUME NEW u \in Cases, MonitorCancels(u) \/ MonitorEnds(u) \/ MonitorRemoves(u)
      PROVE  Kept' \subseteq Kept
  BY <1>3 DEF MonitorCancels, MonitorEnds, MonitorRemoves, Kept, Overdue, TypeOK
<1> QED
  BY <1>1, <1>2, <1>3 DEF Service, Existing, Obey, Acknowledge, GoOn

(* What the monitor does concerns a case that it then knows to be overdue, *)
(* or one that is over.                                                    *)
LEMMA MonitorAside ==
  ASSUME TypeOK, NEW u \in Cases, MonitorCancels(u) \/ MonitorEnds(u) \/ MonitorRemoves(u)
  PROVE  /\ UNCHANGED <<handlerVars, phases, slot, doing, messages>>
         /\ \A v \in Kept' : records'[v] = records[v]
BY DEF MonitorCancels, MonitorEnds, MonitorRemoves, Kept, Overdue, TypeOK

-----------------------------------------------------------------------------
(* The quota.                                                              *)
LEMMA ActiveIsFinite ==
  /\ IsFiniteSet(Served) /\ Cardinality(Served) \in Nat /\ MaxRunners \in Nat
  /\ Cardinality(Active) \in Nat /\ Cardinality(Served) <= Cardinality(Active)
<1>1. Active \subseteq Cases /\ Served \subseteq Active
  BY DEF Active, Served
<1> QED
  BY <1>1, CasesAssumption, FS_Subset, FS_CardinalityType

(* A step that makes no case count for the quota that did not.             *)
LEMMA FewerAreActive ==
  ASSUME \A u \in Kept' : records'[u] \in ActiveStatuses => u \in Kept /\ records[u] \in ActiveStatuses
  PROVE  Cardinality(Served') <= Cardinality(Served) /\ Cardinality(Served') \in Nat
<1>1. Served' \subseteq Served
  BY DEF Served, Active, Kept
<1> QED
  BY <1>1, ActiveIsFinite, FS_Subset, FS_CardinalityType

(* Steps other than Save: a record becomes inactive only with its case     *)
(* over, and never active again.                                           *)
LEMMA StepCounted ==
  ASSUME PauseAndResume, TypeOK, Listed, Counted, [Next]_vars
  PROVE  /\ Counted'
         /\ \/ \E h \in Handlers : Save(h)
            \/ \A u \in Kept' : records'[u] \in ActiveStatuses =>
                                   u \in Kept /\ records[u] \in ActiveStatuses
<1> DEFINE Goal == Counted' /\ \A u \in Kept' : records'[u] \in ActiveStatuses =>
                                                u \in Kept /\ records[u] \in ActiveStatuses
<1> USE DEF Counted, ActiveStatuses
<1>1. ASSUME UNCHANGED <<records, phases, runner, doing>> PROVE Goal
  BY <1>1 DEF Kept, Overdue
<1>2. ASSUME NEW h \in Handlers, Save(h) PROVE Counted'
  <2>1. CASE UNCHANGED <<records, phases>>
    BY <1>1, <1>2, <2>1 DEF Save
  <2>2. ASSUME NEW u \in Cases, records[u] = "none", runner' = runner, doing' = doing,
               records' = [records EXCEPT ![u] = "INIT"], phases' = [phases EXCEPT ![u] = "new"]
        PROVE  Counted'
    <3>1. u \in Kept /\ Kept' = Kept
      BY <2>2 DEF Listed, Kept, Overdue
    <3>2. doing[u] = "none"
      BY <2>2, <3>1
    <3> QED
      BY <2>2, <3>1, <3>2 DEF TypeOK, Kept
  <2> QED
    BY <1>2, <2>1, <2>2 DEF Save, Existing
<1>3. ASSUME TakeMessage PROVE Goal
  <2>1. ASSUME NEW u \in Cases, Begins(u), UNCHANGED doing PROVE Goal
    <3>1. Kept' \subseteq Kept /\ phases[u] = "new" /\ phases'[u] = "serving" /\ records'[u] = "STARTING"
      BY <1>3, <2>1, KeptBefore DEF Service, Begins, Case!Begin
    <3>2. u \in Kept
      BY <3>1 DEF Listed, Kept, Overdue
    <3> QED
      BY <2>1, <3>1, <3>2, ServiceMoves DEF Begins, Kept
  <2>2. PICK u \in Cases : \/ Begins(u) /\ UNCHANGED doing
                          \/ UNCHANGED <<records, phases, runner, doing>>
    BY <1>3 DEF TakeMessage
  <2>3. CASE Begins(u) /\ UNCHANGED doing
    BY <2>1, <2>3
  <2>4. CASE UNCHANGED <<records, phases, runner, doing>>
    BY <1>1, <2>4
  <2> QED
    BY <2>2, <2>3, <2>4
<1>4. ASSUME NEW u \in Cases, Obey(u) PROVE Goal
  <2>1. records'[u] \in {"PAUSING", "STOPPING", "STARTING"} /\ phases'[u] = phases[u]
        /\ phases[u] = "serving"
    BY <1>4 DEF Obey, Obeys, Case!Obey
  <2>2. \A v \in Cases : v # u => records'[v] = records[v] /\ phases'[v] = phases[v]
                               /\ doing'[v] = doing[v]
    BY <1>4, ServiceMoves DEF Obey, Obeys, TypeOK
  <2>3. Kept' = Kept
    BY <1>4 DEF Obey, Kept, Overdue
  <2>4. u \in Kept => records[u] \in ActiveStatuses
    BY <2>1
  <2> QED
    BY <2>1, <2>2, <2>3, <2>4 DEF Kept
<1>5. ASSUME NEW u \in Cases, Acknowledge(u) PROVE Goal
  <2>1. doing[u] \in {"pause", "resume"}
    BY <1>5 DEF Acknowledge, TypeOK, PauseAndResume
  <2>2. Target(doing[u])[2] \in {"PAUSED", "STARTED"}
    BY <2>1, Targets
  <2>3. Kept' = Kept
    BY <1>5 DEF Acknowledge, Kept, Overdue
  <2>4. u \in Kept => phases[u] = "serving"
    BY <1>5 DEF Acknowledge
  <2> QED
    BY <1>5, <2>1, <2>2, <2>3, <2>4 DEF Acknowledge, TypeOK, Kept
<1>6. ASSUME NEW u \in Cases, GoOn(u) PROVE Goal
  <2>1. /\ phases[u] \in {"serving", "collecting"}
        /\ phases'[u] \in {"serving", "collecting"} => records'[u] \in ActiveStatuses
        /\ phases'[u] # "new"
    BY <1>6 DEF GoOn, GoesOn, EndsRegardless, Case!SeePod, Case!Stop, Case!Deliver, Case!Fail
  <2>2. \A v \in Cases : v # u => records'[v] = records[v] /\ phases'[v] = phases[v]
    BY <1>6, ServiceMoves DEF GoOn, GoesOn
  <2>3. doing' = doing /\ doing[u] = "none"
    BY <1>6 DEF GoOn
  <2>4. Kept' = Kept
    BY <1>6 DEF GoOn, Kept, Overdue
  <2> QED
    BY <2>1, <2>2, <2>3, <2>4 DEF Kept
<1>7. ASSUME Restart PROVE Goal
  BY <1>7 DEF Restart, TypeOK, Records, Kept
<1>8. ASSUME NEW h \in Handlers, Receive(h) PROVE UNCHANGED <<records, phases, runner, doing>>
  BY <1>8 DEF Receive, serviceVars
<1>9. ASSUME NEW h \in Handlers, Acquire(h) \/ Count(h) \/ Put(h) \/ SelectCases(h) \/ SendMessages(h)
                                   \/ Await(h) \/ UpdateAll(h) \/ Delete(h)
      PROVE UNCHANGED <<records, phases, runner, doing>>
  BY <1>9 DEF Acquire, Count, Put, SelectCases, SendMessages, Await, UpdateAll, Delete, serviceVars
<1>10. ASSUME NEW u \in Cases, MonitorCancels(u) \/ MonitorEnds(u) \/ MonitorRemoves(u)
       PROVE  Goal
  <2>1. UNCHANGED <<phases, doing>> /\ \A v \in Kept' : records'[v] = records[v]
    BY <1>10, MonitorAside
  <2>2. Kept' \subseteq Kept
    BY <1>10, KeptBefore DEF Service, Existing, MonitorCancels, MonitorEnds, MonitorRemoves, Listed
  <2> QED
    BY <2>1, <2>2
<1> QED
  BY <1>1, <1>2, <1>3, <1>4, <1>5, <1>6, <1>7, <1>8, <1>9, <1>10
     DEF Next, Handler, Service, Existing, vars, serviceVars

LEMMA OnlyCountLeadsToSave ==
  ASSUME TypeOK, [Next]_vars, NEW g \in Handlers, pc'[g] = "save", pc[g] # "save"
  PROVE  Count(g)
<1> USE DEF Goto, Answer, LeaveWith, TypeOK
<1>1. CASE UNCHANGED vars \/ Service
  BY <1>1, ServiceAlone DEF vars, handlerVars
<1>2. ASSUME NEW h \in Handlers, Receive(h) PROVE FALSE
  <2>1. \E p \in {"idle", "all", "acquire"} : pc' = [pc EXCEPT ![h] = p]
    BY <1>2 DEF Receive, Begun
  <2> QED
    BY <2>1
<1>3. ASSUME NEW h \in Handlers, Acquire(h) PROVE FALSE
  BY <1>3 DEF Acquire
<1>4. ASSUME NEW h \in Handlers, Count(h) PROVE Count(g)
  <2>1. \E p \in {"idle", "save"} : pc' = [pc EXCEPT ![h] = p]
    BY <1>4 DEF Count
  <2>2. h = g
    BY <2>1
  <2> QED
    BY <1>4, <2>2
<1>5. ASSUME NEW h \in Handlers, Save(h) \/ Put(h) \/ SelectCases(h) PROVE FALSE
  BY <1>5 DEF Save, Put, SelectCases
<1>6. ASSUME NEW h \in Handlers, SendMessages(h) \/ Await(h) \/ UpdateAll(h) \/ Delete(h)
      PROVE  FALSE
  BY <1>6 DEF SendMessages, Await, UpdateAll, Delete
<1>7. CASE Restart
  BY <1>7 DEF Restart
<1> QED
  BY <1>1, <1>2, <1>3, <1>4, <1>5, <1>6, <1>7 DEF Next, Handler

(* Only the holder of the lock counts and saves: what it has counted is    *)
(* there when it saves, or less.                                           *)
LEMMA StepQuota ==
  ASSUME PauseAndResume, QuotaInv, [Next]_vars
  PROVE  RoomToSave' /\ QuotaKept'
<1>1. TypeOK /\ Locked /\ Locked' /\ TypeOK'
  BY StepLocked, StepTyped DEF QuotaInv
<1>2. ASSUME NEW h \in Handlers, Save(h) PROVE RoomToSave' /\ QuotaKept'
  <2>1. \A g \in Handlers : pc'[g] # "save"
    BY <1>1, <1>2, HandlersAssumption DEF Save, LeaveWith, Answer, Goto, Locked, InLock, TypeOK
  <2>2. Overdue' = Overdue
    BY <1>2 DEF Save, Overdue
  <2>3. CASE records' = records
    BY <2>1, <2>2, <2>3 DEF QuotaInv, RoomToSave, QuotaKept, Active
  <2>4. ASSUME NEW u \in Cases, records' = [records EXCEPT ![u] = "INIT"]
        PROVE  RoomToSave' /\ QuotaKept'
    <3>1. Served' \subseteq Served \cup {u}
      BY <1>1, <2>2, <2>4 DEF Served, Active, ActiveStatuses, TypeOK
    <3>2. IsFiniteSet(Served) /\ Cardinality(Served \cup {u}) <= Cardinality(Served) + 1
      <4>1. IsFiniteSet(Served) /\ Cardinality(Served) \in Nat
        BY ActiveIsFinite
      <4>2. Cardinality(Served \cup {u}) \in {Cardinality(Served), Cardinality(Served) + 1}
        BY <4>1, FS_AddElement
      <4> QED
        BY <4>1, <4>2
    <3>3. IsFiniteSet(Served \cup {u})
      BY <3>2, FS_AddElement
    <3>4. Cardinality(Served') <= Cardinality(Served \cup {u}) /\ Cardinality(Served') \in Nat
          /\ Cardinality(Served \cup {u}) \in Nat
      BY <3>1, <3>3, FS_Subset, FS_CardinalityType
    <3>5. Cardinality(Served) < MaxRunners
      BY <1>2 DEF Save, QuotaInv, RoomToSave
    <3> QED
      BY <2>1, <3>2, <3>4, <3>5, ActiveIsFinite DEF RoomToSave, QuotaKept, Served
  <2> QED
    BY <1>2, <2>3, <2>4 DEF Save
<1>3. CASE \A u \in Kept' : records'[u] \in ActiveStatuses => u \in Kept /\ records[u] \in ActiveStatuses
  <2>1. Cardinality(Served') <= Cardinality(Served) /\ Cardinality(Served') \in Nat
    BY <1>3, FewerAreActive
  <2>2. ASSUME NEW g \in Handlers, pc'[g] = "save", pc[g] # "save"
        PROVE  Cardinality(Served) < MaxRunners
    <3>1. Count(g)
      BY <1>1, <2>2, OnlyCountLeadsToSave
    <3>2. pc' # [pc EXCEPT ![g] = "idle"]
      BY <1>1, <2>2 DEF TypeOK
    <3>3. ~(Cardinality(Active) >= MaxRunners)
      BY <3>1, <3>2 DEF Count, LeaveWith, Answer, Goto
    <3> QED
      BY <3>3, ActiveIsFinite
  <2> QED
    BY <2>1, <2>2, ActiveIsFinite DEF RoomToSave, QuotaKept, QuotaInv, Served
<1> QED
  BY <1>2, <1>3, StepCounted DEF QuotaInv

(* Without cancel, however many clients create cases at once and whatever  *)
(* the service does with them, no more are active than max_runner_num, the *)
(* ones that the monitor has found to be overdue aside.                    *)
THEOREM QuotaIsKept == PauseAndResume => (Spec => []QuotaKept)
<1> SUFFICES ASSUME PauseAndResume PROVE Spec => []QuotaKept
  OBVIOUS
<1>1. Init => QuotaInv
  <2> SUFFICES ASSUME Init PROVE QuotaInv
    OBVIOUS
  <2>1. Active \ Overdue = {}
    BY DEF Init, Active, ActiveStatuses
  <2>2. QuotaKept
    BY <2>1, FS_EmptySet, CasesAssumption DEF QuotaKept
  <2> QED
    BY <2>2, InitTyped
       DEF Init, QuotaInv, PatchWithStatus, Locked, InLock, Listed, Kept, Counted, RoomToSave
<1>2. QuotaInv /\ [Next]_vars => QuotaInv'
  BY StepTyped, StepPatch, StepLocked, StepListed, StepCounted, StepQuota DEF QuotaInv
<1>3. QuotaInv => QuotaKept
  BY DEF QuotaInv
<1> QED
  BY <1>1, <1>2, <1>3, PTL DEF Spec

-----------------------------------------------------------------------------
(* One command at a time.                                                  *)
LEMMA QueuedKept ==
  ASSUME TypeOK, NEW u, NEW t \in Seq(MessageSet), messages' = messages \o t,
         \A i \in 1..Len(t) : t[i].status \notin Commands
  PROVE  Queued(u)' = Queued(u) /\ \A i \in Queued(u) : messages'[i] = messages[i]
<1>1. messages \in Seq(MessageSet)
  BY DEF TypeOK, MessageSet
<1>2. /\ Len(messages') = Len(messages) + Len(t) /\ Len(messages) \in Nat /\ Len(t) \in Nat
      /\ \A i \in 1..Len(messages') :
             messages'[i] = IF i <= Len(messages) THEN messages[i] ELSE t[i - Len(messages)]
  BY <1>1, ConcatProperties, LenProperties
<1>3. \A i \in 1..Len(messages) : i \in 1..Len(messages') /\ messages'[i] = messages[i]
  BY <1>2
<1>4. ASSUME NEW i \in 1..Len(messages'), i \notin 1..Len(messages)
      PROVE  messages'[i].status \notin Commands
  <2>1. i - Len(messages) \in 1..Len(t) /\ messages'[i] = t[i - Len(messages)]
    BY <1>2, <1>4
  <2> QED
    BY <2>1
<1> QED
  BY <1>3, <1>4 DEF Queued

LEMMA QueuedTail ==
  ASSUME TypeOK, messages # <<>>, messages' = Tail(messages), NEW u
  PROVE  \A i \in Queued(u)' : /\ i \in Nat \ {0} /\ i + 1 \in Queued(u)
                               /\ messages'[i] = messages[i + 1]
BY DEF TypeOK, Queued

LEMMA HeadQueued ==
  ASSUME TypeOK, messages # <<>>, NEW u, NEW c \in Commands, Head(messages) = Message(u, c)
  PROVE  1 \in Queued(u) /\ messages[1].status = c
<1>1. messages[1] = Message(u, c) /\ 1 \in 1..Len(messages)
  BY DEF TypeOK
<1> QED
  BY <1>1 DEF Queued, Message

(* Pending counts what is Queued, in the slot and being executed.          *)
LEMMA PendingCounts ==
  ASSUME TypeOK, NEW u \in Cases
  PROVE  /\ Pending(u) = 0 => Quiet(u)
         /\ AtOnePlace /\ u \in Kept => Pending(u) <= 1
<1> DEFINE n == Cardinality(Queued(u))
<1>1. DOMAIN messages = 1..Len(messages) /\ Len(messages) \in Nat
  BY DEF TypeOK
<1>2. Pending(u) = n + (IF slot[u] = "none" THEN 0 ELSE 1) + (IF doing[u] = "none" THEN 0 ELSE 1)
  BY <1>1 DEF Pending, Queued
<1>3. IsFiniteSet(Queued(u))
  <2>1. IsFiniteSet(1..Len(messages))
    BY <1>1, FS_Interval
  <2>2. Queued(u) \subseteq 1..Len(messages)
    BY DEF Queued
  <2> QED
    BY <2>1, <2>2, FS_Subset
<1>4. n \in Nat /\ (n = 0 <=> Queued(u) = {})
  BY <1>3, FS_CardinalityType, FS_EmptySet
<1>5. ASSUME AtOnePlace, u \in Kept PROVE n <= 1
  <2>1. CASE Queued(u) = {}
    BY <1>4, <2>1
  <2>2. ASSUME NEW i \in Queued(u) PROVE n = 1
    <3>1. Queued(u) = {i}
      BY <1>5, <2>2 DEF AtOnePlace
    <3> QED
      BY <3>1, FS_Singleton
  <2> QED
    BY <2>1, <2>2
<1> HIDE DEF n
<1>6. Pending(u) = 0 => Quiet(u)
  BY <1>2, <1>4 DEF Quiet
<1>7. ASSUME AtOnePlace, u \in Kept PROVE Pending(u) <= 1
  BY <1>2, <1>4, <1>5, <1>7 DEF AtOnePlace
<1> QED
  BY <1>6, <1>7

(* No command is on its way while the holder of the lock does not wait.    *)
LEMMA NothingUnobeyed ==
  ASSUME TypeOK, Locked, Awaited, NEW h \in Handlers, lock = h, pc[h] # "await", NEW u \in Kept
  PROVE  Queued(u) = {} /\ slot[u] = "none"
<1>1. \A g \in Handlers : pc[g] # "await"
  BY DEF Locked, InLock
<1>2. \A c \in Commands : ~Unobeyed(u, c)
  BY <1>1 DEF Awaited, AwaitedFor
<1> QED
  BY <1>2 DEF Unobeyed, Queued, TypeOK, Kept

(* A step of a request that waits in no command's name.                    *)
LEMMA RequestKeeps ==
  ASSUME CommandInv, UNCHANGED <<messages, slot, doing, records, phases, runner>>,
         \A g \in Handlers : pc[g] = "await" => pc'[g] = "await" /\ req'[g] = req[g]
  PROVE  AtOnePlace' /\ Awaited' /\ Shown'
<1>1. \A u : Queued(u)' = Queued(u)
  BY DEF Queued
<1>2. \A u \in Cases, c \in Commands : Unobeyed(u, c)' => Unobeyed(u, c)
  BY <1>1 DEF Unobeyed
<1>3. \A u \in Cases, c \in Commands : AwaitedFor(u, c) => AwaitedFor(u, c)'
  BY DEF AwaitedFor
<1> Kept' = Kept
  BY DEF Kept, Overdue
<1>4. AtOnePlace'
  BY <1>1 DEF CommandInv, AtOnePlace
<1>5. Awaited'
  BY <1>2, <1>3 DEF CommandInv, Awaited, Kept
<1> QED
  BY <1>4, <1>5 DEF CommandInv, Shown

LEMMA SelectedKept ==
  ASSUME CommandInv, UNCHANGED <<messages, slot, doing, records, runner>>,
         \A g \in Handlers : pc'[g] = "send" =>
             pc[g] = "send" /\ req'[g] = req[g] /\ todo'[g] = todo[g]
  PROVE  Selected'
<1>1. \A u : Queued(u)' = Queued(u)
  BY DEF Queued
<1>2. \A u : Quiet(u)' = Quiet(u)
  BY <1>1 DEF Quiet
<1> QED
  BY <1>2 DEF CommandInv, Selected, Overdue

CommandKept == AtOnePlace /\ Awaited /\ Selected /\ Shown

LEMMA ReceiveKeeps ==
  ASSUME CommandInv, NEW h \in Handlers,
         Receive(h) \/ Acquire(h) \/ Count(h) \/ UpdateAll(h)
  PROVE  CommandKept'
<1>1. /\ pc[h] \notin {"await", "send"}
      /\ UNCHANGED <<messages, slot, doing, records, phases, runner>>
      /\ \A g \in Handlers : g # h => todo'[g] = todo[g] /\ req'[g] = req[g]
  BY DEF CommandInv, TypeOK, Receive, Acquire, Count, UpdateAll, serviceVars
<1>2. \E p \in {"idle", "all", "acquire", "POST", "PATCH", "DELETE", "save"} :
          pc' = [pc EXCEPT ![h] = p]
  BY DEF CommandInv, TypeOK, Receive, Acquire, Count, UpdateAll, Goto, Begun, LeaveWith, Answer
<1>3. \A g \in Handlers : g # h => pc'[g] = pc[g]
  BY <1>2 DEF CommandInv, TypeOK
<1>4. pc'[h] # "send"
  BY <1>2 DEF CommandInv, TypeOK
<1> QED
  BY <1>1, <1>3, <1>4, RequestKeeps, SelectedKept DEF CommandKept

(* A case that is selected is in a status no command leaves it in before   *)
(* it is obeyed, with the lock held: it has none.                          *)
LEMMA SelectKeeps ==
  ASSUME PauseAndResume, CommandInv, NEW h \in Handlers, SelectCases(h)
  PROVE  CommandKept'
<1> DEFINE c == req[h].status
<1>1. /\ pc[h] = "PATCH" /\ lock = h /\ c \in {"pause", "resume"}
      /\ UNCHANGED <<messages, slot, doing, records, phases, runner, req>>
  BY DEF SelectCases, CommandInv, PatchWithStatus, PauseAndResume, Locked, InLock, serviceVars
<1>2. /\ \E p \in {"idle", "send"} : pc' = [pc EXCEPT ![h] = p]
      /\ pc'[h] = "send" => todo' = [todo EXCEPT ![h] = Updatable(h)]
  BY DEF CommandInv, TypeOK, SelectCases, LeaveWith, Answer, Goto
<1>3. \A g \in Handlers : g # h => pc'[g] = pc[g] /\ pc[g] # "send"
  BY <1>1, <1>2 DEF CommandInv, TypeOK, Locked, InLock
<1>4. ASSUME NEW u \in Updatable(h), u \notin Overdue
      PROVE  Quiet(u)' /\ records'[u] \in Before(c)
  <2>1. u \in Kept /\ u \in Cases /\ u \in req[h].uuids /\ records[u] \in Supported(c)
    BY <1>4 DEF Updatable, Asked, Existing, Kept
  <2>2. /\ c = "pause" => records[u] = "STARTED"
        /\ c = "resume" => records[u] = "PAUSED"
    BY <2>1 DEF Supported
  <2>3. Queued(u) = {} /\ slot[u] = "none"
    BY <1>1, <2>1, NothingUnobeyed DEF CommandInv
  <2>4. doing[u] = "none"
    BY <1>1, <2>1, <2>2 DEF CommandInv, Shown, TypeOK, PauseAndResume
  <2>5. Queued(u)' = Queued(u)
    BY <1>1 DEF Queued
  <2> QED
    BY <1>1, <2>1, <2>2, <2>3, <2>4, <2>5 DEF Quiet, Before
<1>5. Updatable(h) \subseteq req[h].uuids /\ Overdue' = Overdue
  BY <1>1 DEF Updatable, Asked, Overdue
<1>6. Selected'
  BY <1>1, <1>2, <1>3, <1>4, <1>5 DEF Selected, CommandInv, TypeOK
<1> QED
  BY <1>1, <1>3, <1>6, RequestKeeps DEF CommandKept

LEMMA NotShownBefore ==
  ASSUME NEW u, NEW c \in {"pause", "resume"}, Shows(u, c)
  PROVE  records[u] \notin Before(c)
<1>1. ToSet(<<"PAUSING", "PAUSED">>) = {"PAUSING", "PAUSED"}
  BY DEF ToSet
<1>2. ToSet(<<"STARTING", "STARTED">>) = {"STARTING", "STARTED"}
  BY DEF ToSet
<1>3. CASE c = "pause"
  BY <1>1, <1>3, Targets DEF Shows, Before
<1>4. CASE c = "resume"
  BY <1>2, <1>4, Targets DEF Shows, Before
<1> QED
  BY <1>3, <1>4

(* A request that ends has waited until its commands were obeyed or lost.  *)
LEMMA AwaitKeeps ==
  ASSUME PauseAndResume, ~Disturbed, CommandInv, NEW h \in Handlers, Await(h)
  PROVE  CommandKept'
<1> USE DEF CommandInv
<1>1. /\ pc[h] = "await" /\ lock = h /\ UNCHANGED <<messages, slot, doing, records, phases, runner, req, todo>>
      /\ pc' = [pc EXCEPT ![h] = "idle"]
  BY DEF Await, LeaveWith, Answer, Goto, serviceVars, Locked, InLock
<1>2. \A g \in Handlers : g # h => pc'[g] = pc[g] /\ pc[g] \notin InLock
  BY <1>1 DEF Locked, TypeOK
<1>3. ASSUME NEW u \in Kept, NEW c \in Commands, Unobeyed(u, c) PROVE FALSE
  <2>1. /\ records[u] \in Before(c) /\ req[h].status = c /\ u \in req[h].uuids
    BY <1>2, <1>3 DEF Awaited, AwaitedFor, InLock
  <2>2. u \in Cases /\ u \in Asked(h)
    BY <2>1 DEF Kept, Asked, Existing, Before
  <2>3. ~Quiet(u)
    BY <1>3, <2>2, CommandsAssumption DEF Unobeyed, Quiet
  <2>4. Pending(u) # 0
    BY <2>2, <2>3, PendingCounts
  <2>5. Shows(u, c)
    BY <2>1, <2>2, <2>4 DEF Await
  <2> QED
    BY <2>1, <2>5, NotShownBefore DEF PauseAndResume
<1>4. \A u : Queued(u)' = Queued(u)
  BY <1>1 DEF Queued
<1> Kept' = Kept
  BY <1>1 DEF Kept, Overdue
<1>5. AtOnePlace' /\ Shown'
  BY <1>1, <1>4 DEF AtOnePlace, Shown
<1>6. Awaited'
  BY <1>1, <1>3, <1>4 DEF Awaited, Unobeyed
<1>7. Selected'
  BY <1>1, <1>2, SelectedKept DEF InLock, TypeOK
<1> QED
  BY <1>5, <1>6, <1>7 DEF CommandKept

(* The uuid of a new record is no other case's.                            *)
LEMMA SaveKeeps ==
  ASSUME PauseAndResume, CommandInv, NEW h \in Handlers, Save(h)
  PROVE  CommandKept'
<1> USE DEF CommandInv
<1>1. /\ pc[h] = "save" /\ lock = h /\ UNCHANGED <<messages, slot, doing, runner, req>>
      /\ \E p \in {"put", "idle"} : pc' = [pc EXCEPT ![h] = p]
  BY DEF Save, LeaveWith, Answer, Goto, Locked, InLock
<1>2. \A g \in Handlers : pc[g] \notin {"send", "await"} /\ pc'[g] \notin {"send", "await"}
  BY <1>1, HandlersAssumption DEF Locked, TypeOK, InLock
<1> Kept' = Kept
  BY <1>1 DEF Kept, Overdue
<1>3. \A u \in Kept : Queued(u)' = {} /\ slot'[u] = "none"
  <2>1. \A u \in Kept : Queued(u) = {} /\ slot[u] = "none"
    BY <1>1, NothingUnobeyed
  <2> QED
    BY <1>1, <2>1 DEF Queued
<1>4. Shown'
  <2>1. CASE UNCHANGED <<records, phases>>
    BY <1>1, <2>1 DEF Shown
  <2>2. ASSUME NEW u \in Cases, records[u] = "none",
               records' = [records EXCEPT ![u] = "INIT"], phases' = [phases EXCEPT ![u] = "new"]
        PROVE  Shown'
    <3>1. u \in Kept
      BY <2>2 DEF Kept, Overdue, Listed
    <3>2. doing[u] = "none"
      BY <2>2, <3>1 DEF TypeOK, Shown, PauseAndResume
    <3> QED
      BY <1>1, <2>2, <3>2 DEF Shown, TypeOK, Kept
  <2> QED
    BY <2>1, <2>2 DEF Save, Existing
<1>5. AtOnePlace'
  BY <1>3 DEF AtOnePlace
<1>6. \A v \in Kept, c \in Commands : ~Unobeyed(v, c)'
  BY <1>3, CommandsAssumption DEF Unobeyed
<1> QED
  BY <1>2, <1>4, <1>5, <1>6 DEF CommandKept, Awaited, Selected

(* A request that puts messages without a command.                         *)
LEMMA PutKeeps ==
  ASSUME CommandInv, NEW h \in Handlers, Put(h) \/ Delete(h)
  PROVE  CommandKept'
<1> USE DEF CommandInv
<1>1. /\ pc[h] \in {"put", "DELETE"} /\ lock = h
      /\ UNCHANGED <<slot, doing, records, phases, runner, req>> /\ pc' = [pc EXCEPT ![h] = "idle"]
  BY DEF Put, Delete, LeaveWith, Answer, Goto, Locked, InLock, serviceVars
<1>2. \A g \in Handlers : pc[g] \notin {"send", "await"} /\ pc'[g] \notin {"send", "await"}
  BY <1>1, HandlersAssumption DEF Locked, TypeOK, InLock
<1>3. \E t \in Seq(MessageSet) :
         messages' = messages \o t /\ \A i \in 1..Len(t) : t[i].status \notin Commands
  <2>1. CASE Put(h)
    <3>1. PICK u \in Cases : messages' = Append(messages, Message(u, "create"))
      BY <2>1 DEF Put, TypeOK
    <3> DEFINE t == <<Message(u, "create")>>
    <3>2. t \in Seq(MessageSet) /\ Len(t) = 1 /\ t[1].status = "create"
      BY DEF MessageSet, Message
    <3>3. messages' = messages \o t
      <4>1. messages \in Seq(MessageSet) /\ Message(u, "create") \in MessageSet
        BY DEF TypeOK, MessageSet, Message
      <4> QED
        BY <3>1, <4>1, AppendIsConcat
    <3>4. "create" \notin Commands
      BY CommandsAssumption
    <3> HIDE DEF t
    <3>5. \A i \in 1..Len(t) : t[i].status \notin Commands
      BY <3>2, <3>4
    <3> QED
      BY <3>2, <3>3, <3>5
  <2>2. CASE Delete(h)
    <3>1. PICK s \in SetToSeqs(req[h].uuids) : messages' = messages \o Sent(s, "force_end")
      BY <2>2 DEF Delete, Sent
    <3>2. req[h].uuids \in SUBSET Cases /\ "force_end" \notin Commands
      BY CommandsAssumption DEF TypeOK
    <3> DEFINE t == Sent(s, "force_end")
    <3>3. t \in Seq(MessageSet) /\ \A i \in 1..Len(t) : t[i].status = "force_end"
      BY <3>2, SentMessages
    <3> HIDE DEF t
    <3>4. \A i \in 1..Len(t) : t[i].status \notin Commands
      BY <3>2, <3>3
    <3>5. messages' = messages \o t
      BY <3>1 DEF t
    <3> QED
      BY <3>3, <3>4, <3>5
  <2> QED
    BY <2>1, <2>2
<1> Kept' = Kept
  BY <1>1 DEF Kept, Overdue
<1>4. \A u \in Kept : Queued(u)' = {} /\ slot'[u] = "none"
  <2>1. \A u \in Kept : Queued(u) = {} /\ slot[u] = "none"
    BY <1>1, NothingUnobeyed
  <2> QED
    BY <1>1, <1>3, <2>1, QueuedKept
<1>5. AtOnePlace' /\ Shown'
  BY <1>1, <1>4 DEF AtOnePlace, Shown
<1>6. \A v \in Kept, c \in Commands : ~Unobeyed(v, c)'
  BY <1>4, CommandsAssumption DEF Unobeyed
<1> QED
  BY <1>2, <1>5, <1>6 DEF CommandKept, Awaited, Selected

(* The commands of a request go to cases that have none.                   *)
LEMMA SendKeeps ==
  ASSUME CommandInv, NEW h \in Handlers, SendMessages(h)
  PROVE  CommandKept'
<1> USE DEF CommandInv
<1> DEFINE c == req[h].status
           n == Len(messages)
<1>1. /\ pc[h] = "send" /\ lock = h /\ c \in Commands /\ todo[h] \in SUBSET Cases
      /\ UNCHANGED <<slot, doing, records, phases, runner, req>> /\ pc' = [pc EXCEPT ![h] = "await"]
  BY DEF SendMessages, Goto, Locked, InLock, PatchWithStatus, TypeOK, serviceVars
<1>2. pc'[h] = "await" /\ \A g \in Handlers : pc'[g] # "send"
  BY <1>1, HandlersAssumption DEF Locked, TypeOK, InLock
<1>3. PICK s \in SetToSeqs(todo[h]) : messages' = messages \o Sent(s, c)
  BY DEF SendMessages, Sent
<1> DEFINE t == Sent(s, c)
<1>4. /\ t \in Seq(MessageSet)
      /\ \A i \in 1..Len(t) :
            /\ t[i].uuid \in todo[h] /\ t[i].status = c
            /\ \A j \in 1..Len(t) : t[i].uuid = t[j].uuid => i = j
  BY <1>1, SentMessages
<1> HIDE DEF t
<1>5. /\ Len(messages') = n + Len(t) /\ n \in Nat /\ Len(t) \in Nat
      /\ \A i \in 1..Len(messages') :
             messages'[i] = IF i <= n THEN messages[i] ELSE t[i - n]
  BY <1>3, <1>4, ConcatProperties, LenProperties DEF TypeOK, MessageSet, t
<1> Kept' = Kept
  BY <1>1 DEF Kept, Overdue
<1>6. \A u \in Kept : Queued(u) = {}
  BY <1>1, NothingUnobeyed
<1>7. ASSUME NEW u \in Kept, NEW i \in Queued(u)'
      PROVE  i - n \in 1..Len(t) /\ messages'[i] = t[i - n] /\ i \in Nat
  <2>1. i \in 1..Len(messages') /\ messages'[i].uuid = u /\ messages'[i].status \in Commands
    BY <1>7 DEF Queued
  <2>2. ~(i <= n)
    <3> SUFFICES ASSUME i <= n PROVE FALSE
      OBVIOUS
    <3>1. i \in 1..n /\ messages'[i] = messages[i]
      BY <1>5, <2>1
    <3> QED
      BY <1>6, <2>1, <3>1 DEF Queued
  <2> QED
    BY <1>5, <2>1, <2>2
<1>8. ASSUME NEW u \in Kept, NEW i \in Queued(u)'
      PROVE  u \in todo[h] /\ messages'[i].status = c
  BY <1>4, <1>7, <1>8 DEF Queued
<1>9. /\ \A u \in todo[h] \cap Kept : Quiet(u) /\ records[u] \in Before(c)
      /\ todo[h] \subseteq req[h].uuids
  BY <1>1 DEF Selected, Kept
<1>10. AtOnePlace'
  <2>1. ASSUME NEW u \in Kept, NEW i \in Queued(u)', NEW j \in Queued(u)' PROVE i = j
    <3>1. t[i - n].uuid = t[j - n].uuid
      BY <1>7, <2>1 DEF Queued
    <3>2. i - n = j - n
      BY <1>4, <1>7, <2>1, <3>1
    <3> QED
      BY <1>5, <1>7, <2>1, <3>2
  <2>2. ASSUME NEW u \in Kept, Queued(u)' # {} PROVE slot'[u] = "none" /\ doing'[u] = "none"
    BY <1>1, <1>8, <1>9, <2>2 DEF Quiet
  <2>3. ASSUME NEW u \in Kept, slot'[u] # "none" PROVE doing'[u] = "none"
    BY <1>1, <2>3 DEF AtOnePlace
  <2> QED
    BY <2>1, <2>2, <2>3 DEF AtOnePlace
<1>11. Awaited'
  <2>1. ASSUME NEW u \in Kept, NEW d \in Commands, Unobeyed(u, d)' PROVE AwaitedFor(u, d)'
    <3>1. slot'[u] = "none"
      BY <1>1, NothingUnobeyed
    <3>2. PICK i \in Queued(u)' : messages'[i].status = d
      BY <2>1, <3>1, CommandsAssumption DEF Unobeyed
    <3>3. u \in todo[h] /\ d = c
      BY <1>8, <3>2
    <3> QED
      BY <1>1, <1>2, <1>9, <3>3 DEF AwaitedFor
  <2> QED
    BY <2>1 DEF Awaited
<1> QED
  BY <1>1, <1>2, <1>10, <1>11 DEF CommandKept, Selected, Shown

(* What the service does to one case.                                      *)
LEMMA ServiceKeeps ==
  ASSUME PauseAndResume, CommandInv, UNCHANGED handlerVars, Kept' \subseteq Kept,
         \A u \in Kept', c \in Commands :
             Unobeyed(u, c)' => Unobeyed(u, c) /\ records'[u] \in Before(c),
         \A u \in Kept', c \in Commands :
             Quiet(u) /\ records[u] \in Before(c) => Quiet(u)' /\ records'[u] \in Before(c)
  PROVE  Awaited' /\ Selected'
<1> USE DEF CommandInv
<1>1. UNCHANGED <<pc, req, todo>>
  BY DEF handlerVars
<1>2. ASSUME NEW u \in Kept', NEW c \in Commands, Unobeyed(u, c)' PROVE AwaitedFor(u, c)'
  BY <1>1, <1>2 DEF Awaited, AwaitedFor
<1>3. ASSUME NEW h \in Handlers, pc[h] = "send", NEW u \in todo[h], u \notin Overdue'
      PROVE  Quiet(u)' /\ records'[u] \in Before(req[h].status)
  <2>1. u \in Cases /\ req[h].status \in Commands
    BY <1>3 DEF PatchWithStatus, TypeOK
  <2>2. u \in Kept'
    BY <1>3, <2>1 DEF Kept
  <2>3. u \notin Overdue
    BY <2>2 DEF Kept
  <2>4. Quiet(u) /\ records[u] \in Before(req[h].status)
    BY <1>3, <2>3 DEF Selected
  <2> QED
    BY <2>1, <2>2, <2>4
<1>4. Selected'
  BY <1>1, <1>3 DEF Selected
<1> QED
  BY <1>2, <1>4 DEF Awaited

(* Taking a message leaves no command in two places.                       *)
LEMMA TakeKeeps ==
  ASSUME PauseAndResume, CommandInv, TakeMessage
  PROVE  CommandKept'
<1> USE DEF CommandInv
<1>1. /\ messages # <<>> /\ messages' = Tail(messages) /\ UNCHANGED handlerVars /\ doing' = doing
  BY DEF TakeMessage
<1>2. \A u : \A i \in Queued(u)' : /\ i \in Nat \ {0} /\ i + 1 \in Queued(u)
                                   /\ messages'[i] = messages[i + 1]
  BY <1>1, QueuedTail
<1>0. Kept' \subseteq Kept /\ Kept' \subseteq Cases
  BY KeptBefore DEF Service, Kept
<1>3. \A u \in Kept' : \A i, j \in Queued(u)' : i = j
  <2>1. ASSUME NEW u \in Kept', NEW i \in Queued(u)', NEW j \in Queued(u)' PROVE i = j
    <3>1. i + 1 = j + 1 /\ i \in Nat /\ j \in Nat
      BY <1>0, <1>2 DEF AtOnePlace
    <3> QED
      BY <3>1
  <2> QED
    BY <2>1
<1>4. CASE slot' = slot /\ UNCHANGED <<records, phases>>
  <2>1. \A u \in Cases : \A c : Unobeyed(u, c)' => Unobeyed(u, c)
    BY <1>2, <1>4 DEF Unobeyed
  <2>2. \A u \in Cases : Quiet(u) => Quiet(u)'
    BY <1>1, <1>2, <1>4 DEF Quiet
  <2>3. Awaited' /\ Selected'
    BY <1>0, <1>1, <1>4, <2>1, <2>2, ServiceKeeps DEF Awaited, AwaitedFor
  <2>4. AtOnePlace' /\ Shown'
    BY <1>0, <1>1, <1>2, <1>3, <1>4 DEF AtOnePlace, Shown
  <2> QED
    BY <2>3, <2>4 DEF CommandKept
<1>5. ASSUME NEW u \in Cases, phases[u] = "new", Begins(u), slot' = slot PROVE CommandKept'
  <2>1. /\ records'[u] = "STARTING" /\ phases'[u] = "serving" /\ records[u] = "INIT"
        /\ \A v \in Cases : v # u => records'[v] = records[v] /\ phases'[v] = phases[v]
        /\ doing[u] = "none"
    <3>1. u \in Kept
      BY <1>5 DEF Listed, Kept, Overdue
    <3> QED
      BY <1>5, <3>1, ServiceMoves DEF Begins, Case!Begin, Shown
  <2>2. \A c \in Commands : records[u] \notin Before(c)
    BY <2>1 DEF Before
  <2>3. \A v \in Kept', c \in Commands : Unobeyed(v, c)' => Unobeyed(v, c) /\ v # u
    BY <1>0, <1>2, <1>5, <2>2 DEF Unobeyed, Awaited, AwaitedFor
  <2>4. \A v \in Cases : Quiet(v) => Quiet(v)'
    BY <1>1, <1>2, <1>5 DEF Quiet
  <2>5. Awaited' /\ Selected'
    BY <1>0, <1>1, <2>1, <2>2, <2>3, <2>4, ServiceKeeps DEF Awaited, AwaitedFor
  <2>6. AtOnePlace'
    BY <1>0, <1>1, <1>2, <1>3, <1>5 DEF AtOnePlace
  <2>7. Shown'
    BY <1>0, <1>1, <2>1 DEF Shown
  <2> QED
    BY <2>5, <2>6, <2>7 DEF CommandKept
<1>6. ASSUME NEW u \in Cases, NEW c \in Commands, Head(messages) = Message(u, c),
             slot' = [slot EXCEPT ![u] = c], UNCHANGED <<records, phases, runner>>
      PROVE  CommandKept'
  <2>1. 1 \in Queued(u) /\ messages[1].status = c
    BY <1>1, <1>6, HeadQueued
  <2>2. u \in Kept => doing[u] = "none" /\ Queued(u)' = {}
    <3> SUFFICES ASSUME u \in Kept PROVE doing[u] = "none" /\ Queued(u)' = {}
      OBVIOUS
    <3>1. doing[u] = "none" /\ \A i \in Queued(u) : i = 1
      BY <2>1 DEF AtOnePlace
    <3> QED
      BY <1>2, <3>1
  <2>3. slot'[u] = c /\ \A v \in Cases : v # u => slot'[v] = slot[v]
    BY <1>6 DEF TypeOK
  <2>4. \A v \in Kept', d \in Commands : Unobeyed(v, d)' => Unobeyed(v, d)
    BY <1>0, <1>2, <2>1, <2>2, <2>3 DEF Unobeyed
  <2>5. \A v \in Cases : Quiet(v) => Quiet(v)'
    BY <1>1, <1>2, <2>1, <2>3 DEF Quiet
  <2>6. Awaited' /\ Selected'
    BY <1>0, <1>1, <1>6, <2>4, <2>5, ServiceKeeps DEF Awaited, AwaitedFor
  <2>7. AtOnePlace'
    BY <1>0, <1>1, <1>2, <1>3, <2>2, <2>3 DEF AtOnePlace
  <2>8. Shown'
    BY <1>0, <1>1, <1>6 DEF Shown
  <2> QED
    BY <2>6, <2>7, <2>8 DEF CommandKept
<1> QED
  BY <1>4, <1>5, <1>6 DEF TakeMessage

(* A command that is obeyed or done has left its other places.             *)
LEMMA ObeyKeeps ==
  ASSUME PauseAndResume, CommandInv, NEW u \in Cases, Obey(u) \/ Acknowledge(u)
  PROVE  CommandKept'
<1> USE DEF CommandInv
<1>1. messages' = messages /\ UNCHANGED handlerVars
  BY DEF Obey, Acknowledge
<1>2. \A v : Queued(v)' = Queued(v)
  BY <1>1 DEF Queued
<1>3. \A v \in Cases : v # u => /\ records'[v] = records[v] /\ phases'[v] = phases[v]
                                /\ slot'[v] = slot[v] /\ doing'[v] = doing[v]
  BY ServiceMoves DEF Obey, Obeys, Acknowledge, TypeOK
<1> Kept' = Kept /\ Kept \subseteq Cases
  BY DEF Obey, Acknowledge, Kept, Overdue
<1>4. /\ u \in Kept => Queued(u) = {} /\ slot'[u] = "none"
      /\ ~Quiet(u)
  BY DEF Obey, Acknowledge, AtOnePlace, TypeOK, Quiet
<1>5. \A v \in Kept, c \in Commands : Unobeyed(v, c)' => Unobeyed(v, c) /\ v # u
  BY <1>1, <1>2, <1>3, <1>4, CommandsAssumption DEF Unobeyed
<1>6. \A v \in Cases : Quiet(v) => Quiet(v)' /\ v # u
  BY <1>2, <1>3, <1>4 DEF Quiet
<1>7. Awaited' /\ Selected'
  BY <1>1, <1>3, <1>5, <1>6, ServiceKeeps DEF Awaited, AwaitedFor
<1>8. AtOnePlace'
  BY <1>2, <1>3, <1>4 DEF AtOnePlace
<1>9. Shown'
  <2>0. CASE u \notin Kept
    BY <1>3, <2>0 DEF Shown
  <2>1. CASE u \in Kept /\ Obey(u)
    <3>1. /\ slot[u] \in {"pause", "resume"} /\ doing'[u] = slot[u]
          /\ records'[u] = Target(slot[u])[1] /\ phases[u] = "serving" /\ phases'[u] = "serving"
      BY <2>1 DEF Obey, Obeys, Case!Obey, TypeOK, PauseAndResume
    <3>2. /\ slot[u] = "pause" => records'[u] = "PAUSING"
          /\ slot[u] = "resume" => records'[u] = "STARTING"
      BY <3>1, Targets
    <3> QED
      BY <1>3, <3>1, <3>2 DEF Shown
  <2>2. CASE u \in Kept /\ Acknowledge(u)
    <3>0. doing[u] # "none" /\ phases[u] = "serving"
      BY <2>2 DEF Acknowledge, Shown
    <3>1. /\ doing[u] \in {"pause", "resume"} /\ doing'[u] = "none" /\ phases' = phases
          /\ records'[u] = Target(doing[u])[2] /\ phases[u] = "serving"
      BY <2>2, <3>0 DEF Acknowledge, TypeOK, PauseAndResume
    <3>2. records'[u] \in {"PAUSED", "STARTED"}
      BY <3>1, Targets
    <3> QED
      BY <1>3, <3>1, <3>2 DEF Shown
  <2> QED
    BY <2>0, <2>1, <2>2
<1> QED
  BY <1>7, <1>8, <1>9 DEF CommandKept

(* Undisturbed, a paused case stays paused until it is resumed or ends.    *)
LEMMA GoOnKeeps ==
  ASSUME PauseAndResume, ~Disturbed, CommandInv, NEW u \in Cases, GoOn(u)
  PROVE  CommandKept'
<1> USE DEF CommandInv
<1>1. messages' = messages /\ UNCHANGED handlerVars /\ doing' = doing /\ doing[u] = "none"
  BY DEF GoOn
<1>2. \A v : Queued(v)' = Queued(v)
  BY <1>1 DEF Queued
<1>3. \A v \in Cases : v # u => /\ records'[v] = records[v] /\ phases'[v] = phases[v]
                                /\ slot'[v] = slot[v]
  BY ServiceMoves DEF GoOn, GoesOn, TypeOK
<1>4. slot'[u] \in {slot[u], "none"}
  BY DEF GoOn, TypeOK
<1> Kept' = Kept /\ Kept \subseteq Cases
  BY DEF GoOn, Kept, Overdue
<1>5. \A c \in Commands : u \in Kept /\ records[u] \in Before(c) => records'[u] \in Before(c)
  <2>1. CASE (records[u] # "PAUSED" \/ Disturbed) /\ Case(u)!SeePod
    BY <2>1 DEF Case!SeePod, Before, Shown, PauseAndResume
  <2>2. CASE Case(u)!Stop \/ Case(u)!Deliver
    BY <2>2 DEF Case!Stop, Case!Deliver, Before
  <2>3. CASE Case(u)!Fail
    BY <2>3 DEF Case!Fail, Before
  <2>4. u \in Kept => ~EndsRegardless(u)
    BY DEF EndsRegardless, Kept
  <2> QED
    BY <2>1, <2>2, <2>3, <2>4 DEF GoOn, GoesOn
<1>6. \A v \in Cases, c \in Commands : Unobeyed(v, c)' => Unobeyed(v, c)
  BY <1>1, <1>2, <1>3, <1>4, CommandsAssumption DEF Unobeyed
<1>7. \A v \in Cases : Quiet(v) => Quiet(v)'
  BY <1>1, <1>2, <1>3, <1>4 DEF Quiet
<1>8. Awaited' /\ Selected'
  BY <1>1, <1>3, <1>5, <1>6, <1>7, ServiceKeeps DEF Awaited, AwaitedFor
<1>9. AtOnePlace'
  BY <1>1, <1>2, <1>3, <1>4 DEF AtOnePlace
<1>10. /\ phases'[u] # "new"
       /\ phases'[u] = "serving" => records'[u] \in {"STARTED", "PENDING"}
  BY DEF GoOn, GoesOn, EndsRegardless, Case!SeePod, Case!Stop, Case!Deliver, Case!Fail
<1>11. Shown'
  BY <1>1, <1>3, <1>10 DEF Shown
<1> QED
  BY <1>8, <1>9, <1>11 DEF CommandKept

LEMMA MonitorKeeps ==
  ASSUME PauseAndResume, CommandInv, NEW u \in Cases,
         MonitorCancels(u) \/ MonitorEnds(u) \/ MonitorRemoves(u)
  PROVE  CommandKept'
<1> USE DEF CommandInv
<1>1. /\ UNCHANGED <<handlerVars, phases, slot, doing, messages>>
      /\ \A v \in Kept' : records'[v] = records[v]
  BY MonitorAside
<1>2. Kept' \subseteq Kept
  BY KeptBefore DEF Service, Existing, MonitorCancels, MonitorEnds, MonitorRemoves, Listed
<1>3. \A v : Queued(v)' = Queued(v)
  BY <1>1 DEF Queued
<1>4. \A v \in Kept', c \in Commands : Unobeyed(v, c)' => Unobeyed(v, c) /\ records'[v] \in Before(c)
  BY <1>1, <1>2, <1>3 DEF Unobeyed, Awaited, AwaitedFor
<1>5. \A v : Quiet(v) => Quiet(v)'
  BY <1>1, <1>3 DEF Quiet
<1>6. Awaited' /\ Selected'
  BY <1>1, <1>2, <1>4, <1>5, ServiceKeeps
<1>7. AtOnePlace' /\ Shown'
  BY <1>1, <1>2, <1>3 DEF AtOnePlace, Shown
<1> QED
  BY <1>6, <1>7 DEF CommandKept

LEMMA RestartKeeps ==
  ASSUME Restart
  PROVE  CommandKept'
<1>1. messages' = <<>> /\ \A u \in Cases : slot'[u] = "none" /\ doing'[u] = "none"
  BY DEF Restart
<1>2. \A u : Queued(u)' = {}
  BY <1>1 DEF Queued
<1>3. \A u \in Cases, c \in Commands : ~Unobeyed(u, c)'
  BY <1>1, <1>2, CommandsAssumption DEF Unobeyed
<1> QED
  BY <1>1, <1>2, <1>3 DEF Restart, CommandKept, AtOnePlace, Awaited, Selected, Shown, Kept

LEMMA StepCommand ==
  ASSUME PauseAndResume, ~Disturbed, CommandInv, [Next]_vars
  PROVE  CommandKept'
<1>1. CASE UNCHANGED vars
  <2>1. UNCHANGED <<messages, slot, doing, records, phases, runner, pc, req, todo>>
    BY <1>1 DEF vars, handlerVars, serviceVars
  <2> QED
    BY <2>1, RequestKeeps, SelectedKept DEF CommandKept
<1>2. ASSUME NEW h \in Handlers, Receive(h) \/ Handler(h) PROVE CommandKept'
  BY <1>2, ReceiveKeeps, SaveKeeps, PutKeeps, SelectKeeps, SendKeeps, AwaitKeeps DEF Handler
<1>3. CASE Service
  BY <1>3, TakeKeeps, ObeyKeeps, GoOnKeeps, MonitorKeeps DEF Service, Existing
<1>4. CASE Restart
  BY <1>4, RestartKeeps
<1> QED
  BY <1>1, <1>2, <1>3, <1>4 DEF Next

(* While commands are obeyed within POST_TIMEOUT, a case has one at a      *)
(* time: the lock is held until the records of all the asked cases show    *)
(* the command, and a command for a case with another one is refused; but  *)
(* for the cases that the monitor has found to be overdue.                 *)
THEOREM OneCommand == PauseAndResume /\ ~Disturbed => (Spec => []OneCommandAtATime)
<1> SUFFICES ASSUME PauseAndResume, ~Disturbed PROVE Spec => []OneCommandAtATime
  OBVIOUS
<1>1. Init => CommandInv
  <2> SUFFICES ASSUME Init PROVE CommandInv
    OBVIOUS
  <2>1. \A u : Queued(u) = {}
    BY DEF Init, Queued
  <2>2. \A u \in Cases, c \in Commands : ~Unobeyed(u, c)
    BY <2>1, CommandsAssumption DEF Init, Unobeyed
  <2> QED
    BY <2>1, <2>2, InitTyped
       DEF Init, CommandInv, PatchWithStatus, Locked, InLock, Listed, Kept, AtOnePlace,
           Awaited, Selected, Shown
<1>2. CommandInv /\ [Next]_vars => CommandInv'
  BY StepTyped, StepPatch, StepLocked, StepListed, StepCommand DEF CommandInv, CommandKept
<1>3. CommandInv => OneCommandAtATime
  BY PendingCounts DEF CommandInv, OneCommandAtATime, Kept
<1> QED
  BY <1>1, <1>2, <1>3, PTL DEF Spec

-----------------------------------------------------------------------------
(* Every status a request is sent with is one the service knows, and every *)
(* message has a case and a command, whatever clients ask for.             *)
THEOREM TypeCorrect == Spec => []TypeOK
<1>1. Init => TypeOK /\ PatchWithStatus
  BY InitTyped DEF Init, PatchWithStatus
<1>2. TypeOK /\ PatchWithStatus /\ [Next]_vars => (TypeOK /\ PatchWithStatus)'
  BY StepTyped, StepPatch
<1> QED
  BY <1>1, <1>2, PTL DEF Spec

-----------------------------------------------------------------------------
(* The lock                                                                *)

(* Only a thread inside has the lock: what it leaves with gives it back.   *)
LEMMA StepNotLeaked ==
  ASSUME TypeOK, PatchWithStatus, LockHeldInside, [Next]_vars
  PROVE  LockHeldInside'
<1> USE HandlersAssumption DEF Goto, Answer, LeaveWith, LockHeldInside, InLock
<1>1. CASE UNCHANGED vars \/ Service
  BY <1>1, ServiceAlone DEF vars, handlerVars
<1>2. ASSUME NEW h \in Handlers, Receive(h) PROVE LockHeldInside'
  <2>1. pc[h] = "idle" /\ lock' = lock
        /\ \E p \in {"idle", "all", "acquire"} : pc' = [pc EXCEPT ![h] = p]
    BY <1>2 DEF Receive, Begun
  <2> QED
    BY <2>1 DEF TypeOK
<1>3. ASSUME NEW h \in Handlers, Acquire(h) PROVE LockHeldInside'
  <2>1. req[h].op \in {"POST", "PATCH", "DELETE"}
    BY DEF TypeOK
  <2> QED
    BY <1>3, <2>1 DEF Acquire, TypeOK
<1>4. ASSUME NEW h \in Handlers, Count(h) \/ Save(h) \/ Put(h) PROVE LockHeldInside'
  BY <1>4 DEF Count, Save, Put, TypeOK
<1>5. ASSUME NEW h \in Handlers, SelectCases(h) PROVE LockHeldInside'
  <2>1. /\ pc[h] = "PATCH"
        /\ \/ pc' = [pc EXCEPT ![h] = "send"] /\ lock' = lock
           \/ pc' = [pc EXCEPT ![h] = "idle"] /\ lock' = "free"
    BY <1>5 DEF SelectCases
  <2> QED
    BY <2>1 DEF TypeOK
<1>6. ASSUME NEW h \in Handlers, SendMessages(h) \/ Await(h) \/ UpdateAll(h) \/ Delete(h)
      PROVE  LockHeldInside'
  <2>1. \/ pc[h] = "send" /\ pc' = [pc EXCEPT ![h] = "await"] /\ lock' = lock
        \/ pc[h] \in {"await", "DELETE"} /\ pc' = [pc EXCEPT ![h] = "idle"] /\ lock' = "free"
        \/ pc[h] = "all" /\ pc' = [pc EXCEPT ![h] = "idle"] /\ lock' = lock
    BY <1>6 DEF SendMessages, Await, UpdateAll, Delete
  <2> QED
    BY <2>1 DEF TypeOK
<1>7. CASE Restart
  BY <1>7 DEF Restart
<1> QED
  BY <1>1, <1>2, <1>3, <1>4, <1>5, <1>6, <1>7 DEF Next, Handler

(* Between any two statements of any number of threads, with every defect, *)
(* late answers and restarts, the lock is where the threads say it is.     *)
THEOREM LockIsReturned == Spec => []LockHeldInside
<1>1. Init => TypeOK /\ PatchWithStatus /\ LockHeldInside
  BY InitTyped, HandlersAssumption DEF Init, PatchWithStatus, LockHeldInside, InLock
<1>2. TypeOK /\ PatchWithStatus /\ LockHeldInside /\ [Next]_vars =>
          (TypeOK /\ PatchWithStatus /\ LockHeldInside)'
  BY StepTyped, StepPatch, StepNotLeaked
<1> QED
  BY <1>1, <1>2, PTL DEF Spec

=============================================================================
