------------------------- MODULE ManagerQueueProofs -------------------------
(***************************************************************************)
(* Proofs about the manager's list of Runners, for any number of cases and *)
(* commands: wherever the message loop and the monitor are in the list, no *)
(* Runner is in it twice, none that runs is out of it but those cancelled  *)
(* and those met between append and start, and a search misses its Runner  *)
(* only if the list shrank under it.                                       *)
(***************************************************************************)
EXTENDS ManagerQueue, SequenceTheorems, TLAPS

(* No element of s is in it twice.                                         *)
Distinct(s) == \A i, j \in 1..Len(s) : s[i] = s[j] => i = j

(* A case is created once: the message that asks for it is in the queue    *)
(* once, and nothing else has been done for it.                            *)
AskedOnce ==
    /\ \A i \in 1..Len(messages) :
           messages[i].status = "create" => thread[messages[i].uuid] = "asked"
    /\ \A i, j \in 1..Len(messages) :
           /\ messages[i].status = "create" /\ messages[j].status = "create"
           /\ messages[i].uuid = messages[j].uuid
           => i = j

(* While insert has not started a Runner, no other message asks for it.    *)
Inserting ==
    loop \in {"insert", "start"} =>
        /\ thread[msg.uuid] = "asked"
        /\ \A i \in 1..Len(messages) :
               messages[i].status = "create" => messages[i].uuid # msg.uuid

(* The list holds Runners that were started, or the one about to be, and   *)
(* none twice.                                                             *)
Listed ==
    /\ Distinct(queue)
    /\ \A i \in 1..Len(queue) :
           \/ thread[queue[i]] \in {"alive", "dead"}
           \/ loop = "start" /\ queue[i] = msg.uuid

(* The Runner that insert is about to start is in the list, unless the     *)
(* monitor has met it there.                                               *)
Starting == loop = "start" => Contains(queue, msg.uuid) \/ msg.uuid \in early

(* The monitor cancels only what has been started.                         *)
CancelledRan ==
    /\ \A u \in cancelled : thread[u] \in {"alive", "dead"}
    /\ mon = "cancel" => thread[r] \in {"alive", "dead"}

(* The monitor takes off only what has ended, what it has cancelled, and   *)
(* what it met too early.                                                  *)
Leaving ==
    mon \in {"remove_env", "remove"} => thread[r] = "dead" \/ r \in cancelled \cup early

QueueInv ==
    /\ TypeOK /\ AskedOnce /\ Inserting /\ Listed /\ Starting
    /\ CancelledRan /\ Leaving /\ OnlyOverLeave

(* Where the search has been, the Runner is not, unless the list shrank.   *)
Searched ==
    loop = "find" /\ ~shrunk => \A i \in 1..Len(queue) : i < at => queue[i] # msg.uuid

-----------------------------------------------------------------------------
(* list.remove, on a list that holds everything once: what follows moves   *)
(* up by one.                                                              *)
LEMMA RemoveAtPosition ==
  ASSUME NEW S, NEW s \in Seq(S), NEW k \in 1..Len(s)
  PROVE  /\ RemoveAt(s, k) \in Seq(S)
         /\ Len(RemoveAt(s, k)) = Len(s) - 1
         /\ \A i \in 1..Len(s) - 1 :
                RemoveAt(s, k)[i] = IF i < k THEN s[i] ELSE s[i + 1]
<1> DEFINE a == SubSeq(s, 1, k - 1)
           b == SubSeq(s, k + 1, Len(s))
<1>1. a \in Seq(S) /\ Len(a) = k - 1 /\ \A i \in 1..k - 1 : a[i] = s[i]
  BY SMTT(30)
<1>2. b \in Seq(S) /\ Len(b) = Len(s) - k /\ \A i \in 1..Len(s) - k : b[i] = s[i + k]
  BY SMTT(30)
<1>3. RemoveAt(s, k) = a \o b
  BY DEF RemoveAt
<1> HIDE DEF a, b
<1>4. /\ a \o b \in Seq(S) /\ Len(a \o b) = Len(a) + Len(b)
      /\ \A i \in 1..Len(a) + Len(b) :
             (a \o b)[i] = IF i <= Len(a) THEN a[i] ELSE b[i - Len(a)]
  BY <1>1, <1>2, ConcatProperties, Zenon
<1>5. Len(s) \in Nat
  OBVIOUS
<1>6. Len(a \o b) = Len(s) - 1
  BY <1>1, <1>2, <1>4, <1>5
<1>7. ASSUME NEW i \in 1..Len(s) - 1
      PROVE  (a \o b)[i] = IF i < k THEN s[i] ELSE s[i + 1]
  <2>1. i \in 1..Len(a) + Len(b)
    BY <1>1, <1>2, <1>5
  <2>2. CASE i < k
    <3>1. i <= Len(a) /\ i \in 1..k - 1
      BY <1>1, <1>5, <2>2
    <3> QED
      BY <1>1, <1>4, <2>1, <2>2, <3>1
  <2>3. CASE ~(i < k)
    <3>1. ~(i <= Len(a)) /\ i - Len(a) \in 1..Len(s) - k /\ (i - Len(a)) + k = i + 1
      BY <1>1, <1>5, <2>3
    <3>2. (a \o b)[i] = b[i - Len(a)]
      BY <1>4, <2>1, <3>1
    <3>3. b[i - Len(a)] = s[(i - Len(a)) + k]
      BY <1>2, <3>1
    <3> QED
      BY <2>3, <3>1, <3>2, <3>3
  <2> QED
    BY <2>2, <2>3
<1> QED
  BY <1>3, <1>4, <1>6, <1>7

(* What list.remove leaves of such a list: everything else, once.          *)
LEMMA WithoutIsTheRest ==
  ASSUME NEW S, NEW s \in Seq(S), Distinct(s), NEW e
  PROVE  /\ Without(s, e) \in Seq(S)
         /\ Distinct(Without(s, e))
         /\ \A x : Contains(Without(s, e), x) <=> Contains(s, x) /\ x # e
<1>1. CASE ~\E i \in 1..Len(s) : s[i] = e
  <2>1. Without(s, e) = s
    BY <1>1 DEF Without, RemoveFirst
  <2> QED
    BY <1>1, <2>1 DEF Contains
<1>2. CASE \E i \in 1..Len(s) : s[i] = e
  <2>1. PICK k \in 1..Len(s) : s[k] = e
    BY <1>2
  <2>2. {i \in 1..Len(s) : s[i] = e} = {k}
    BY <2>1 DEF Distinct
  <2>3. Min({k}) = k
    BY DEF Min
  <2>4. SelectInSeq(s, LAMBDA v : v = e) = k
    BY <2>2, <2>3 DEF SelectInSeq
  <2> DEFINE t == RemoveAt(s, k)
  <2>5. Without(s, e) = t
    BY <1>2, <2>4 DEF Without, RemoveFirst
  <2>6. /\ t \in Seq(S) /\ Len(t) = Len(s) - 1
        /\ \A i \in 1..Len(s) - 1 : t[i] = IF i < k THEN s[i] ELSE s[i + 1]
    BY RemoveAtPosition
  <2>7. Len(s) \in Nat
    OBVIOUS
  <2> HIDE DEF t
  <2>8. Distinct(t)
    <3> SUFFICES ASSUME NEW i \in 1..Len(t), NEW j \in 1..Len(t), t[i] = t[j] PROVE i = j
      BY DEF Distinct
    <3> DEFINE up(n) == IF n < k THEN n ELSE n + 1
    <3>1. up(i) \in 1..Len(s) /\ up(j) \in 1..Len(s)
      BY <2>6, <2>7
    <3>2. s[up(i)] = s[up(j)]
      BY <2>6
    <3>3. up(i) = up(j)
      BY <3>1, <3>2 DEF Distinct
    <3> QED
      BY <3>3, <2>6, <2>7
  <2>9. ASSUME NEW x, Contains(t, x) PROVE Contains(s, x) /\ x # e
    <3>1. PICK i \in 1..Len(t) : t[i] = x
      BY <2>9 DEF Contains
    <3> DEFINE j == IF i < k THEN i ELSE i + 1
    <3>2. j \in 1..Len(s) /\ j # k /\ s[j] = x
      BY <3>1, <2>6, <2>7
    <3> QED
      BY <3>2, <2>1 DEF Contains, Distinct
  <2>10. ASSUME NEW x, Contains(s, x), x # e PROVE Contains(t, x)
    <3>1. PICK j \in 1..Len(s) : s[j] = x
      BY <2>10 DEF Contains
    <3>2. j # k
      BY <3>1, <2>1, <2>10
    <3> DEFINE i == IF j < k THEN j ELSE j - 1
    <3>3. i \in 1..Len(t) /\ t[i] = x
      BY <3>1, <3>2, <2>6, <2>7
    <3> QED
      BY <3>3 DEF Contains
  <2> QED
    BY <2>5, <2>6, <2>8, <2>9, <2>10
<1> QED
  BY <1>1, <1>2

-----------------------------------------------------------------------------
LEMMA InitQueueInv == Init => QueueInv
<1> SUFFICES ASSUME Init PROVE QueueInv
  OBVIOUS
<1>1. TypeOK
  <2>1. messages \in Seq(Message) /\ queue \in Seq(Cases)
    BY EmptySeq DEF Init
  <2>2. /\ thread \in [Cases -> {"none", "asked", "alive", "dead"}]
        /\ hash \in [Cases -> {"answered", "silent", "missing"}]
    BY DEF Init
  <2>3. sent \in Nat /\ at \in Nat \ {0} /\ pos \in Nat \ {0}
    BY DEF Init
  <2>4. shrunk \in BOOLEAN
    BY Zenon DEF Init
  <2> QED
    BY <2>1, <2>2, <2>3, <2>4 DEF Init, TypeOK
<1>2. AskedOnce /\ Listed
  BY DEF Init, AskedOnce, Listed, Distinct
<1>3. Inserting /\ Starting /\ CancelledRan /\ Leaving /\ OnlyOverLeave
  BY DEF Init, Inserting, Starting, CancelledRan, Leaving, OnlyOverLeave
<1> QED
  BY <1>1, <1>2, <1>3 DEF QueueInv

LEMMA MessageTyped ==
  ASSUME TypeOK, NEW i \in 1..Len(messages)
  PROVE  messages[i].uuid \in Cases
<1>1. messages[i] \in Message
  BY ElementOfSeq, Zenon DEF TypeOK
<1> QED
  BY <1>1 DEF Message

LEMMA StepTyped == TypeOK /\ Listed /\ [Next]_vars => TypeOK'
<1> SUFFICES ASSUME TypeOK, Listed, [Next]_vars PROVE TypeOK'
  OBVIOUS
<1> USE DEF TypeOK, loopVars, monVars, caseVars
<1>1. CASE UNCHANGED vars
  BY <1>1 DEF vars
<1>2. ASSUME NEW u \in Cases, Create(u) PROVE TypeOK'
  BY <1>2 DEF Create, Message
<1>3. ASSUME NEW u \in Cases, Command(u) PROVE TypeOK'
  BY <1>3 DEF Command, Message
<1>4. ASSUME NEW u \in Cases, Ends(u) \/ Ages(u) \/ Deafens(u) \/ Forget(u) PROVE TypeOK'
  BY <1>4 DEF Ends, Ages, Deafens, Forget
<1>5. CASE Get
  BY <1>5 DEF Get
<1>6. CASE Insert \/ Start
  <2>1. msg \in Message /\ msg.uuid \in Cases
    BY <1>6 DEF Insert, Start, Message
  <2>2. CASE Insert
    BY <2>1, <2>2 DEF Insert
  <2>3. CASE Start
    BY <2>1, <2>3 DEF Start
  <2> QED
    BY <1>6, <2>2, <2>3
<1>7. CASE Find \/ NotFound
  <2>1. EndSearch \/ GoOn
    BY <1>7 DEF Find, NotFound
  <2>2. at' \in Nat \ {0}
    BY <2>1 DEF EndSearch, GoOn
  <2>3. /\ shrunk' \in BOOLEAN /\ loop' \in {"get", "find"}
        /\ loop' # "get" => msg' \in Message
    BY <1>7, <2>1 DEF Find, NotFound, EndSearch, GoOn
  <2> QED
    BY <1>7, <2>2, <2>3 DEF Find, NotFound
<1>8. CASE Look
  BY <1>8 DEF Look
<1>9. CASE Rescan \/ Cancel \/ RemoveEnv \/ NoHash \/ Raise
  BY <1>9 DEF Rescan, Cancel, RemoveEnv, NoHash, Raise, GiveUp
<1>10. CASE TakeOff
  <2>1. queue' \in Seq(Cases)
    BY <1>10, WithoutIsTheRest DEF TakeOff, Listed
  <2> QED
    BY <1>10, <2>1 DEF TakeOff
<1> QED
  BY <1>1, <1>2, <1>3, <1>4, <1>5, <1>6, <1>7, <1>8, <1>9, <1>10
     DEF Next, MessageLoop, Monitor

(* A case is asked for when nothing has been asked for it.                 *)
LEMMA StepAsked == QueueInv /\ [Next]_vars => AskedOnce' /\ Inserting'
<1> SUFFICES ASSUME QueueInv, [Next]_vars PROVE AskedOnce' /\ Inserting'
  OBVIOUS
<1> USE DEF QueueInv, TypeOK, Message, loopVars, monVars, caseVars
<1>1. CASE UNCHANGED vars
  BY <1>1 DEF vars, AskedOnce, Inserting
<1>2. ASSUME NEW u \in Cases, Create(u) PROVE AskedOnce' /\ Inserting'
  <2> DEFINE m == [uuid |-> u, status |-> "create"]
  <2>0. messages' = Append(messages, m) /\ messages \in Seq(Message) /\ m \in Message
    BY <1>2 DEF Create
  <2>1. /\ Len(messages') = Len(messages) + 1 /\ Len(messages) \in Nat
        /\ \A i \in 1..Len(messages) : messages'[i] = messages[i]
        /\ messages'[Len(messages) + 1].uuid = u
    <3>1. m.uuid = u
      OBVIOUS
    <3> HIDE DEF m
    <3> QED
      BY <2>0, <3>1
  <2>2. /\ thread[u] = "none" /\ thread'[u] = "asked"
        /\ \A v \in Cases : v # u => thread'[v] = thread[v]
        /\ UNCHANGED <<loop, msg>>
    BY <1>2 DEF Create
  <2>3. \A i \in 1..Len(messages) : messages[i].status = "create" => messages[i].uuid # u
    BY <2>2 DEF AskedOnce
  <2>4. \A i \in 1..Len(messages') : i \in 1..Len(messages) \/ i = Len(messages) + 1
    BY <2>1
  <2>5. ASSUME NEW i \in 1..Len(messages'), messages'[i].status = "create"
        PROVE  thread'[messages'[i].uuid] = "asked"
    BY <2>1, <2>2, <2>3, <2>4, <2>5, MessageTyped DEF AskedOnce
  <2>6. ASSUME NEW i \in 1..Len(messages'), NEW j \in 1..Len(messages'),
               messages'[i].status = "create", messages'[j].status = "create",
               messages'[i].uuid = messages'[j].uuid
        PROVE  i = j
    BY <2>1, <2>3, <2>4, <2>6 DEF AskedOnce
  <2>7. loop \in {"insert", "start"} => msg.uuid \in Cases /\ msg.uuid # u
    BY <2>2 DEF Inserting
  <2>8. Inserting'
    BY <2>1, <2>2, <2>4, <2>7 DEF Inserting
  <2> QED
    BY <2>5, <2>6, <2>8 DEF AskedOnce
<1>3. ASSUME NEW u \in Cases, Command(u) PROVE AskedOnce' /\ Inserting'
  BY <1>3 DEF Command, AskedOnce, Inserting
<1>4. ASSUME NEW u \in Cases, Ends(u) \/ Ages(u) \/ Deafens(u) \/ Forget(u)
      PROVE  AskedOnce' /\ Inserting'
  <2>1. /\ UNCHANGED <<messages, loop, msg>>
        /\ \/ thread' = thread
           \/ thread[u] = "alive" /\ thread' = [thread EXCEPT ![u] = "dead"]
    BY <1>4 DEF Ends, Ages, Deafens, Forget
  <2>2. \A v \in Cases : thread[v] = "asked" => thread'[v] = "asked"
    BY <2>1
  <2>3. \A i \in 1..Len(messages) : messages[i].uuid \in Cases
    BY MessageTyped
  <2>4. AskedOnce'
    BY <2>1, <2>2, <2>3 DEF AskedOnce
  <2>5. Inserting'
    BY <2>1, <2>2 DEF Inserting
  <2> QED
    BY <2>4, <2>5
<1>5. CASE Get
  BY <1>5 DEF Get, AskedOnce, Inserting
<1>6. CASE Insert
  BY <1>6 DEF Insert, AskedOnce, Inserting
<1>7. CASE Start
  <2>1. UNCHANGED messages /\ loop' = "get"
        /\ thread' = [thread EXCEPT ![msg.uuid] = "alive"]
    BY <1>7 DEF Start
  <2>2. \A i \in 1..Len(messages) :
            messages[i].status = "create" => thread'[messages[i].uuid] = "asked"
    BY <1>7, <2>1, MessageTyped DEF Start, AskedOnce, Inserting
  <2> QED
    BY <2>1, <2>2 DEF AskedOnce, Inserting
<1>8. CASE Find \/ NotFound
  BY <1>8 DEF Find, NotFound, EndSearch, GoOn, AskedOnce, Inserting
<1>9. CASE Look \/ Rescan \/ Cancel \/ RemoveEnv \/ NoHash \/ Raise \/ TakeOff
  BY <1>9 DEF Look, Rescan, Cancel, RemoveEnv, NoHash, Raise, GiveUp, TakeOff, AskedOnce, Inserting
<1> QED
  BY <1>1, <1>2, <1>3, <1>4, <1>5, <1>6, <1>7, <1>8, <1>9 DEF Next, MessageLoop, Monitor

(* What is appended is not in the list yet: it has only been asked for.    *)
LEMMA StepListed == QueueInv /\ [Next]_vars => Listed'
<1> SUFFICES ASSUME QueueInv, [Next]_vars PROVE Listed'
  OBVIOUS
<1> USE DEF QueueInv, TypeOK, Listed, Distinct, loopVars, monVars, caseVars
<1>1. CASE UNCHANGED vars
  BY <1>1 DEF vars
<1>2. ASSUME NEW u \in Cases,
             Create(u) \/ Command(u) \/ Ends(u) \/ Ages(u) \/ Deafens(u) \/ Forget(u)
      PROVE  Listed'
  BY <1>2 DEF Create, Command, Ends, Ages, Deafens, Forget
<1>3. CASE Insert
  <2>1. queue' = Append(queue, msg.uuid) /\ msg.uuid \in Cases /\ loop' = "start"
        /\ UNCHANGED <<thread, msg>>
    BY <1>3 DEF Insert, Message
  <2>2. \A i \in 1..Len(queue) : queue[i] # msg.uuid
    BY <1>3 DEF Insert, Inserting
  <2>3. /\ Len(queue') = Len(queue) + 1 /\ Len(queue) \in Nat
        /\ queue'[Len(queue) + 1] = msg.uuid
        /\ \A i \in 1..Len(queue) : queue'[i] = queue[i]
    BY <2>1
  <2>4. \A i \in 1..Len(queue') : i \in 1..Len(queue) \/ i = Len(queue) + 1
    BY <2>3
  <2>5. Distinct(queue')
    BY <2>2, <2>3, <2>4
  <2>6. \A i \in 1..Len(queue) : thread[queue[i]] \in {"alive", "dead"}
    BY <1>3 DEF Insert
  <2> QED
    BY <2>1, <2>3, <2>4, <2>5, <2>6
<1>4. CASE Start
  <2>1. /\ UNCHANGED queue /\ thread' = [thread EXCEPT ![msg.uuid] = "alive"]
        /\ msg.uuid \in Cases
    BY <1>4 DEF Start, Message
  <2> QED
    BY <2>1
<1>5. CASE Get \/ Find \/ NotFound
  BY <1>5 DEF Get, Find, NotFound, EndSearch, GoOn
<1>6. CASE Look \/ Rescan \/ Cancel \/ RemoveEnv \/ NoHash \/ Raise
  BY <1>6 DEF Look, Rescan, Cancel, RemoveEnv, NoHash, Raise, GiveUp
<1>7. CASE TakeOff
  <2>1. Distinct(queue') /\ \A x : Contains(queue', x) => Contains(queue, x)
    BY <1>7, WithoutIsTheRest DEF TakeOff
  <2> QED
    BY <1>7, <2>1 DEF TakeOff, Contains
<1> QED
  BY <1>1, <1>2, <1>3, <1>4, <1>5, <1>6, <1>7 DEF Next, MessageLoop, Monitor

(* Between append and start only the monitor can take the Runner off, and  *)
(* it does so only after it has met it.                                    *)
LEMMA StepStarting == QueueInv /\ [Next]_vars => Starting'
<1> SUFFICES ASSUME QueueInv, [Next]_vars PROVE Starting'
  OBVIOUS
<1> USE DEF QueueInv, TypeOK, Starting, loopVars, monVars, caseVars
<1>1. CASE UNCHANGED vars
  BY <1>1 DEF vars
<1>2. ASSUME NEW u \in Cases,
             Create(u) \/ Command(u) \/ Ends(u) \/ Ages(u) \/ Deafens(u) \/ Forget(u)
      PROVE  Starting'
  BY <1>2 DEF Create, Command, Ends, Ages, Deafens, Forget
<1>3. CASE Insert
  <2>1. queue' = Append(queue, msg.uuid) /\ msg.uuid \in Cases /\ msg' = msg
    BY <1>3 DEF Insert, Message
  <2>2. Contains(queue', msg.uuid)
    BY <2>1 DEF Contains
  <2> QED
    BY <2>1, <2>2
<1>4. CASE Get \/ Start \/ Find \/ NotFound
  BY <1>4 DEF Get, Start, Find, NotFound, EndSearch, GoOn
<1>5. CASE Look \/ Rescan \/ Cancel \/ RemoveEnv \/ NoHash \/ Raise
  BY <1>5 DEF Look, Rescan, Cancel, RemoveEnv, NoHash, Raise, GiveUp
<1>6. CASE TakeOff
  <2>1. \A x : Contains(queue', x) <=> Contains(queue, x) /\ x # r
    BY <1>6, WithoutIsTheRest DEF TakeOff, Listed
  <2>2. thread[r] = "dead" \/ r \in cancelled \cup early
    BY <1>6 DEF TakeOff, Leaving
  <2>3. loop = "start" => thread[msg.uuid] = "asked"
    BY DEF Inserting
  <2>4. CASE loop = "start" /\ msg.uuid = r
    <3>1. r \in early
      BY <2>2, <2>3, <2>4 DEF CancelledRan
    <3> QED
      BY <1>6, <2>4, <3>1 DEF TakeOff
  <2> QED
    BY <1>6, <2>1, <2>4 DEF TakeOff
<1> QED
  BY <1>1, <1>2, <1>3, <1>4, <1>5, <1>6 DEF Next, MessageLoop, Monitor

(* A thread that is dead stays so, and the monitor looks before it goes on *)
(* to remove.                                                              *)
LEMMA StepLeaving == QueueInv /\ [Next]_vars => Leaving' /\ CancelledRan'
<1> SUFFICES ASSUME QueueInv, [Next]_vars PROVE Leaving' /\ CancelledRan'
  OBVIOUS
<1> USE DEF QueueInv, TypeOK, Leaving, CancelledRan, loopVars, monVars, caseVars
<1>1. CASE UNCHANGED vars
  BY <1>1 DEF vars
<1>2. ASSUME NEW u \in Cases,
             Create(u) \/ Command(u) \/ Ends(u) \/ Ages(u) \/ Deafens(u) \/ Forget(u)
      PROVE  Leaving' /\ CancelledRan'
  BY <1>2 DEF Create, Command, Ends, Ages, Deafens, Forget
<1>3. CASE Insert
  BY <1>3 DEF Insert
<1>4. CASE Start
  <2>1. thread[msg.uuid] = "asked" /\ thread' = [thread EXCEPT ![msg.uuid] = "alive"]
    BY <1>4 DEF Start, Inserting
  <2> QED
    BY <1>4, <2>1 DEF Start
<1>5. CASE Get \/ Find \/ NotFound
  BY <1>5 DEF Get, Find, NotFound
<1>6. CASE Look
  <2>1. thread[queue[pos]] \in {"asked", "alive", "dead"}
    BY <1>6 DEF Look, Listed, Inserting
  <2> QED
    BY <1>6, <2>1 DEF Look
<1>7. CASE Rescan \/ Cancel \/ RemoveEnv \/ NoHash \/ Raise \/ TakeOff
  BY <1>7 DEF Rescan, Cancel, RemoveEnv, NoHash, Raise, GiveUp, TakeOff
<1> QED
  BY <1>1, <1>2, <1>3, <1>4, <1>5, <1>6, <1>7 DEF Next, MessageLoop, Monitor

(* What is started is in the list or was met too early, and what is taken  *)
(* off is Leaving.                                                         *)
LEMMA StepOver == QueueInv /\ [Next]_vars => OnlyOverLeave'
<1> SUFFICES ASSUME QueueInv, [Next]_vars PROVE OnlyOverLeave'
  OBVIOUS
<1> USE DEF QueueInv, TypeOK, OnlyOverLeave, loopVars, monVars, caseVars
<1>1. CASE UNCHANGED vars
  BY <1>1 DEF vars
<1>2. ASSUME NEW u \in Cases,
             Create(u) \/ Command(u) \/ Ends(u) \/ Ages(u) \/ Deafens(u) \/ Forget(u)
      PROVE  OnlyOverLeave'
  BY <1>2 DEF Create, Command, Ends, Ages, Deafens, Forget
<1>3. CASE Insert
  <2>1. queue' = Append(queue, msg.uuid) /\ msg.uuid \in Cases
        /\ UNCHANGED <<thread, cancelled, early>>
    BY <1>3 DEF Insert, Message
  <2>2. \A x : Contains(queue, x) => Contains(queue', x)
    BY <2>1 DEF Contains
  <2> QED
    BY <2>1, <2>2
<1>4. CASE Start
  <2>1. /\ thread' = [thread EXCEPT ![msg.uuid] = "alive"]
        /\ UNCHANGED <<queue, cancelled, early>>
        /\ Contains(queue, msg.uuid) \/ msg.uuid \in early
    BY <1>4 DEF Start, Starting
  <2> QED
    BY <2>1
<1>5. CASE Get \/ Find \/ NotFound
  BY <1>5 DEF Get, Find, NotFound
<1>6. CASE Look \/ Rescan \/ Cancel \/ RemoveEnv \/ NoHash \/ Raise
  BY <1>6 DEF Look, Rescan, Cancel, RemoveEnv, NoHash, Raise, GiveUp
<1>7. CASE TakeOff
  <2>1. \A x : Contains(queue', x) <=> Contains(queue, x) /\ x # r
    BY <1>7, WithoutIsTheRest DEF TakeOff, Listed
  <2>2. /\ thread' = thread /\ UNCHANGED <<cancelled, early>>
        /\ thread[r] = "dead" \/ r \in cancelled \cup early
    BY <1>7 DEF TakeOff, Leaving
  <2> QED
    BY <2>1, <2>2 DEF OnlyOverLeave
<1> QED
  BY <1>1, <1>2, <1>3, <1>4, <1>5, <1>6, <1>7 DEF Next, MessageLoop, Monitor

LEMMA QueueInvHolds == Spec => []QueueInv
<1>1. QueueInv /\ [Next]_vars => QueueInv'
  BY StepTyped, StepAsked, StepListed, StepStarting, StepLeaving, StepOver DEF QueueInv
<1> QED
  BY <1>1, InitQueueInv, PTL DEF Spec

(* The type invariant, for any perturbations.                              *)
THEOREM TypeCorrect == Spec => []TypeOK
<1>1. QueueInv => TypeOK
  BY DEF QueueInv
<1> QED
  BY <1>1, QueueInvHolds, PTL

(* runner_queue holds no Runner twice, so that remove takes off all of it. *)
THEOREM ListedOnce == Spec => [](\A i, j \in 1..Len(queue) : queue[i] = queue[j] => i = j)
<1>1. QueueInv => \A i, j \in 1..Len(queue) : queue[i] = queue[j] => i = j
  BY DEF QueueInv, Listed, Distinct
<1> QED
  BY <1>1, QueueInvHolds, PTL

(* A Runner that runs without being in runner_queue was cancelled by the   *)
(* monitor, or the monitor came to it between its append and its start,    *)
(* however the removals of the monitor fall between the steps of its own   *)
(* scan and of the message loop: the race of insert is the only one that   *)
(* loses a Runner.                                                         *)
THEOREM OnlyOverRunnersLeave == Spec => []OnlyOverLeave
<1>1. QueueInv => OnlyOverLeave
  BY DEF QueueInv
<1> QED
  BY <1>1, QueueInvHolds, PTL

-----------------------------------------------------------------------------
(* The list grows at its end, and not while the message loop searches it;  *)
(* each removal of the monitor meanwhile is remembered by shrunk.          *)
LEMMA StepSearched == TypeOK /\ Searched /\ [Next]_vars => Searched'
<1> SUFFICES ASSUME TypeOK, Searched, [Next]_vars PROVE Searched'
  OBVIOUS
<1> USE DEF TypeOK, Searched, loopVars, monVars, caseVars
<1>1. CASE UNCHANGED vars
  BY <1>1 DEF vars
<1>2. ASSUME NEW u \in Cases,
             Create(u) \/ Command(u) \/ Ends(u) \/ Ages(u) \/ Deafens(u) \/ Forget(u)
      PROVE  Searched'
  BY <1>2 DEF Create, Command, Ends, Ages, Deafens, Forget
<1>3. CASE Get \/ Insert \/ Start \/ NotFound
  BY <1>3 DEF Get, Insert, Start, NotFound, EndSearch
<1>4. CASE Find
  BY <1>4 DEF Find, EndSearch, GoOn
<1>5. CASE Look \/ Rescan \/ Cancel \/ RemoveEnv \/ NoHash \/ Raise
  BY <1>5 DEF Look, Rescan, Cancel, RemoveEnv, NoHash, Raise, GiveUp
<1>6. CASE TakeOff
  BY <1>6 DEF TakeOff
<1> QED
  BY <1>1, <1>2, <1>3, <1>4, <1>5, <1>6 DEF Next, MessageLoop, Monitor

(* pause, cancel and resume find their Runner in the list, unless the      *)
(* monitor took one off while they looked.                                 *)
THEOREM CommandsFindTheirRunner == Spec => []FoundUnlessShrunk
<1>1. Init => Searched
  BY DEF Init, Searched
<1>2. QueueInv /\ Searched /\ [Next]_vars => Searched'
  BY StepSearched DEF QueueInv
<1>3. QueueInv /\ Searched => FoundUnlessShrunk
  BY DEF QueueInv, TypeOK, Searched, FoundUnlessShrunk, Contains
<1> QED
  BY <1>1, <1>2, <1>3, QueueInvHolds, PTL DEF Spec
=============================================================================
