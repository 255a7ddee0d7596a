--------------------------- MODULE EvalBenchProofs ---------------------------
(***************************************************************************)
(* Proofs about eval-bench, for every command line: the rate limiters      *)
(* work, and the rate that was asked for is kept where the sessions are    *)
(* those of the mysql client.  And about its threads, for any number of    *)
(* them, any capacity of the channels and every perturbation: main never   *)
(* waits for room in a channel, no request precedes the common start, and  *)
(* what the printed total leaves out is bounded by what the channels hold. *)
(***************************************************************************)
EXTENDS EvalBench, FiniteSetTheorems, TLAPS

-----------------------------------------------------------------------------
(* The rate                                                                *)

LEMMA Division ==
    ASSUME NEW x \in Nat, NEW d \in Nat \ {0}
    PROVE  /\ x \div d \in Nat
           /\ d * (x \div d) <= x
           /\ x < d * (x \div d) + d
  BY SMT

(* Rounding up gives the threads together what was asked, and fewer than   *)
(* one request each too many.                                              *)
LEMMA RoundingUp ==
    ASSUME NEW r \in Nat \ {0}, NEW t \in Nat \ {0}
    PROVE  /\ PerThread(r, t) \in Nat \ {0}
           /\ r <= t * PerThread(r, t)
           /\ t * PerThread(r, t) < r + t
<1> DEFINE q == PerThread(r, t)
<1>1. r + t - 1 \in Nat
  OBVIOUS
<1>2. /\ q \in Nat
      /\ t * q <= r + t - 1
      /\ r + t - 1 < t * q + t
  BY <1>1, Division DEF PerThread
<1>3. t * q \in Nat
  BY <1>2
<1>4. q # 0
  BY <1>2
<1>5. QED
  BY <1>2, <1>3, <1>4

(* The tokens and the executions of a token make the rate again, exactly.  *)
LEMMA TokensMakeRate ==
    ASSUME NEW rate \in Nat \ {0}
    PROVE  /\ Tokens(rate) \in Nat \ {0}
           /\ rate \div Tokens(rate) \in Nat
           /\ Tokens(rate) * (rate \div Tokens(rate)) = rate
<1>1. CASE rate % 10 = 0
  <2>1. Tokens(rate) = rate \div 10 /\ rate = 10 * (rate \div 10)
    BY <1>1 DEF Tokens
  <2>2. rate \div Tokens(rate) = 10
    BY <2>1
  <2>3. QED
    BY <2>1, <2>2
<1>2. CASE rate % 10 # 0 /\ rate % 5 = 0
  <2>1. Tokens(rate) = rate \div 5 /\ rate = 5 * (rate \div 5)
    BY <1>2 DEF Tokens
  <2>2. rate \div Tokens(rate) = 5
    BY <2>1
  <2>3. QED
    BY <2>1, <2>2
<1>3. CASE rate % 10 # 0 /\ rate % 5 # 0
  <2>1. Tokens(rate) = rate
    BY <1>3 DEF Tokens
  <2>2. rate \div Tokens(rate) = 1
    BY <2>1
  <2>3. QED
    BY <2>1, <2>2
<1>4. QED
  BY <1>1, <1>2, <1>3

(* What all threads send is the rate of a session, times their number.     *)
LEMMA SessionsShare ==
    ASSUME NEW f \in Flags, ~Refused(f)
    PROVE  /\ PerSession(f) \in Nat \ {0}
           /\ f.t * (f.c * PerSession(f)) < f.r + f.t
           /\ 10 * (f.t * (f.c * PerSession(f))) > 9 * f.r
           /\ f.c = 1 => f.t * (f.c * PerSession(f)) >= f.r
<1> DEFINE r == f.r
           t == f.t
           c == f.c
           q == PerThread(r, t)
           s == PerSession(f)
<1>1. r \in Nat \ {0} /\ t \in Nat \ {0} /\ c \in Nat \ {0}
  BY FlagsAssumption DEF Flags
<1>2. q \in Nat \ {0} /\ r <= t * q /\ t * q < r + t
  BY <1>1, RoundingUp
<1>3. s \in Nat /\ c * s <= q /\ q < c * s + c
  BY <1>1, <1>2, Division DEF PerSession
<1> DEFINE all == t * (c * s)
<1>5. c * s \in Nat /\ all \in Nat /\ t * q \in Nat /\ t * c \in Nat
  BY <1>1, <1>2, <1>3
<1>6. all <= t * q
  BY <1>1, <1>2, <1>3, <1>5
<1>7. t * q < all + t * c
  <2>1. t * q < t * (c * s + c)
    BY <1>1, <1>2, <1>3, <1>5
  <2>2. t * (c * s + c) = t * (c * s) + t * c
    BY <1>1, <1>3, <1>5
  <2>3. QED
    BY <2>1, <2>2
<1>8. CASE c = 1
  <2>1. c * s = s /\ s = q
    BY <1>2, <1>3, <1>8
  <2>2. all = t * q
    BY <2>1
  <2>3. QED
    BY <2>1, <2>2, <1>1, <1>2, <1>5
<1>9. CASE c > 1
  <2>1. 10 * (t * c) <= r
    BY <1>1, <1>5, <1>9 DEF Refused
  <2>2. r < all + t * c
    BY <1>1, <1>2, <1>5, <1>7
  <2>3. 10 * all > 9 * r
    BY <2>1, <2>2, <1>1, <1>5
  <2>4. s # 0
    <3>1. SUFFICES ASSUME s = 0 PROVE FALSE
      OBVIOUS
    <3>2. all = 0
      BY <3>1, <1>1
    <3>3. QED
      BY <3>2, <2>3, <1>1
  <2>5. QED
    BY <2>3, <2>4, <1>1, <1>2, <1>3, <1>5, <1>6, <1>9
<1>10. c = 1 \/ c > 1
  BY <1>1
<1>11. QED
  BY <1>8, <1>9, <1>10, Zenon

-----------------------------------------------------------------------------
(* The plan is what main makes of the flags.                               *)
PlanOfFlags ==
    /\ flags \in Flags
    /\ plan \in {Outcome("none", 0, 0), PlanOf(flags)}

LEMMA PlanIsPlanOf == RateSpec => []PlanOfFlags
<1>1. RateInit => PlanOfFlags
  BY DEF RateInit, PlanOfFlags
<1>2. PlanOfFlags /\ [Divide]_rateVars => PlanOfFlags'
  BY DEF PlanOfFlags, Divide, rateVars
<1>3. QED
  BY <1>1, <1>2, PTL DEF RateSpec

(* What a plan holds, if main goes on.                                     *)
LEMMA PlanIsExact ==
    ASSUME NEW f \in Flags
    PROVE  \/ PlanOf(f) = Outcome("fatal", 0, 0)
           \/ /\ ~Refused(f)
              /\ PlanOf(f).outcome = "runs"
              /\ PlanOf(f).tokens \in Nat
              /\ PlanOf(f).exec \in Nat
              /\ PlanOf(f).tokens * PlanOf(f).exec = PerSession(f)
<1>1. CASE Refused(f)
  BY <1>1 DEF PlanOf
<1>2. CASE ~Refused(f)
  <2>1. PerSession(f) \in Nat \ {0}
    BY <1>2, SessionsShare
  <2> DEFINE rate == PerSession(f)
             tokens == Tokens(rate)
  <2>2. tokens \in Nat \ {0} /\ rate \div tokens \in Nat /\ tokens * (rate \div tokens) = rate
    BY <2>1, TokensMakeRate
  <2>3. PlanOf(f) = Outcome("runs", tokens, rate \div tokens)
    BY <1>2, <2>2 DEF PlanOf
  <2>4. QED
    BY <1>2, <2>2, <2>3 DEF Outcome
<1>3. QED
  BY <1>1, <1>2

(* No command line that main accepts makes a thread panic (main.go 74, 99, *)
(* 219).                                                                   *)
THEOREM LimitersWork == RateSpec => []LimiterWorks
<1>1. ASSUME PlanOfFlags PROVE LimiterWorks
  BY <1>1, PlanIsExact DEF PlanOfFlags, LimiterWorks, Outcome
<1>2. QED
  BY <1>1, PlanIsPlanOf, PTL

(* Whatever the flags, with -c for mysql only: more than nine tenths of    *)
(* the rate asked for is sent in a second, and less than one request of    *)
(* each thread too much (main.go 74-105).                                  *)
THEOREM RateIsKept == RateSpec => []RateKept
<1>1. ASSUME PlanOfFlags PROVE RateKept
  <2>1. SUFFICES ASSUME Planned, flags.c > 1 => flags.e = "mysql"
        PROVE  /\ 10 * Sent > 9 * flags.r
               /\ flags.c = 1 => Sent >= flags.r
               /\ Sent < flags.r + flags.t
    BY DEF RateKept
  <2>2. flags \in Flags /\ plan = PlanOf(flags)
    BY <1>1, <2>1 DEF PlanOfFlags, Planned, Outcome
  <2>3. /\ ~Refused(flags)
        /\ plan.tokens \in Nat /\ plan.exec \in Nat
        /\ plan.tokens * plan.exec = PerSession(flags)
    BY <2>1, <2>2, PlanIsExact DEF Planned, Outcome
  <2>4. flags.r \in Nat /\ flags.t \in Nat /\ flags.c \in Nat \ {0}
    BY <2>2, FlagsAssumption DEF Flags
  <2>5. /\ Requests(flags) = flags.c
        /\ PerSession(flags) \in Nat
    BY <2>1, <2>2, <2>3, <2>4, SessionsShare DEF Requests
  <2>6. Sent = flags.t * (flags.c * PerSession(flags))
    <3> DEFINE n == plan.tokens
               e == plan.exec
    <3>1. Sent = flags.t * n * e * flags.c
      BY <2>5 DEF Sent
    <3>2. flags.t * n * e * flags.c = flags.t * (flags.c * (n * e))
      BY <2>3, <2>4
    <3>3. QED
      BY <3>1, <3>2, <2>3
  <2>7. QED
    BY <2>2, <2>3, <2>6, SessionsShare
<1>2. QED
  BY <1>1, PlanIsPlanOf, PTL

(* The goroutines leave flags and plan alone: what is said of BenchRate    *)
(* holds of them.                                                          *)
THEOREM FollowsPlan == Spec => RateSpec
<1>1. Init => RateInit
  BY DEF Init
<1>2. [Next]_vars => [Divide]_rateVars
  BY DEF Next, Plan, vars, rateVars
<1>3. QED
  BY <1>1, <1>2, PTL DEF Spec, RateSpec

-----------------------------------------------------------------------------
(* The threads                                                             *)

(* The requests of an execution that are sent and not reported: those      *)
(* before the session that sends, and those from the one that is scanned.  *)
Open ==
    {p \in Workers \X (1..Requests(flags)) :
       \/ worker[p[1]] = "exec" /\ p[2] < session[p[1]]
       \/ worker[p[1]] \in {"scan", "ok", "err"} /\ session[p[1]] <= p[2]}

(* main sends each worker one start and one stop, and one end.             *)
Sending ==
    /\ toSend \in 0..Cardinality(Workers)
    /\ main \in {"planning", "waiting"} => ch.start = 0
    /\ main \in {"planning", "waiting", "starting"} => ch.stop = 0 /\ ch.end = 0
    /\ main = "starting" => ch.start + toSend <= Cardinality(Workers)
    /\ main = "stopping" => ch.stop + toSend <= Cardinality(Workers) /\ ch.end = 0

(* Until main has seen every client ready, no worker has had its start.    *)
Started ==
    /\ main \in {"planning", "waiting"} =>
           executed = 0 /\ \A w \in Workers : worker[w] \in {"init", "waiting"}
    /\ main \in {"starting", "stopping", "printing", "exited"} => ready = Workers
    /\ ready \subseteq Workers

(* Between two executions a worker is back at the first session.           *)
Sessions1 ==
    /\ flags \in Flags
    /\ \A w \in Workers :
          worker[w] \in {"init", "waiting", "looping", "returned"} => session[w] = 1

(* A request that was sent is counted, in a channel, or with its worker.   *)
Accounted ==
    /\ executed = result.ok + result.err + ch.ok + ch.err + Cardinality(Open)
    /\ main = "exited" => printed = result.ok + result.err

BenchInv ==
    /\ TypeOK /\ Sending /\ Sessions1 /\ Started /\ StartedTogether /\ Accounted
    /\ executed \in Nat /\ printed \in Nat /\ result \in [ok : Nat, err : Nat]

-----------------------------------------------------------------------------
LEMMA RequestsAreMany ==
  ASSUME NEW f \in Flags
  PROVE  Requests(f) \in Nat \ {0}
<1>1. f.c \in Sessions
  BY DEF Flags
<1>2. f.c \in Nat \ {0}
  BY <1>1, FlagsAssumption
<1>3. 1 \in Nat \ {0}
  OBVIOUS
<1> QED
  BY <1>2, <1>3, Zenon DEF Requests

LEMMA OpenIsFinite ==
  ASSUME flags \in Flags
  PROVE  /\ Cardinality(Workers) \in Nat /\ IsFiniteSet(Open)
         /\ Cardinality(Open) \in Nat
         /\ Cardinality(Open) <= Cardinality(Workers) * Requests(flags)
<1> DEFINE c == Requests(flags)
<1>1. c \in Nat \ {0}
  BY RequestsAreMany
<1>2. IsFiniteSet(1..c) /\ Cardinality(1..c) = c
  <2>1. 1 \in Int /\ c \in Int /\ ~(1 > c) /\ c - 1 + 1 = c
    BY <1>1
  <2> HIDE DEF c
  <2> QED
    BY <2>1, FS_Interval
<1> HIDE DEF c
<1>3. IsFiniteSet(Workers \X (1..c)) /\ Cardinality(Workers \X (1..c)) = Cardinality(Workers) * c
  BY <1>2, WorkersAssumption, FS_Product
<1>4. Open \subseteq Workers \X (1..c)
  BY DEF Open, c
<1> QED
  BY <1>3, <1>4, WorkersAssumption, FS_Subset, FS_CardinalityType DEF c

(* One more request is open with each that is sent.                        *)
LEMMA ExecOpens ==
  ASSUME TypeOK, Sessions1, NEW w \in Workers, Exec(w), UNCHANGED rateVars
  PROVE  Cardinality(Open)' = Cardinality(Open) + 1
<1> DEFINE c == Requests(flags)
           p == <<w, session[w]>>
           R == {q \in Workers \X (1..c) :
                   \/ worker'[q[1]] = "exec" /\ q[2] < session'[q[1]]
                   \/ worker'[q[1]] \in {"scan", "ok", "err"} /\ session'[q[1]] <= q[2]}
<1>1. c \in Nat \ {0} /\ Requests(flags') = c
  BY RequestsAreMany DEF Sessions1, rateVars
<1>2. Open' = R
  BY <1>1 DEF Open
<1>3. /\ worker[w] = "exec" /\ session[w] \in 1..c
      /\ \A v \in Workers : v # w => worker'[v] = worker[v] /\ session'[v] = session[v]
      /\ worker'[w] = IF session[w] = c THEN "scan" ELSE "exec"
      /\ session'[w] = IF session[w] = c THEN 1 ELSE session[w] + 1
  BY DEF Exec, Goto, NextSession, Last, TypeOK
<1>4. p \in Workers \X (1..c) /\ p \notin Open
  BY <1>1, <1>3 DEF Open
<1>5. R = Open \cup {p}
  <2>1. ASSUME NEW v \in Workers, NEW i \in 1..c PROVE <<v, i>> \in R <=> <<v, i>> \in Open \cup {p}
    <3>1. CASE v # w
      BY <1>3, <3>1 DEF Open
    <3>2. CASE v = w
      BY <1>1, <1>3, <3>2 DEF Open
    <3> QED
      BY <3>1, <3>2
  <2>2. R \subseteq Workers \X (1..c) /\ Open \cup {p} \subseteq Workers \X (1..c)
    BY <1>4 DEF Open
  <2> HIDE DEF R, p
  <2> QED
    BY <2>1, <2>2
<1> HIDE DEF R, p
<1> QED
  BY <1>2, <1>4, <1>5, OpenIsFinite, FS_AddElement DEF Sessions1

(* One fewer is open with each that is reported.                           *)
LEMMA ReportCloses ==
  ASSUME TypeOK, Sessions1, NEW w \in Workers, Report(w), UNCHANGED rateVars
  PROVE  Cardinality(Open)' = Cardinality(Open) - 1
<1> DEFINE c == Requests(flags)
           p == <<w, session[w]>>
           R == {q \in Workers \X (1..c) :
                   \/ worker'[q[1]] = "exec" /\ q[2] < session'[q[1]]
                   \/ worker'[q[1]] \in {"scan", "ok", "err"} /\ session'[q[1]] <= q[2]}
<1>1. c \in Nat \ {0} /\ Requests(flags') = c
  BY RequestsAreMany DEF Sessions1, rateVars
<1>2. Open' = R
  BY <1>1 DEF Open
<1>3. /\ worker[w] \in {"ok", "err"} /\ session[w] \in 1..c
      /\ \A v \in Workers : v # w => worker'[v] = worker[v] /\ session'[v] = session[v]
      /\ IF session[w] = c THEN worker'[w] \in {"looping", "exec"} ELSE worker'[w] = "scan"
      /\ session'[w] = IF session[w] = c THEN 1 ELSE session[w] + 1
  BY DEF Report, Goto, NextSession, Last, TypeOK
<1>4. p \in Workers \X (1..c) /\ p \in Open
  BY <1>1, <1>3 DEF Open
<1>5. R = Open \ {p}
  <2>1. ASSUME NEW v \in Workers, NEW i \in 1..c PROVE <<v, i>> \in R <=> <<v, i>> \in Open \ {p}
    <3>1. CASE v # w
      BY <1>3, <3>1 DEF Open
    <3>2. CASE v = w
      BY <1>1, <1>3, <3>2 DEF Open
    <3> QED
      BY <3>1, <3>2
  <2>2. R \subseteq Workers \X (1..c) /\ Open \ {p} \subseteq Workers \X (1..c)
    BY DEF Open
  <2> HIDE DEF R, p
  <2> QED
    BY <2>1, <2>2
<1> HIDE DEF R, p
<1> QED
  BY <1>2, <1>4, <1>5, OpenIsFinite, FS_RemoveElement DEF Sessions1

(* A step of a worker that neither sends nor reports leaves them alone.    *)
LEMMA OthersKeepOpen ==
  ASSUME TypeOK, Sessions1, NEW w \in Workers, UNCHANGED rateVars,
         InitClient(w) \/ Begin(w) \/ TakeStop(w) \/ TakeToken(w) \/ Scan(w)
  PROVE  Open' = Open
<1>1. Requests(flags') = Requests(flags) /\ Requests(flags) \in Nat \ {0}
  BY RequestsAreMany DEF rateVars, Sessions1
<1>2. session' = session
  BY DEF InitClient, Begin, TakeStop, TakeToken, Scan
<1>3. \A v \in Workers : v # w => worker'[v] = worker[v]
  BY DEF InitClient, Begin, TakeStop, TakeToken, Scan, Goto, TypeOK
<1>4. \/ worker[w] = "scan" /\ worker'[w] \in {"ok", "err"}
      \/ /\ worker[w] \in {"init", "waiting", "looping"} /\ session[w] = 1
         /\ worker'[w] \in {"init", "waiting", "looping", "returned", "exec"}
  BY DEF InitClient, Begin, TakeStop, TakeToken, Scan, Goto, TypeOK, Sessions1
<1>5. ASSUME NEW q \in Workers \X (1..Requests(flags))
      PROVE  (\/ worker'[q[1]] = "exec" /\ q[2] < session[q[1]]
              \/ worker'[q[1]] \in {"scan", "ok", "err"} /\ session[q[1]] <= q[2])
             <=> (\/ worker[q[1]] = "exec" /\ q[2] < session[q[1]]
                  \/ worker[q[1]] \in {"scan", "ok", "err"} /\ session[q[1]] <= q[2])
  <2>1. CASE q[1] = w
    BY <1>1, <1>4, <2>1
  <2>2. CASE q[1] # w
    BY <1>3, <2>2
  <2> QED
    BY <2>1, <2>2
<1> QED
  BY <1>1, <1>2, <1>5 DEF Open

LEMMA InitBench == Init => BenchInv
<1> SUFFICES ASSUME Init PROVE BenchInv
  OBVIOUS
<1> DEFINE c == Requests(flags)
<1>4. flags \in Flags /\ c \in Nat \ {0}
  BY RequestsAreMany DEF Init, RateInit
<1>5. 1 \in 1..c
  BY <1>4
<1> HIDE DEF c
<1>1. TypeOK /\ Sending /\ Started /\ StartedTogether
  BY <1>5, WorkersAssumption, FS_CardinalityType
     DEF Init, TypeOK, Sending, Started, StartedTogether, c
<1>6. Sessions1
  BY <1>4 DEF Init, Sessions1
<1>2. Open = {}
  BY DEF Init, Open
<1>3. Accounted
  BY <1>2, FS_EmptySet DEF Init, Accounted
<1> QED
  BY <1>1, <1>3, <1>6 DEF Init, BenchInv

(* The loops over the sessions start from the first, and end at the last.  *)
LEMMA StepSessions ==
  ASSUME TypeOK, Sessions1, [Next]_vars
  PROVE  Sessions1' /\ (session \in [Workers -> 1..Requests(flags)])'
<1> DEFINE c == Requests(flags)
           Goal == Sessions1' /\ (session \in [Workers -> 1..Requests(flags)])'
<1>1. c \in Nat \ {0} /\ session \in [Workers -> 1..c]
  BY RequestsAreMany DEF Sessions1, TypeOK
<1>2. flags' = flags /\ Requests(flags') = c
  BY DEF Next, Plan, Divide, rateVars, vars
<1> HIDE DEF c
<1> USE DEF Sessions1, Goto, mainVars, workerVars, collectorVars
<1>3. CASE UNCHANGED <<worker, session>>
  BY <1>1, <1>2, <1>3
<1>4. ASSUME NEW w \in Workers,
             InitClient(w) \/ Begin(w) \/ TakeStop(w) \/ TakeToken(w) \/ Scan(w)
      PROVE  Goal
  <2>1. session' = session
    BY <1>4 DEF InitClient, Begin, TakeStop, TakeToken, Scan
  <2>2. \A v \in Workers : v # w => worker'[v] = worker[v]
    BY <1>4 DEF InitClient, Begin, TakeStop, TakeToken, Scan, TypeOK
  <2>3. worker[w] \in {"init", "waiting", "looping"} \/ worker'[w] \in {"ok", "err"}
    BY <1>4 DEF InitClient, Begin, TakeStop, TakeToken, Scan, TypeOK
  <2> QED
    BY <1>1, <1>2, <2>1, <2>2, <2>3
<1>5. ASSUME NEW w \in Workers, Exec(w) \/ Report(w) PROVE Goal
  <2>1. /\ session[w] \in 1..c
        /\ session' = [session EXCEPT ![w] = IF session[w] = c THEN 1 ELSE session[w] + 1]
    BY <1>1, <1>5 DEF Exec, Report, NextSession, Last, c
  <2>2. \A v \in Workers : v # w => worker'[v] = worker[v]
    BY <1>5 DEF Exec, Report, TypeOK
  <2>3. session[w] # c => worker'[w] \in {"exec", "scan"}
    BY <1>5 DEF Exec, Report, TypeOK, Last, c
  <2>4. session' \in [Workers -> 1..c]
    BY <1>1, <2>1
  <2>5. \A v \in Workers : worker'[v] \in {"init", "waiting", "looping", "returned"} => session'[v] = 1
    <3> SUFFICES ASSUME NEW v \in Workers,
                        worker'[v] \in {"init", "waiting", "looping", "returned"}
                 PROVE  session'[v] = 1
      OBVIOUS
    <3>1. CASE v = w
      BY <1>1, <2>1, <2>3, <3>1
    <3>2. CASE v # w
      BY <1>1, <2>1, <2>2, <3>2
    <3> QED
      BY <3>1, <3>2
  <2> QED
    BY <1>2, <2>4, <2>5
<1>6. CASE Plan \/ Main \/ Elapse \/ Collector \/ UNCHANGED vars
  BY <1>3, <1>6 DEF Plan, Main, WaitReady, SendStarts, SendStops, SendEnd, PrintResult, Elapse,
                    Collector, CollectEnd, Collect, vars
<1> QED
  BY <1>4, <1>5, <1>6 DEF Next, Worker

(* Channels for starts, stops and the end have room for what main sends.   *)
LEMMA StepSending ==
  ASSUME TypeOK, Sessions1, Sending, [Next]_vars
  PROVE  TypeOK' /\ Sending'
<1>15. (session \in [Workers -> 1..Requests(flags)])'
  BY StepSessions
<1> USE <1>15
<1> DEFINE N == Cardinality(Workers)
<1>1. N \in Nat /\ ChanSize \in Nat
  BY WorkersAssumption, FS_CardinalityType
<1> USE DEF TypeOK, Sending, Send, Receive, Goto, mainVars, workerVars, collectorVars
<1> HIDE DEF N
<1> USE <1>1 DEF N
<1>2. CASE UNCHANGED vars
  BY <1>2 DEF vars
<1>3. CASE Plan
  BY <1>3 DEF Plan
<1>4. ASSUME NEW w \in Workers, InitClient(w) PROVE TypeOK' /\ Sending'
  BY <1>4 DEF InitClient
<1>5. ASSUME NEW w \in Workers, Begin(w) \/ TakeStop(w) PROVE TypeOK' /\ Sending'
  BY <1>5 DEF Begin, TakeStop
<1>6. ASSUME NEW w \in Workers, TakeToken(w) \/ Exec(w) \/ Scan(w) PROVE TypeOK' /\ Sending'
  BY <1>6 DEF TakeToken, Exec, Scan
<1>7. ASSUME NEW w \in Workers, Report(w) PROVE TypeOK' /\ Sending'
  <2>1. CASE worker[w] = "ok"
    BY <1>7, <2>1 DEF Report
  <2>2. CASE worker[w] = "err"
    BY <1>7, <2>2 DEF Report
  <2> QED
    BY <1>7, <2>1, <2>2 DEF Report
<1>8. CASE CollectEnd
  BY <1>8 DEF CollectEnd
<1>9. CASE Collect("ok") \/ Collect("err")
  BY <1>9 DEF Collect
<1>10. CASE WaitReady
  BY <1>10 DEF WaitReady
<1>11. CASE SendStarts
  BY <1>11 DEF SendStarts, SendToAll
<1>12. CASE SendStops
  BY <1>12 DEF SendStops, SendToAll
<1>13. CASE Elapse
  BY <1>13 DEF Elapse
<1>14. CASE SendEnd \/ PrintResult
  BY <1>14 DEF SendEnd, PrintResult
<1> QED
  BY <1>2, <1>3, <1>4, <1>5, <1>6, <1>7, <1>8, <1>9, <1>10, <1>11, <1>12, <1>13, <1>14
     DEF Next, Main, Collector, Worker

(* A worker loops only after its start, which main sends when all clients  *)
(* are ready; a client that is ready stays so.                             *)
LEMMA StepStarted ==
  ASSUME BenchInv, [Next]_vars
  PROVE  Started' /\ StartedTogether' /\ executed' \in Nat
<1> USE DEF BenchInv, TypeOK, Sending, Started, StartedTogether, Send, Receive, Goto,
            mainVars, workerVars, collectorVars
<1> DEFINE Goal == Started' /\ StartedTogether' /\ executed' \in Nat
<1>1. CASE UNCHANGED vars
  BY <1>1 DEF vars
<1>2. CASE Plan
  BY <1>2 DEF Plan
<1>3. ASSUME NEW w \in Workers, InitClient(w) PROVE Goal
  BY <1>3 DEF InitClient
<1>4. ASSUME NEW w \in Workers, Running, Begin(w) PROVE Goal
  BY <1>4 DEF Begin, Running
<1>5. ASSUME NEW w \in Workers, Running, TakeStop(w) \/ TakeToken(w) PROVE Goal
  BY <1>5 DEF TakeStop, TakeToken
<1>6. ASSUME NEW w \in Workers, Running, Exec(w) \/ Scan(w) PROVE Goal
  <2>1. main \in {"starting", "stopping", "printing"}
    BY <1>6 DEF Exec, Scan, Running, Alive
  <2> QED
    BY <1>6, <2>1 DEF Exec, Scan
<1>7. ASSUME NEW w \in Workers, Running, Report(w) PROVE Goal
  BY <1>7 DEF Report
<1>8. CASE CollectEnd \/ Collect("ok") \/ Collect("err")
  BY <1>8 DEF CollectEnd, Collect
<1>9. CASE WaitReady
  BY <1>9 DEF WaitReady, AllReady
<1>10. CASE SendStarts \/ SendStops
  BY <1>10 DEF SendStarts, SendStops, SendToAll
<1>11. CASE Elapse \/ SendEnd \/ PrintResult
  BY <1>11 DEF Elapse, SendEnd, PrintResult
<1> QED
  BY <1>1, <1>2, <1>3, <1>4, <1>5, <1>6, <1>7, <1>8, <1>9, <1>10, <1>11
     DEF Next, Main, Collector, Worker

(* A request moves from its worker to a channel and on to the result, and  *)
(* no step loses it or counts it twice; the result stands when it is       *)
(* printed, since main ends every goroutine then.                          *)
LEMMA StepAccounted ==
  ASSUME BenchInv, [Next]_vars
  PROVE  Accounted' /\ printed' \in Nat /\ (result \in [ok : Nat, err : Nat])'
<1> DEFINE Goal == Accounted' /\ printed' \in Nat /\ (result \in [ok : Nat, err : Nat])'
           C == Cardinality(Open)
<1>1. /\ C \in Nat /\ executed \in Nat /\ printed \in Nat
      /\ result \in [ok : Nat, err : Nat] /\ TypeOK /\ Sessions1
      /\ ch.ok \in Nat /\ ch.err \in Nat
      /\ executed = result.ok + result.err + ch.ok + ch.err + C
      /\ main = "exited" => printed = result.ok + result.err
  BY OpenIsFinite, WorkersAssumption DEF BenchInv, TypeOK, Accounted, Sessions1
<1>2. ch \in [start : 0..Cardinality(Workers), stop : 0..Cardinality(Workers), end : 0..1,
               ok : 0..ChanSize, err : 0..ChanSize]
  BY <1>1 DEF TypeOK
<1>3. ASSUME UNCHANGED <<worker, session>> PROVE C' = C
  <2>1. Requests(flags') = Requests(flags)
    BY DEF Next, Plan, Divide, rateVars, vars
  <2> QED
    BY <1>3, <2>1 DEF Open
<1>4. ASSUME NEW w \in Workers, UNCHANGED rateVars,
             InitClient(w) \/ Begin(w) \/ TakeStop(w) \/ TakeToken(w) \/ Scan(w)
      PROVE  C' = C
  BY <1>1, <1>4, OthersKeepOpen
<1> HIDE DEF C
<1> USE DEF Accounted, Send, Receive, mainVars, workerVars, collectorVars
<1>5. CASE UNCHANGED vars
  BY <1>1, <1>3, <1>5 DEF vars, C
<1>6. CASE Plan
  BY <1>1, <1>3, <1>6 DEF Plan, C
<1>7. ASSUME NEW w \in Workers, Running, UNCHANGED rateVars, InitClient(w) PROVE Goal
  <2>1. C' = C
    BY <1>4, <1>7
  <2> QED
    BY <1>1, <1>7, <2>1 DEF InitClient, Running, Alive, C
<1>8. ASSUME NEW w \in Workers, UNCHANGED rateVars, Begin(w) \/ TakeStop(w) PROVE Goal
  <2>1. C' = C
    BY <1>4, <1>8
  <2>2. ch'.ok = ch.ok /\ ch'.err = ch.err
    BY <1>2, <1>8 DEF Begin, TakeStop
  <2> QED
    BY <1>1, <1>8, <2>1, <2>2 DEF Begin, TakeStop, C
<1>9. ASSUME NEW w \in Workers, UNCHANGED rateVars, TakeToken(w) \/ Scan(w) PROVE Goal
  <2>1. C' = C
    BY <1>4, <1>9
  <2> QED
    BY <1>1, <1>9, <2>1 DEF TakeToken, Scan, C
<1>10. ASSUME NEW w \in Workers, UNCHANGED rateVars, Exec(w) PROVE Goal
  <2>1. C' = C + 1
    BY <1>1, <1>10, ExecOpens DEF C
  <2> QED
    BY <1>1, <1>10, <2>1 DEF Exec, C
<1>11. ASSUME NEW w \in Workers, Running, UNCHANGED rateVars, Report(w) PROVE Goal
  <2>1. C' = C - 1
    BY <1>1, <1>11, ReportCloses DEF C
  <2>2. ch'.ok + ch'.err = ch.ok + ch.err + 1 /\ ch'.ok \in Nat /\ ch'.err \in Nat
    <3>1. CASE worker[w] = "ok"
      BY <1>1, <1>2, <1>11, <3>1 DEF Report
    <3>2. CASE worker[w] = "err"
      BY <1>1, <1>2, <1>11, <3>2 DEF Report
    <3> QED
      BY <1>11, <3>1, <3>2 DEF Report
  <2>3. main' # "exited" /\ UNCHANGED <<executed, printed, result>>
    BY <1>11 DEF Report, Running, Alive
  <2> QED
    BY <1>1, <2>1, <2>2, <2>3 DEF C
<1>12. ASSUME Running, CollectEnd PROVE Goal
  <2>1. ch'.ok = ch.ok /\ ch'.err = ch.err
    BY <1>2, <1>12 DEF CollectEnd
  <2> QED
    BY <1>1, <1>3, <1>12, <2>1 DEF CollectEnd, C
<1>13. ASSUME Running, Collect("ok") \/ Collect("err") PROVE Goal
  <2>1. main' = main /\ main # "exited" /\ UNCHANGED <<executed, printed, worker, session>>
    BY <1>13 DEF Collect, Running, Alive
  <2>2. CASE Collect("ok")
    <3>1. ch'.ok = ch.ok - 1 /\ ch'.err = ch.err
      BY <1>2, <2>2 DEF Collect
    <3>2. result' \in [ok : Nat, err : Nat] /\ result'.ok = result.ok + 1 /\ result'.err = result.err
      BY <1>1, <2>2 DEF Collect
    <3> QED
      BY <1>1, <1>3, <2>1, <3>1, <3>2 DEF C
  <2>3. CASE Collect("err")
    <3>1. ch'.ok = ch.ok /\ ch'.err = ch.err - 1
      BY <1>2, <2>3 DEF Collect
    <3>2. result' \in [ok : Nat, err : Nat] /\ result'.ok = result.ok /\ result'.err = result.err + 1
      BY <1>1, <2>3 DEF Collect
    <3> QED
      BY <1>1, <1>3, <2>1, <3>1, <3>2 DEF C
  <2> QED
    BY <1>13, <2>2, <2>3
<1>14. CASE WaitReady \/ Elapse
  BY <1>1, <1>3, <1>14 DEF WaitReady, Elapse, C
<1>15. CASE SendStarts \/ SendStops \/ SendEnd
  <2>1. ch'.ok = ch.ok /\ ch'.err = ch.err
    BY <1>2, <1>15 DEF SendStarts, SendStops, SendEnd, SendToAll
  <2> QED
    BY <1>1, <1>3, <1>15, <2>1 DEF SendStarts, SendStops, SendEnd, SendToAll, C
<1>16. CASE PrintResult
  BY <1>1, <1>3, <1>16 DEF PrintResult, Total, C
<1> QED
  BY <1>5, <1>6, <1>7, <1>8, <1>9, <1>10, <1>11, <1>12, <1>13, <1>14, <1>15, <1>16
     DEF Next, Main, Collector, Worker

LEMMA BenchInvHolds == Spec => []BenchInv
<1>1. BenchInv /\ [Next]_vars => BenchInv'
  BY StepSessions, StepSending, StepStarted, StepAccounted DEF BenchInv
<1> QED
  BY <1>1, InitBench, PTL DEF Spec

(* The channels hold what their capacities allow: those for the starts and *)
(* the stops one for each thread, so that main never waits to send them,   *)
(* and those for the times no more than ChanSize.                          *)
THEOREM TypeCorrect == Spec => []TypeOK
<1>1. BenchInv => TypeOK
  BY DEF BenchInv
<1> QED
  BY <1>1, BenchInvHolds, PTL

(* No worker of any number sends a request before all clients are ready,   *)
(* though some may never get ready and others end the process.             *)
THEOREM WorkersStartTogether == Spec => []StartedTogether
<1>1. BenchInv => StartedTogether
  BY DEF BenchInv
<1> QED
  BY <1>1, BenchInvHolds, PTL

(* main prints without waiting for the collector; what is missing from the *)
(* total is at most what both channels hold when full and the requests of  *)
(* one execution per worker, because every request that was sent is        *)
(* accounted for.                                                          *)
THEOREM LossIsBounded == Spec => []LossBounded
<1>1. ASSUME BenchInv PROVE LossBounded
  <2> DEFINE held == Cardinality(Workers) * Requests(flags)
             open == Cardinality(Open)
  <2>1. open \in Nat /\ open <= held /\ held \in Nat /\ ChanSize \in Nat
    BY <1>1, OpenIsFinite, RequestsAreMany, WorkersAssumption DEF BenchInv, Sessions1
  <2>2. ch.ok \in 0..ChanSize /\ ch.err \in 0..ChanSize
    BY <1>1 DEF BenchInv, TypeOK
  <2>3. result.ok \in Nat /\ result.err \in Nat
    BY <1>1 DEF BenchInv
  <2>4. /\ executed = result.ok + result.err + ch.ok + ch.err + open
        /\ main = "exited" => printed = result.ok + result.err
    BY <1>1 DEF BenchInv, Accounted
  <2> HIDE DEF held, open
  <2>5. main = "exited" => executed <= printed + 2 * ChanSize + held
    BY <2>1, <2>2, <2>3, <2>4
  <2> QED
    BY <2>5 DEF LossBounded, held
<1> QED
  BY <1>1, BenchInvHolds, PTL
=============================================================================
