----------------------------- MODULE BenchRate ------------------------------
(***************************************************************************)
(* The rate arithmetic of eval-bench (eb/main.go): the requests per second *)
(* asked for are divided among the threads, rounded up, then among the     *)
(* sessions of a thread, rounded down; what remains is split into tokens   *)
(* of the rate limiter and executions for each token.                      *)
(***************************************************************************)
EXTENDS Integers

CONSTANTS
    Rates, Threads, Sessions,   \* the values of -r, -t and -c
    Engines                     \* the values of -e

ASSUME FlagsAssumption ==
    Rates \subseteq Nat \ {0} /\ Threads \subseteq Nat \ {0} /\ Sessions \subseteq Nat \ {0}

VARIABLES
    flags,      \* the command line
    plan        \* what main makes of it

rateVars == <<flags, plan>>

Flags == [r : Rates, t : Threads, c : Sessions, e : Engines]

Outcome(o, tokens, exec) == [outcome |-> o, tokens |-> tokens, exec |-> exec]

RateInit == flags \in Flags /\ plan = Outcome("none", 0, 0)

(* Mutant of Refused: the number of requests is not checked.               *)
NeverRefused(f) == FALSE

(* log.Fatal: too few requests to divide among the sessions.               *)
Refused(f) == f.c > 1 /\ f.t * f.c * 10 > f.r

(* Mutant of PerThread: rounded down, and one more.                        *)
PerThreadMore(r, t) == r \div t + 1

(* rps_rate *)
PerThread(r, t) == (r + t - 1) \div t

(* rate *)
PerSession(f) == PerThread(f.r, f.t) \div f.c

(* rateTokenCount *)
Tokens(rate) ==
    IF rate % 10 = 0 THEN rate \div 10 ELSE IF rate % 5 = 0 THEN rate \div 5 ELSE rate

(* ratelimit.New(0), and the division for execCount, panic in each thread. *)
PlanOf(f) ==
    LET rate == PerSession(f)
        tokens == Tokens(rate)
    IN  IF Refused(f) THEN Outcome("fatal", 0, 0)
        ELSE IF tokens = 0 THEN Outcome("panic", 0, 0)
        ELSE Outcome("runs", tokens, rate \div tokens)

Divide == plan.outcome = "none" /\ plan' = PlanOf(flags) /\ UNCHANGED flags

RateSpec == RateInit /\ [][Divide]_rateVars

-----------------------------------------------------------------------------
(* Only the mysql client sends SessionCount requests in an execution.      *)
Requests(f) == IF f.e = "mysql" THEN f.c ELSE 1

(* What all threads send in a second.                                      *)
Sent == flags.t * plan.tokens * plan.exec * Requests(flags)

Planned == plan.outcome = "runs"

(* No command line that main accepts makes a rate limiter of rate 0.       *)
LimiterWorks == plan.outcome # "panic"

(* What is sent in a second is more than nine tenths of what was asked     *)
(* for, all of it with one session, and fewer than one request per thread  *)
(* too many, however the roundings fall, if -c is given to mysql only.     *)
RateKept ==
    Planned /\ (flags.c > 1 => flags.e = "mysql") =>
        /\ 10 * Sent > 9 * flags.r
        /\ flags.c = 1 => Sent >= flags.r
        /\ Sent < flags.r + flags.t
=============================================================================
