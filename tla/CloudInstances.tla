--------------------------- MODULE CloudInstances ---------------------------
(***************************************************************************)
(* The virtual machines of a test case: the provider, and the calls of     *)
(* aliyun_sdk.py that create and delete them, as parts of the script of    *)
(* one test.  pc is where the script is; a call that raises, or an assert, *)
(* ends it in "failed".                                                    *)
(*                                                                         *)
(* Perturbations names what may happen:                                    *)
(*   cloud     a call of the provider's API raises                         *)
(*   slow      an instance needs longer than its status is polled          *)
(*   lookup    a listing, or the lookup of a name, omits an instance       *)
(*   fault     a command on a machine, or a call of the deepflow server,   *)
(*             fails                                                       *)
(*   hang      a call without a time limit never returns                   *)
(*   pause     the case is paused and continued                            *)
(*   cancel    the case is cancelled: its pytest process is killed         *)
(***************************************************************************)
EXTENDS Naturals, Sequences, Functions

CONSTANTS
    Names,          \* the instances the test creates, in its order
    MaxPolls,       \* of _await_instances_status
    Perturbations

ASSUME MaxPollsAssumption == MaxPolls \in Nat \ {0}

(* The first is the machine of the agent, the second sends the traffic.    *)
ASSUME NamesAssumption ==
    /\ Names \in Seq(Range(Names)) /\ Len(Names) >= 2
    /\ \A i, j \in 1..Len(Names) : Names[i] = Names[j] => i = j

VARIABLES
    pc,
    vm,         \* the provider's state of each instance
    creating,   \* index in Names of the instance being created
    polls,      \* _await_instances_status: time
    ids,        \* delete_instances: instance_ids, what the lookups found
    warned,     \* _await_instances_status has answered false
    omitted,    \* an answer of the provider has left an instance out
    refused     \* the provider has refused to stop or to delete the ids

cloudVars == <<vm, creating, polls, ids, warned, omitted, refused>>

Instances == Range(Names)

CloudTypeOK ==
    /\ vm \in [Instances -> {"none", "booting", "running", "stopping", "stopped"}]
    /\ creating \in 1..Len(Names)
    /\ polls \in 0..(MaxPolls - 1)
    /\ ids \subseteq Instances
    /\ {warned, omitted, refused} \subseteq BOOLEAN

CloudInit ==
    /\ vm = [n \in Instances |-> "none"]
    /\ creating = 1 /\ polls = 0 /\ ids = {}
    /\ warned = FALSE /\ omitted = FALSE /\ refused = FALSE

May(p) == p \in Perturbations

Go(here, there) == pc = here /\ pc' = there

CloudPcs == {"run", "settle", "describe", "find", "halt", "delete"}

ApiRaises ==
    /\ May("cloud") /\ pc \in CloudPcs /\ pc' = "failed"
    /\ UNCHANGED cloudVars

-----------------------------------------------------------------------------
(* The provider                                                            *)

Boots(n) == vm[n] = "booting" /\ vm' = [vm EXCEPT ![n] = "running"]

Halts(n) == vm[n] = "stopping" /\ vm' = [vm EXCEPT ![n] = "stopped"]

Provider == \E n \in Instances : (Boots(n) \/ Halts(n)) /\ UNCHANGED <<creating, polls, ids, warned, omitted, refused>>

(* What the provider says there is of some instances.                      *)
Listings(instances) == IF May("lookup") THEN SUBSET instances ELSE {instances}

-----------------------------------------------------------------------------
(* create_instances: one after the other                                   *)

Name == Names[creating]

RunInstances ==
    /\ Go("run", "settle")
    /\ vm' = [vm EXCEPT ![Name] = "booting"]
    /\ UNCHANGED <<creating, polls, ids, warned, omitted, refused>>

(* One round of _await_instances_status: every instance that is listed has *)
(* the status.  Its answer is false after the last poll, whatever that     *)
(* saw.  Nobody reads it.                                                  *)
Round(here, there, targets, status, intime) ==
    \E listed \in Listings(targets) :
       LET reached == \A n \in listed : vm[n] = status
           time    == polls + 1
       IN  /\ time = MaxPolls => reached \/ May("slow")
           /\ IF reached \/ time = MaxPolls
              THEN Go(here, there) /\ polls' = 0 /\ warned' = (warned \/ time \notin intime)
              ELSE Go(here, here) /\ polls' = time /\ UNCHANGED warned
           /\ omitted' = (omitted \/ listed # targets)
           /\ UNCHANGED <<vm, creating, ids, refused>>

(* Mutant of Await: the answer is true after the last poll, too.           *)
AwaitInTime(here, there, targets, status) ==
    Round(here, there, targets, status, 1..MaxPolls)

Await(here, there, targets, status) ==
    Round(here, there, targets, status, 1..(MaxPolls - 1))

Settle == Await("settle", "describe", {Name}, "running")

(* The instance's address is read, and the next one is created; if it is   *)
(* not listed, there is no address to read.                                *)
Describe ==
    /\ \/ creating < Len(Names) /\ Go("describe", "run") /\ creating' = creating + 1
       \/ creating = Len(Names) /\ Go("describe", "agent") /\ UNCHANGED creating
       \/ May("lookup") /\ Go("describe", "failed") /\ UNCHANGED creating
    /\ UNCHANGED <<vm, polls, ids, warned, omitted, refused>>

-----------------------------------------------------------------------------
(* delete_instances, _delete_instances: all that are found at once         *)

Refuse(here) == Go(here, "failed") /\ refused' = TRUE /\ UNCHANGED vm

(* A name that is not found is passed over.  StopInstances refuses a list  *)
(* that is empty or has an instance that is not running.                   *)
StopInstances ==
    /\ ids' \in Listings(Instances)
    /\ omitted' = (omitted \/ ids' # Instances)
    /\ IF ids' # {} /\ \A n \in ids' : vm[n] = "running"
       THEN /\ Go("find", "halt") /\ UNCHANGED refused
            /\ vm' = [n \in Instances |-> IF n \in ids' THEN "stopping" ELSE vm[n]]
       ELSE Refuse("find")
    /\ UNCHANGED <<creating, polls, warned>>

Halt == Await("halt", "delete", ids, "stopped")

(* DeleteInstances without force refuses one that is not stopped.          *)
DeleteInstances ==
    /\ IF \A n \in ids : vm[n] = "stopped"
       THEN /\ Go("delete", "passed") /\ UNCHANGED refused
            /\ vm' = [n \in Instances |-> IF n \in ids THEN "none" ELSE vm[n]]
       ELSE Refuse("delete")
    /\ UNCHANGED <<creating, polls, ids, warned, omitted>>

CloudScript ==
    \/ RunInstances \/ Settle \/ Describe
    \/ StopInstances \/ Halt \/ DeleteInstances
    \/ ApiRaises
=============================================================================
