---------------------------- MODULE ManagerQueue ----------------------------
(***************************************************************************)
(* The manager (manager.py) with several cases: the message loop appends   *)
(* Runners to runner_queue and looks for the one a command is meant for,   *)
(* while the monitor thread takes off it those that ended or are too old.  *)
(* Both walk the same list by position, and the list shrinks under them.   *)
(* What happens within a case is left to CaseLifecycle.                    *)
(***************************************************************************)
EXTENDS Naturals, Sequences, SequencesExt

CONSTANTS
    Cases,          \* uuids
    MaxCommands,    \* a bound: commands sent to the manager
    Frail,          \* the cases that may get old, go silent or lose their hash
    Perturbations   \* what may happen: "raise", "old", "deaf", "forget"

VARIABLES
    messages,       \* message_queue
    sent,           \* commands sent so far
    queue,          \* runner_queue
    thread,         \* the thread of each Runner
    old,            \* the cases past RUNNER_TIMEOUT
    hash,           \* the redis hash of each case: does it get an acknowledgement?
    cancelled,      \* the cases the monitor has cancelled
    early,          \* the cases the monitor looked at before their thread was started
    loop, msg, at,  \* the message loop: where, its message, its position in the list
    mon, r, pos,    \* the monitor: where, its Runner, its position in the list
    shrunk          \* a Runner was taken off the list since the message loop looks through it

loopVars == <<loop, msg, at, shrunk>>
monVars == <<mon, r, pos, cancelled, early>>
caseVars == <<thread, old, hash>>
vars == <<messages, sent, queue, caseVars, loopVars, monVars>>

May(p) == p \in Perturbations

NoMessage == [uuid |-> "none", status |-> "none"]

Init ==
    /\ messages = <<>> /\ sent = 0 /\ queue = <<>>
    /\ thread = [u \in Cases |-> "none"] /\ old = {}
    /\ hash = [u \in Cases |-> "answered"] /\ cancelled = {} /\ early = {}
    /\ loop = "get" /\ msg = NoMessage /\ at = 1 /\ shrunk = FALSE
    /\ mon = "scan" /\ r = "none" /\ pos = 1

-----------------------------------------------------------------------------
(* The API server puts messages; each case is created once.                *)
Create(u) ==
    /\ thread[u] = "none" /\ thread' = [thread EXCEPT ![u] = "asked"]
    /\ messages' = Append(messages, [uuid |-> u, status |-> "create"])
    /\ UNCHANGED <<sent, queue, old, hash, loopVars, monVars>>

Command(u) ==
    /\ thread[u] # "none" /\ sent < MaxCommands /\ sent' = sent + 1
    /\ messages' = Append(messages, [uuid |-> u, status |-> "pause"])
    /\ UNCHANGED <<queue, caseVars, loopVars, monVars>>

(* The thread of a Runner comes to its end, or gets too old.               *)
Ends(u) ==
    /\ thread[u] = "alive" /\ thread' = [thread EXCEPT ![u] = "dead"]
    /\ UNCHANGED <<messages, sent, queue, old, hash, loopVars, monVars>>

Ages(u) ==
    /\ May("old") /\ thread[u] = "alive" /\ u \in Frail \ old /\ old' = old \cup {u}
    /\ UNCHANGED <<messages, sent, queue, thread, hash, loopVars, monVars>>

(* The pod of a case dies or hangs: it acknowledges nothing any more.      *)
Deafens(u) ==
    /\ May("deaf") /\ u \in Frail /\ thread[u] \in {"alive", "dead"} /\ hash[u] = "answered"
    /\ hash' = [hash EXCEPT ![u] = "silent"]
    /\ UNCHANGED <<messages, sent, queue, thread, old, loopVars, monVars>>

(* The hash is missing: never written, because helm printed on stderr, or  *)
(* dropped by redis at the TTL of init_runner_info.                        *)
Forget(u) ==
    /\ (May("forget") /\ u \in Frail) \/ u \in old
    /\ thread[u] \in {"alive", "dead"} /\ hash[u] # "missing"
    /\ hash' = [hash EXCEPT ![u] = "missing"]
    /\ UNCHANGED <<messages, sent, queue, thread, old, loopVars, monVars>>

-----------------------------------------------------------------------------
(* The message loop.                                                       *)
Get ==
    /\ loop = "get" /\ messages # <<>>
    /\ msg' = Head(messages) /\ messages' = Tail(messages) /\ at' = 1
    /\ loop' = IF msg'.status = "create" THEN "insert" ELSE "find"
    /\ UNCHANGED <<sent, queue, caseVars, shrunk, monVars>>

(* insert: the Runner is appended, and its thread started after that; the  *)
(* monitor may come to it in between.                                      *)
Insert ==
    /\ loop = "insert" /\ loop' = "start"
    /\ queue' = Append(queue, msg.uuid)
    /\ UNCHANGED <<messages, sent, caseVars, msg, at, shrunk, monVars>>

Start ==
    /\ loop = "start" /\ loop' = "get" /\ msg' = NoMessage
    /\ thread' = [thread EXCEPT ![msg.uuid] = "alive"]
    /\ UNCHANGED <<messages, sent, queue, old, hash, at, shrunk, monVars>>

EndSearch == loop' = "get" /\ msg' = NoMessage /\ at' = 1 /\ shrunk' = FALSE

GoOn == at' = at + 1 /\ UNCHANGED <<loop, msg, shrunk>>

(* Mutant of Find: the index is advanced before it is used.                *)
FindNext ==
    /\ loop = "find" /\ at <= Len(queue)
    /\ IF at < Len(queue) /\ queue[at + 1] = msg.uuid THEN EndSearch ELSE GoOn
    /\ UNCHANGED <<messages, sent, queue, caseVars, monVars>>

(* pause, cancel, resume: the loop over the list, a Runner at a time; the  *)
(* one that is found is given the command.                                 *)
Find ==
    /\ loop = "find" /\ at <= Len(queue)
    /\ IF queue[at] = msg.uuid THEN EndSearch ELSE GoOn
    /\ UNCHANGED <<messages, sent, queue, caseVars, monVars>>

NotFound ==
    /\ loop = "find" /\ at > Len(queue) /\ EndSearch
    /\ UNCHANGED <<messages, sent, queue, caseVars, monVars>>

MessageLoop == Get \/ Insert \/ Start \/ Find \/ NotFound

-----------------------------------------------------------------------------
(* The monitor.                                                            *)

(* The next Runner of the list; the iterator moves on before it is served. *)
(* is_alive is false of a thread that has ended, and of one not started.   *)
Look ==
    /\ mon = "scan" /\ pos <= Len(queue) /\ pos' = pos + 1
    /\ LET u == queue[pos] IN
       \/ /\ thread[u] # "alive" /\ mon' = "remove_env" /\ r' = u
          /\ early' = IF thread[u] = "asked" THEN early \cup {u} ELSE early
       \/ thread[u] = "alive" /\ u \in old /\ mon' = "cancel" /\ r' = u /\ UNCHANGED early
       \/ thread[u] = "alive" /\ u \notin old /\ UNCHANGED <<mon, r, early>>
    /\ UNCHANGED <<messages, sent, queue, caseVars, loopVars, cancelled>>

(* The end of the list: three seconds later it starts again.               *)
Rescan ==
    /\ mon = "scan" /\ pos > Len(queue) /\ pos' = 1
    /\ UNCHANGED <<messages, sent, queue, caseVars, loopVars, mon, r, cancelled, early>>

(* cancel: wait_case_sync waits as long as the hash has no acknowledgement.*)
Cancel ==
    /\ mon = "cancel" /\ hash[r] = "answered"
    /\ mon' = "remove_env" /\ cancelled' = cancelled \cup {r}
    /\ UNCHANGED <<messages, sent, queue, caseVars, loopVars, r, pos, early>>

(* An exception gives the scan up; the next one starts from the beginning. *)
GiveUp ==
    /\ mon' = "scan" /\ pos' = 1 /\ r' = "none"
    /\ UNCHANGED <<messages, sent, queue, caseVars, loopVars, cancelled, early>>

(* Mutant of NoHash: wait_case_sync asks with get, and goes on waiting.    *)
NoHashWaits == mon = "cancel" /\ hash[r] = "missing" /\ UNCHANGED vars

(* cancel: a field that the hash does not have is a KeyError.              *)
NoHash == mon = "cancel" /\ hash[r] = "missing" /\ GiveUp

(* redis fails in cancel, or ssh in remove_env.                            *)
Raise == May("raise") /\ mon \in {"cancel", "remove_env"} /\ GiveUp

(* remove_env; what fails inside its try is only logged.  The monitor does *)
(* not look at the hash of this case again, whether it could delete it.    *)
RemoveEnv ==
    /\ mon = "remove_env" /\ mon' = "remove"
    /\ UNCHANGED <<messages, sent, queue, caseVars, loopVars, r, pos, cancelled, early>>

(* Mutant of Without: the first of the list is taken off.                  *)
WithoutFirst(s, u) == Tail(s)

(* list.remove: what follows moves up, under both iterators.               *)
Without(s, u) == RemoveFirst(s, u)

TakeOff ==
    /\ mon = "remove" /\ mon' = "scan" /\ r' = "none" /\ queue' = Without(queue, r)
    /\ shrunk' = (loop = "find")
    /\ UNCHANGED <<messages, sent, caseVars, loop, msg, at, pos, cancelled, early>>

Monitor == Look \/ Rescan \/ Cancel \/ NoHash \/ RemoveEnv \/ TakeOff \/ Raise

-----------------------------------------------------------------------------
Next ==
    \/ \E u \in Cases :
           Create(u) \/ Command(u) \/ Ends(u) \/ Ages(u) \/ Deafens(u) \/ Forget(u)
    \/ MessageLoop \/ Monitor

Spec == Init /\ [][Next]_vars

(* Both threads run, and redis and ssh answer in the end.  Nothing makes a *)
(* case acknowledge: a hash with an init_runner_info behind it expires,    *)
(* and a Runner without its hash ends, since its wait reads the same hash. *)
FairSpec ==
    /\ Spec
    /\ WF_vars(MessageLoop) /\ WF_vars(Look \/ Rescan \/ NoHash \/ TakeOff)
    /\ SF_vars(Cancel) /\ SF_vars(RemoveEnv)
    /\ \A u \in Cases :
           /\ WF_vars(u \in old /\ Forget(u))
           /\ WF_vars(hash[u] = "missing" /\ Ends(u))

-----------------------------------------------------------------------------
Message == [uuid : Cases, status : {"create", "pause"}]

TypeOK ==
    /\ messages \in Seq(Message) /\ sent \in Nat /\ queue \in Seq(Cases)
    /\ thread \in [Cases -> {"none", "asked", "alive", "dead"}]
    /\ hash \in [Cases -> {"answered", "silent", "missing"}]
    /\ old \subseteq Cases /\ cancelled \subseteq Cases /\ early \subseteq Cases
    /\ loop \in {"get", "insert", "start", "find"} /\ mon \in {"scan", "cancel", "remove_env", "remove"}
    /\ loop # "get" => msg \in Message
    /\ mon # "scan" => r \in Cases
    /\ at \in Nat \ {0} /\ pos \in Nat \ {0} /\ shrunk \in BOOLEAN

(* A Runner that runs without being in the list was cancelled by the       *)
(* monitor, or the monitor came between the append and the start of        *)
(* insert: no other way of the two threads through the list loses one.     *)
OnlyOverLeave ==
    \A u \in Cases :
        thread[u] = "alive" /\ ~Contains(queue, u) => u \in cancelled \cup early

(* The Runners that have ended leave the list, though each removal makes   *)
(* the scan skip the next one, though one before them may acknowledge its  *)
(* cancel never, and though an exception starts the scan from the first.   *)
EndedLeave == \A u \in Cases : thread[u] = "dead" ~> ~Contains(queue, u)

(* A command finds the Runner it is for, if this is in the list and the    *)
(* monitor takes none off while the message loop looks through it.         *)
FoundUnlessShrunk ==
    loop = "find" /\ at > Len(queue) /\ Contains(queue, msg.uuid) => shrunk
=============================================================================
