------------------------------ MODULE RedisLock ------------------------------
(***************************************************************************)
(* The global redis lock (redis_db.py) and the calls of RedisRunnerInfo    *)
(* (runner_info.py) that run under it, redis command by redis command.     *)
(* A client is a thread of the controller or a process of the              *)
(* evaluation-runner; each of its calls makes a new identifier, so that    *)
(* the key's value names the call that set it.                             *)
(*                                                                         *)
(* Perturbations names what may happen:                                    *)
(*   crash     a client dies, but not between the HSETs of one update      *)
(*   tear      it may die there too                                        *)
(*   slow      a client holds the lock longer than its 20 seconds          *)
(*   giveup    a client does not get the lock for 30 seconds               *)
(*   earlyboot init_runner_info, which takes no lock, meets other calls    *)
(***************************************************************************)
CONSTANTS Clients, None, Perturbations

AllPerturbations == {"crash", "tear", "slow", "giveup", "earlyboot"}

ASSUME PerturbationsAssumption == Perturbations \subseteq AllPerturbations
ASSUME NoneAssumption == None \notin Clients

VARIABLES
    owner,      \* value of the key GLOBAL_LOCK: whose identifier it holds
    ttl,        \* that key has an expiration time
    dirty,      \* clients whose WATCHed key has changed since
    hash,       \* the case's redis hash: who wrote each field last
    seen,       \* the answer of each client's last get_runner_info
    pc,         \* the next command of each client
    op          \* the call it is in

vars == <<owner, ttl, dirty, hash, seen, pc, op>>

(* The two fields exec_pytest updates at once, in its order.               *)
Fields == {"runner-status", "case-status"}

Empty == [f \in Fields |-> None]

Ops == {"update", "get", "delete", "init"}

Waiting == {"setnx", "ttl", "repair", "sleep"}
Holding == {"expire", "body", "write", "watch", "compare", "exec"}

TypeOK ==
    /\ owner \in Clients \cup {None}
    /\ ttl \in BOOLEAN
    /\ dirty \in SUBSET Clients
    /\ hash \in [Fields -> Clients \cup {None}]
    /\ seen \in [Clients -> [Fields -> Clients \cup {None}]]
    /\ pc \in [Clients -> {"idle", "dead"} \cup Waiting \cup Holding]
    /\ op \in [Clients -> Ops]

Init ==
    /\ owner = None
    /\ ttl = FALSE
    /\ dirty = {}
    /\ hash = Empty
    /\ seen = [c \in Clients |-> Empty]
    /\ pc = [c \in Clients |-> "idle"]
    /\ op = [c \in Clients |-> "get"]

May(p) == p \in Perturbations

Jump(c, from, to) == pc[c] = from /\ pc' = [pc EXCEPT ![c] = to]

infoVars == <<hash, seen>>
keyVars == <<owner, ttl, dirty>>

-----------------------------------------------------------------------------
(* acquire_lock                                                            *)

(* Mutant of Call: get_runner_info, which changes nothing, does without    *)
(* the lock.                                                               *)
CallUnlocked(c) ==
    \E o \in {"update", "get", "delete"} :
        /\ Jump(c, "idle", IF o = "get" THEN "body" ELSE "setnx")
        /\ op' = [op EXCEPT ![c] = o]
        /\ UNCHANGED <<keyVars, infoVars>>

Call(c) ==
    \E o \in {"update", "get", "delete"} :
        /\ Jump(c, "idle", "setnx")
        /\ op' = [op EXCEPT ![c] = o]
        /\ UNCHANGED <<keyVars, infoVars>>

(* Mutant of SetNx: SET instead of SETNX.                                  *)
SetAlways(c) ==
    /\ \E from \in {"setnx", "sleep"} : Jump(c, from, "expire")
    /\ owner' = c /\ ttl' = FALSE /\ dirty' = Clients
    /\ UNCHANGED <<infoVars, op>>

(* At first, or in another round of the loop.                              *)
SetNx(c) ==
    /\ UNCHANGED <<infoVars, op>>
    /\ \E from \in {"setnx", "sleep"} :
        \/ /\ owner = None /\ Jump(c, from, "expire")
           /\ owner' = c /\ ttl' = FALSE /\ dirty' = Clients
        \/ owner # None /\ Jump(c, from, "ttl") /\ UNCHANGED keyVars

(* Mutant of CheckTtl: nobody looks after a lock without expiration time.  *)
CheckTtlNever(c) == Jump(c, "ttl", "sleep") /\ UNCHANGED <<keyVars, infoVars, op>>

(* TTL answers -1 for a key without expiration time.                       *)
CheckTtl(c) ==
    /\ Jump(c, "ttl", IF owner # None /\ ~ttl THEN "repair" ELSE "sleep")
    /\ UNCHANGED <<keyVars, infoVars, op>>

(* EXPIRE, by the new owner or by a waiter; by now it may meet another     *)
(* key than the one it is meant for, or none.                              *)
Expire(c) ==
    /\ Jump(c, "expire", "body") \/ Jump(c, "repair", "sleep")
    /\ IF owner # None THEN ttl' = TRUE /\ dirty' = Clients ELSE UNCHANGED <<ttl, dirty>>
    /\ UNCHANGED <<owner, infoVars, op>>

(* After 30 seconds acquire_lock returns its identifier all the same.      *)
GiveUp(c) ==
    /\ May("giveup")
    /\ Jump(c, "sleep", "body")
    /\ UNCHANGED <<keyVars, infoVars, op>>

-----------------------------------------------------------------------------
(* RedisRunnerInfo, between acquire_lock and release_lock                  *)

(* update_runner_info: one HSET per field (the bytes HGET answers never    *)
(* equal the str they are compared with, so every field is written).       *)
HSetFirst(c) ==
    /\ op[c] = "update" /\ Jump(c, "body", "write")
    /\ hash' = [hash EXCEPT !["runner-status"] = c]
    /\ UNCHANGED <<keyVars, seen, op>>

HSetSecond(c) ==
    /\ Jump(c, "write", "watch")
    /\ hash' = [hash EXCEPT !["case-status"] = c]
    /\ UNCHANGED <<keyVars, seen, op>>

HGetAll(c) ==
    /\ op[c] = "get" /\ Jump(c, "body", "watch")
    /\ seen' = [seen EXCEPT ![c] = hash]
    /\ UNCHANGED <<keyVars, hash, op>>

Delete(c) ==
    /\ op[c] = "delete" /\ Jump(c, "body", "watch")
    /\ hash' = Empty
    /\ UNCHANGED <<keyVars, seen, op>>

(* init_runner_info: one HMSET, without the lock.                          *)
HMSet(c) ==
    /\ May("earlyboot") /\ pc[c] = "idle"
    /\ hash' = [f \in Fields |-> c]
    /\ op' = [op EXCEPT ![c] = "init"]
    /\ UNCHANGED <<keyVars, seen, pc>>

-----------------------------------------------------------------------------
(* release_lock                                                            *)

Watch(c) ==
    /\ Jump(c, "watch", "compare")
    /\ dirty' = dirty \ {c}
    /\ UNCHANGED <<owner, ttl, infoVars, op>>

(* Not this call's identifier: unwatch and leave.                          *)
Compare(c) ==
    /\ Jump(c, "compare", IF owner = c THEN "exec" ELSE "idle")
    /\ UNCHANGED <<keyVars, infoVars, op>>

(* Mutant of Exec: GET and DELETE without WATCH between them.              *)
ExecUnwatched(c) ==
    /\ UNCHANGED <<infoVars, op>>
    /\ Jump(c, "exec", "idle") /\ owner' = None /\ ttl' = FALSE /\ dirty' = Clients

(* EXEC deletes the key, or raises WatchError, and WATCH starts again.     *)
Exec(c) ==
    /\ UNCHANGED <<infoVars, op>>
    /\ \/ /\ c \notin dirty /\ Jump(c, "exec", "idle")
          /\ owner' = None /\ ttl' = FALSE /\ dirty' = Clients
       \/ c \in dirty /\ Jump(c, "exec", "watch") /\ UNCHANGED keyVars

-----------------------------------------------------------------------------
(* The surroundings                                                        *)

(* A call lasts milliseconds: unless it is slow, only a dead client's lock *)
(* reaches its expiration time.  Old versions of redis do not count an     *)
(* expiration as a change of a WATCHed key.                                *)
KeyExpires ==
    /\ owner # None /\ ttl
    /\ pc[owner] = "dead" \/ May("slow")
    /\ owner' = None /\ ttl' = FALSE /\ dirty' \in {dirty, Clients}
    /\ UNCHANGED <<infoVars, pc, op>>

Die(c) ==
    /\ May("crash") /\ pc[c] \notin {"idle", "dead"}
    /\ pc[c] = "write" => May("tear")
    /\ pc' = [pc EXCEPT ![c] = "dead"]
    /\ UNCHANGED <<keyVars, infoVars, op>>

Command(c) ==
    \/ SetNx(c) \/ CheckTtl(c) \/ Expire(c)
    \/ HSetFirst(c) \/ HSetSecond(c) \/ HGetAll(c) \/ Delete(c)
    \/ Watch(c) \/ Compare(c) \/ Exec(c)

Next ==
    \/ KeyExpires
    \/ \E c \in Clients : Call(c) \/ Command(c) \/ GiveUp(c) \/ HMSet(c) \/ Die(c)

Spec == Init /\ [][Next]_vars

(* Threads that are in a call go on with it, the pollers among them (the   *)
(* monitor, every 10 seconds; eval-runner.py, every 5) begin new calls,    *)
(* and redis expires keys.                                                 *)
FairSpec ==
    /\ Spec /\ WF_vars(KeyExpires)
    /\ \A c \in Clients : WF_vars(Command(c)) /\ WF_vars(Call(c))

-----------------------------------------------------------------------------
(* Only one live client is between its acquire_lock and its release_lock.  *)
InBody(c) == pc[c] \in {"body", "write"}

MutualExclusion == \A c, d \in Clients : InBody(c) /\ InBody(d) => c = d

(* The calls are atomic, as RunnerEnv has them.                            *)
Atomic == INSTANCE AtomicInfo WITH value <- [f \in Fields |-> hash["case-status"]]

ImplementsAtomic == Atomic!AtomicSpec

(* release_lock removes the key of its own call only, even when that key   *)
(* has expired and another client has set it meanwhile.                    *)
ReleasesOwn ==
    [][\A c \in Clients : pc[c] = "exec" /\ pc'[c] = "idle" => owner \in {c, None}]_vars

(* The lock of a client that died, at whatever point, is freed as long as  *)
(* some client lives to call: SETNX and EXPIRE are two commands, and the   *)
(* waiters set the expiration time that a death in between leaves unset.   *)
DeadLockFreed ==
    \A c \in Clients :
        (pc[c] = "dead" /\ owner = c) ~> (owner # c \/ \A d \in Clients : pc[d] = "dead")
=============================================================================
