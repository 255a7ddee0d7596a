---------------------------- MODULE MCRedisLock ----------------------------
(***************************************************************************)
(* Instances of RedisLock for TLC: two clients, one that holds the lock    *)
(* or dies with it and one that waits, repairs it, or takes it when it     *)
(* expires.                                                                *)
(***************************************************************************)
EXTENDS RedisLock

(* Clients die, but not in the middle of an update, and nobody is late.    *)
InTime == {"crash"}

Late == AllPerturbations

============================================================================
