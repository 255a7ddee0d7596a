----------------------------- MODULE AtomicInfo -----------------------------
(***************************************************************************)
(* What RedisRunnerInfo promises its callers, and RunnerEnv relies on: an  *)
(* update of several fields of a case's hash, a deletion and a read are    *)
(* one step each.                                                          *)
(***************************************************************************)
CONSTANTS Clients, Fields, None

VARIABLES
    value,  \* who wrote each field last
    seen    \* what each client read last

Empty == [f \in Fields |-> None]

AtomicInit ==
    /\ value = Empty
    /\ seen = [c \in Clients |-> Empty]

UpdateAll(c) == value' = [f \in Fields |-> c] /\ UNCHANGED seen

Erase == value' = Empty /\ UNCHANGED seen

ReadAll(c) == seen' = [seen EXCEPT ![c] = value] /\ UNCHANGED value

AtomicNext == Erase \/ \E c \in Clients : UpdateAll(c) \/ ReadAll(c)

AtomicSpec == AtomicInit /\ [][AtomicNext]_<<value, seen>>
=============================================================================
