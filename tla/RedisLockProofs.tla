-------------------------- MODULE RedisLockProofs --------------------------
(***************************************************************************)
(* Proofs about the redis lock, for any number of clients: as long as no   *)
(* call outlasts the lock's two times, one client at a time is in a        *)
(* critical section; and if none dies inside an update or initialises a    *)
(* hash that is in use, the calls of RedisRunnerInfo are atomic.  Whatever *)
(* happens, and however late, a call deletes the key of none but itself.   *)
(***************************************************************************)
EXTENDS RedisLock, TLAPS

(* No call is slow enough to lose the lock, or to give up waiting for it.  *)
InItsTime == "slow" \notin Perturbations /\ "giveup" \notin Perturbations

(* No client dies between two HSETs, nor calls init_runner_info meanwhile. *)
Undivided == "tear" \notin Perturbations /\ "earlyboot" \notin Perturbations

(* Who is between the SETNX that succeeded and the end of release_lock     *)
(* owns the key.                                                           *)
Held == \A c \in Clients : pc[c] \in Holding => owner = c

(* The two fields differ only under an update that has written the first.  *)
Whole ==
    /\ \A c \in Clients : pc[c] = "write" => hash["runner-status"] = c
    /\ hash["runner-status"] # hash["case-status"] => \E c \in Clients : pc[c] = "write"

-----------------------------------------------------------------------------
LEMMA InitTyped == Init => TypeOK
<1> SUFFICES ASSUME Init PROVE TypeOK
  OBVIOUS
<1>1. Empty \in [Fields -> Clients \cup {None}]
  BY DEF Empty
<1>2. seen \in [Clients -> [Fields -> Clients \cup {None}]]
  BY <1>1 DEF Init
<1> QED
  BY <1>1, <1>2 DEF Init, TypeOK, Ops, Waiting, Holding

LEMMA StepTyped == TypeOK /\ [Next]_vars => TypeOK'
<1> SUFFICES ASSUME TypeOK, [Next]_vars PROVE TypeOK'
  OBVIOUS
<1> USE DEF TypeOK, Waiting, Holding, Ops, Fields, Empty, Jump, infoVars, keyVars
<1>1. CASE UNCHANGED vars
  BY <1>1 DEF vars
<1>2. CASE KeyExpires
  BY <1>2 DEF KeyExpires
<1>3. ASSUME NEW c \in Clients, Call(c) PROVE TypeOK'
  BY <1>3 DEF Call
<1>4. ASSUME NEW c \in Clients, SetNx(c) PROVE TypeOK'
  BY <1>4 DEF SetNx
<1>5. ASSUME NEW c \in Clients, CheckTtl(c) PROVE TypeOK'
  BY <1>5 DEF CheckTtl
<1>6. ASSUME NEW c \in Clients, Expire(c) PROVE TypeOK'
  BY <1>6 DEF Expire
<1>7. ASSUME NEW c \in Clients, HSetFirst(c) \/ HSetSecond(c) PROVE TypeOK'
  BY <1>7 DEF HSetFirst, HSetSecond
<1>8. ASSUME NEW c \in Clients, HGetAll(c) \/ Delete(c) PROVE TypeOK'
  BY <1>8 DEF HGetAll, Delete
<1>9. ASSUME NEW c \in Clients, Watch(c) \/ Compare(c) PROVE TypeOK'
  BY <1>9 DEF Watch, Compare
<1>10. ASSUME NEW c \in Clients, Exec(c) PROVE TypeOK'
  BY <1>10 DEF Exec
<1>11. ASSUME NEW c \in Clients, GiveUp(c) \/ HMSet(c) \/ Die(c) PROVE TypeOK'
  BY <1>11 DEF GiveUp, HMSet, Die
<1> QED
  BY <1>1, <1>2, <1>3, <1>4, <1>5, <1>6, <1>7, <1>8, <1>9, <1>10, <1>11 DEF Next, Command

(* A step preserves Held: a key is set only when there is none, deleted    *)
(* only by its owner, and expires only when its owner is dead.             *)
LEMMA StepHeld == InItsTime /\ TypeOK /\ Held /\ [Next]_vars => Held'
<1> SUFFICES ASSUME InItsTime, TypeOK, Held, [Next]_vars PROVE Held'
  OBVIOUS
<1> USE NoneAssumption DEF TypeOK, Held, Holding, Jump, infoVars, keyVars
<1>1. CASE UNCHANGED vars
  BY <1>1 DEF vars
<1>2. CASE KeyExpires
  BY <1>2 DEF KeyExpires, InItsTime, May
<1>3. ASSUME NEW c \in Clients, Call(c) PROVE Held'
  BY <1>3 DEF Call
<1>4. ASSUME NEW c \in Clients, SetNx(c) PROVE Held'
  BY <1>4 DEF SetNx
<1>5. ASSUME NEW c \in Clients, CheckTtl(c) \/ Expire(c) PROVE Held'
  BY <1>5 DEF CheckTtl, Expire
<1>6. ASSUME NEW c \in Clients, HSetFirst(c) \/ HSetSecond(c) PROVE Held'
  BY <1>6 DEF HSetFirst, HSetSecond
<1>7. ASSUME NEW c \in Clients, HGetAll(c) \/ Delete(c) PROVE Held'
  BY <1>7 DEF HGetAll, Delete
<1>8. ASSUME NEW c \in Clients, Watch(c) \/ Compare(c) PROVE Held'
  BY <1>8 DEF Watch, Compare
<1>9. ASSUME NEW c \in Clients, Exec(c) PROVE Held'
  BY <1>9 DEF Exec
<1>10. ASSUME NEW c \in Clients, GiveUp(c) \/ HMSet(c) \/ Die(c) PROVE Held'
  BY <1>10 DEF GiveUp, HMSet, Die, InItsTime, May
<1> QED
  BY <1>1, <1>2, <1>3, <1>4, <1>5, <1>6, <1>7, <1>8, <1>9, <1>10 DEF Next, Command

LEMMA HoldersAreOne ==
  Held => \A c, d \in Clients : pc[c] \in Holding /\ pc[d] \in Holding => c = d
BY DEF Held

(* The type invariant, for any perturbations.                              *)
THEOREM TypeCorrect == Spec => []TypeOK
<1>1. TypeOK /\ [Next]_vars => TypeOK'
  BY StepTyped
<1> QED
  BY <1>1, InitTyped, PTL DEF Spec

(* acquire_lock and release_lock keep the critical sections apart, whoever *)
(* dies at whatever point, as long as nobody outlasts the lock's times.    *)
THEOREM Exclusive == InItsTime => (Spec => []MutualExclusion)
<1> SUFFICES ASSUME InItsTime PROVE Spec => []MutualExclusion
  OBVIOUS
<1>1. Init => TypeOK /\ Held
  BY InitTyped DEF Init, Held, Holding
<1>2. TypeOK /\ Held /\ [Next]_vars => (TypeOK /\ Held)'
  BY StepTyped, StepHeld
<1>3. Held => MutualExclusion
  BY DEF Held, Holding, InBody, MutualExclusion
<1> QED
  BY <1>1, <1>2, <1>3, PTL DEF Spec

-----------------------------------------------------------------------------
(* A step preserves Whole: between the two HSETs of an update only its     *)
(* client touches the hash.                                                *)
LEMMA StepWhole ==
  Undivided /\ TypeOK /\ Held /\ Whole /\ [Next]_vars => Whole'
<1> SUFFICES ASSUME Undivided, TypeOK, Held, Whole, [Next]_vars PROVE Whole'
  OBVIOUS
<1> USE DEF TypeOK, Whole, Jump, infoVars, keyVars
<1>1. CASE UNCHANGED vars
  BY <1>1 DEF vars
<1>2. CASE KeyExpires
  BY <1>2 DEF KeyExpires
<1>3. ASSUME NEW c \in Clients, Call(c) \/ SetNx(c) \/ CheckTtl(c) \/ Expire(c) \/ GiveUp(c)
      PROVE  Whole'
  BY <1>3 DEF Call, SetNx, CheckTtl, Expire, GiveUp
<1>4. ASSUME NEW c \in Clients, HSetFirst(c) PROVE Whole'
  <2>1. \A d \in Clients : pc[d] = "write" => d = c
    BY <1>4, HoldersAreOne DEF HSetFirst, Holding
  <2> QED
    BY <1>4, <2>1 DEF HSetFirst, Fields
<1>5. ASSUME NEW c \in Clients, HSetSecond(c) PROVE Whole'
  <2>1. pc[c] = "write" /\ pc' = [pc EXCEPT ![c] = "watch"]
        /\ hash' = [hash EXCEPT !["case-status"] = c]
        /\ UNCHANGED <<owner, seen>>
    BY <1>5 DEF HSetSecond
  <2>2. \A d \in Clients : pc[d] = "write" => d = c
    BY <2>1, HoldersAreOne DEF Holding
  <2>3. hash'["case-status"] = c /\ hash'["runner-status"] = hash["runner-status"]
    BY <2>1 DEF Fields
  <2>4. hash["runner-status"] = c
    BY <2>1
  <2> QED
    BY <2>1, <2>2, <2>3, <2>4 DEF Whole
<1>6. ASSUME NEW c \in Clients, HGetAll(c) \/ Watch(c) \/ Compare(c) \/ Exec(c) PROVE Whole'
  BY <1>6 DEF HGetAll, Watch, Compare, Exec
<1>7. ASSUME NEW c \in Clients, Delete(c) PROVE Whole'
  <2>1. \A d \in Clients : pc[d] # "write"
    BY <1>7, HoldersAreOne DEF Delete, Holding
  <2> QED
    BY <1>7, <2>1 DEF Delete, Empty, Fields
<1>8. ASSUME NEW c \in Clients, HMSet(c) \/ Die(c) PROVE Whole'
  BY <1>8 DEF HMSet, Die, Undivided, May
<1> QED
  BY <1>1, <1>2, <1>3, <1>4, <1>5, <1>6, <1>7, <1>8 DEF Next, Command

LEMMA InitWhole == Init => Held /\ Whole
BY DEF Init, Held, Holding, Whole, Empty, Fields

(* A step of a client, as AtomicInfo sees it: the second HSET of an update *)
(* is the update, HGETALL is the read, and everything else is invisible.   *)
LEMMA StepAtomic ==
  ASSUME Undivided, TypeOK, Held, Whole, [Next]_vars
  PROVE  [Atomic!AtomicNext]_<<[f \in Fields |-> hash["case-status"]], seen>>
<1> USE DEF TypeOK, Jump, infoVars, keyVars
<1>1. CASE UNCHANGED <<hash, seen>>
  BY <1>1
<1>2. ASSUME NEW c \in Clients, HSetFirst(c)
      PROVE  UNCHANGED <<hash["case-status"], seen>>
  BY <1>2 DEF HSetFirst, Fields
<1>3. ASSUME NEW c \in Clients, HSetSecond(c) PROVE Atomic!UpdateAll(c)
  BY <1>3 DEF HSetSecond, Fields, Atomic!UpdateAll
<1>4. ASSUME NEW c \in Clients, HGetAll(c) PROVE Atomic!ReadAll(c)
  <2>1. pc[c] = "body" /\ seen' = [seen EXCEPT ![c] = hash] /\ UNCHANGED hash
    BY <1>4 DEF HGetAll
  <2>2. \A d \in Clients : pc[d] # "write"
    BY <2>1, HoldersAreOne DEF Holding
  <2>3. hash = [f \in Fields |-> hash["case-status"]]
    BY <2>2 DEF Whole, Fields
  <2> QED
    BY <2>1, <2>3 DEF Atomic!ReadAll
<1>5. ASSUME NEW c \in Clients, Delete(c) PROVE Atomic!Erase
  BY <1>5 DEF Delete, Empty, Fields, Atomic!Erase, Atomic!Empty
<1>6. ASSUME NEW c \in Clients,
             \/ Call(c) \/ SetNx(c) \/ CheckTtl(c) \/ Expire(c) \/ GiveUp(c)
             \/ Watch(c) \/ Compare(c) \/ Exec(c) \/ HMSet(c) \/ Die(c)
      PROVE  UNCHANGED <<hash, seen>>
  BY <1>6 DEF Call, SetNx, CheckTtl, Expire, GiveUp, Watch, Compare, Exec, HMSet, Die,
              Undivided, May
<1>7. KeyExpires \/ UNCHANGED vars => UNCHANGED <<hash, seen>>
  BY DEF KeyExpires, vars
<1> QED
  BY <1>1, <1>2, <1>3, <1>4, <1>5, <1>6, <1>7 DEF Next, Command, Atomic!AtomicNext

(* Each call of RedisRunnerInfo is one step for its callers, for any       *)
(* number of clients, as RunnerEnv has it: RedisLock implements AtomicInfo *)
(* while calls keep within the lock's times and die outside the updates.   *)
THEOREM CallsAreAtomic == InItsTime /\ Undivided => (Spec => ImplementsAtomic)
<1> SUFFICES ASSUME InItsTime, Undivided PROVE Spec => ImplementsAtomic
  OBVIOUS
<1>1. Init => TypeOK /\ Held /\ Whole
  BY InitTyped, InitWhole
<1>2. TypeOK /\ Held /\ Whole /\ [Next]_vars => (TypeOK /\ Held /\ Whole)'
  BY StepTyped, StepHeld, StepWhole
<1>3. Init => Atomic!AtomicInit
  BY DEF Init, Empty, Fields, Atomic!AtomicInit, Atomic!Empty
<1>4. TypeOK /\ Held /\ Whole /\ [Next]_vars
        => [Atomic!AtomicNext]_<<[f \in Fields |-> hash["case-status"]], seen>>
  BY StepAtomic
<1> QED
  BY <1>1, <1>2, <1>3, <1>4, PTL DEF Spec, ImplementsAtomic, Atomic!AtomicSpec
-----------------------------------------------------------------------------
(* A client that has read its own identifier under WATCH and whose EXEC    *)
(* would still succeed: whoever set the key since has made it dirty, so    *)
(* that the key is its own, or has expired.                                *)
Watched == \A c \in Clients : pc[c] = "exec" /\ c \notin dirty => owner \in {c, None}

(* Every command that writes the key spoils the EXEC of all the others.    *)
LEMMA StepWatched == TypeOK /\ Watched /\ [Next]_vars => Watched'
<1> SUFFICES ASSUME TypeOK, Watched, [Next]_vars PROVE Watched'
  OBVIOUS
<1> USE DEF TypeOK, Watched, Jump, infoVars, keyVars
<1>1. CASE UNCHANGED vars
  BY <1>1 DEF vars
<1>2. CASE KeyExpires
  BY <1>2 DEF KeyExpires
<1>3. ASSUME NEW c \in Clients, Call(c) PROVE Watched'
  BY <1>3 DEF Call
<1>4. ASSUME NEW c \in Clients, SetNx(c) PROVE Watched'
  BY <1>4 DEF SetNx
<1>5. ASSUME NEW c \in Clients, CheckTtl(c) PROVE Watched'
  BY <1>5 DEF CheckTtl
<1>6. ASSUME NEW c \in Clients, Expire(c) PROVE Watched'
  BY <1>6 DEF Expire
<1>7. ASSUME NEW c \in Clients, HSetFirst(c) \/ HSetSecond(c) PROVE Watched'
  BY <1>7 DEF HSetFirst, HSetSecond
<1>8. ASSUME NEW c \in Clients, HGetAll(c) \/ Delete(c) PROVE Watched'
  BY <1>8 DEF HGetAll, Delete
<1>9. ASSUME NEW c \in Clients, Watch(c) PROVE Watched'
  BY <1>9 DEF Watch
<1>10. ASSUME NEW c \in Clients, Compare(c) PROVE Watched'
  BY <1>10 DEF Compare
<1>11. ASSUME NEW c \in Clients, Exec(c) PROVE Watched'
  BY <1>11 DEF Exec
<1>12. ASSUME NEW c \in Clients, GiveUp(c) \/ HMSet(c) \/ Die(c) PROVE Watched'
  BY <1>12 DEF GiveUp, HMSet, Die
<1> QED
  BY <1>1, <1>2, <1>3, <1>4, <1>5, <1>6, <1>7, <1>8, <1>9, <1>10, <1>11, <1>12
     DEF Next, Command

(* Only Exec leads from the EXEC of release_lock back out of the call.     *)
LEMMA StepReleases ==
  ASSUME TypeOK, Watched, [Next]_vars,
         NEW c \in Clients, pc[c] = "exec", pc'[c] = "idle"
  PROVE  owner \in {c, None}
<1> USE DEF TypeOK, Jump, infoVars, keyVars
<1>1. CASE UNCHANGED vars
  BY <1>1 DEF vars
<1>2. CASE KeyExpires
  BY <1>2 DEF KeyExpires
<1>3. CASE Exec(c)
  BY <1>3 DEF Exec, Watched
<1>4. ASSUME NEW d \in Clients,
             \/ Call(d) \/ SetNx(d) \/ CheckTtl(d) \/ Expire(d) \/ GiveUp(d)
             \/ HSetFirst(d) \/ HSetSecond(d) \/ HGetAll(d) \/ Delete(d)
      PROVE  pc'[c] = "exec"
  BY <1>4 DEF Call, SetNx, CheckTtl, Expire, GiveUp, HSetFirst, HSetSecond, HGetAll, Delete
<1>5. ASSUME NEW d \in Clients, Watch(d) \/ Compare(d) \/ HMSet(d) \/ Die(d)
      PROVE  pc'[c] # "idle"
  BY <1>5 DEF Watch, Compare, HMSet, Die
<1>6. ASSUME NEW d \in Clients, Exec(d), d # c PROVE pc'[c] = "exec"
  BY <1>6 DEF Exec
<1> QED
  BY <1>1, <1>2, <1>3, <1>4, <1>5, <1>6 DEF Next, Command

(* release_lock deletes the key of its own call only: for any number of    *)
(* clients and under every perturbation, those included that make two      *)
(* clients enter at once, because WATCH comes before the comparison.       *)
THEOREM ReleasesOnlyItsOwn == Spec => ReleasesOwn
<1>1. Init => Watched
  BY DEF Init, Watched
<1>2. TypeOK /\ Watched /\ [Next]_vars => (TypeOK /\ Watched)'
  BY StepTyped, StepWatched
<1>3. TypeOK /\ Watched /\ [Next]_vars
        => [\A c \in Clients : pc[c] = "exec" /\ pc'[c] = "idle" => owner \in {c, None}]_vars
  BY StepReleases
<1> QED
  BY <1>1, <1>2, <1>3, InitTyped, PTL DEF Spec, ReleasesOwn
=============================================================================
