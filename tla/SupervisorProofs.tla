-------------------------- MODULE SupervisorProofs --------------------------
(***************************************************************************)
(* Proofs about Supervisor, for every number of calls, faults and stoppers *)
(* and for callers that do not use restart_child: IInv is inductive, hence *)
(* no worker is orphaned, and the supervisor implements WorkerLease.       *)
(***************************************************************************)
EXTENDS Supervisor, TLAPS

USE SupervisorAssumption, MaxFaultsAssumption
USE DEF vars, childVars, procVars, tenderVars, supVars, sharedVars, handleVars,
        spawnVars, stopVars, Goto, StopGoto, Owner, Spawners, Loops

-----------------------------------------------------------------------------
(* The initial states. *)

LEMMA InitIInv == Init => IInv
<1> SUFFICES ASSUME Init PROVE IInv
  OBVIOUS
<1>1. TypeOK
  <2>1. ChildTypeOK
    BY DEF Init, ChildInit, ChildTypeOK
  <2>2. child \in [Spawners -> 0 .. attempt] /\ stopChild \in [Stoppers -> 0 .. attempt]
    BY DEF Init, ChildInit
  <2>3. pc \in [Spawners -> SpawnPc]
    BY DEF Init, SpawnPc
  <2>4. stopLoop \in [Stoppers -> 0 .. MaxCalls]
    BY DEF Init
  <2>5. isShuttingDown \in BOOLEAN /\ shutdownComplete \in BOOLEAN /\ cancelled \in BOOLEAN
    BY Zenon DEF Init
  <2>6. activeChild \in 0 .. attempt /\ failures \in Nat /\ loopSlot \in 0 .. MaxCalls
        /\ calls \in 0 .. MaxCalls /\ aborted \subseteq Loops
    BY DEF Init, ChildInit
  <2>7. /\ health \in {"Initializing", "Ready", "Degraded", "Failed", "Stopped"}
        /\ op \in {"start", "restart"}
    BY DEF Init
  <2>8. stopPc \in [Stoppers -> {"idle", "join", "take", "grace", "force", "finish"}]
    BY DEF Init
  <2> QED
    BY <2>1, <2>2, <2>3, <2>4, <2>5, <2>6, <2>7, <2>8
       DEF TypeOK, SharedTypeOK, HandleTypeOK, TaskTypeOK
<1>2. OneSpawner /\ OneRegistration /\ StopsAreAnnounced /\ StartsTheNewest
  BY DEF Init, OneSpawner, OneRegistration, StopsAreAnnounced, StartsTheNewest, Busy,
         Spawners, Owner
<1>3. ReapedIsDead /\ NoOrphan /\ NewestIsRegistered /\ OneWorkerAtATime /\ OwnWorkerOnly
  BY DEF Init, ChildInit, ReapedIsDead, NoOrphan, NewestIsRegistered, OneWorkerAtATime,
         OwnWorkerOnly, Unkilled
<1> QED BY <1>1, <1>2, <1>3 DEF IInv


-----------------------------------------------------------------------------
(* What the shared pieces of the actions do. *)

LEMMA FaultInRange ==
  ASSUME ChildTypeOK, Fault
  PROVE  faults' \in 0 .. MaxFaults
BY DEF ChildTypeOK, Fault

\* A spawn adds at most one worker, with the next number, and the spawner
\* that started it holds it.
LEMMA SpawnEffect ==
  ASSUME TypeOK, NEW c \in Spawners, Spawn(c)
  PROVE  /\ attempt' = attempt + 1 /\ ChildTypeOK'
         /\ exited' = exited /\ exitPermit' = exitPermit
         /\ live' \subseteq live \cup {attempt'}
         /\ pc' \in [Spawners -> SpawnPc] /\ child' \in [Spawners -> 0 .. attempt']
         /\ \A d \in Spawners : d # c => pc'[d] = pc[d] /\ child'[d] = child[d]
         /\ pc'[c] \in {"handshake", "assign", AfterFailure(c)}
         /\ pc'[c] = "handshake" => child'[c] = attempt'
         /\ Unkilled' \subseteq Unkilled \cup {attempt'}
         /\ attempt' \in Unkilled' => pc'[c] = "handshake"
<1> USE DEF TypeOK, ChildTypeOK, TaskTypeOK, AfterFailure, SpawnPc, Attempts,
            Unkilled, KillRequested
<1>1. CASE Spawned /\ Goto(c, "handshake") /\ child' = [child EXCEPT ![c] = attempt + 1]
  BY <1>1 DEF Spawned
<1>2. CASE NotAssigned /\ Goto(c, "assign") /\ child' = [child EXCEPT ![c] = attempt + 1]
  BY <1>2, FaultInRange DEF NotAssigned
<1>3. CASE NotSpawned /\ Goto(c, AfterFailure(c)) /\ child' = [child EXCEPT ![c] = 0]
  BY <1>3, FaultInRange DEF NotSpawned
<1> QED
  BY <1>1, <1>2, <1>3 DEF Spawn

\* When nobody has a worker in hand, none is running unless on its way out.
LEMMA NothingLeft ==
  ASSUME NoOrphan, activeChild = 0, TypeOK,
         \A d \in Spawners : pc[d] \notin {"handshake", "publish", "store"},
         \A s \in Stoppers : stopPc[s] # "grace"
  PROVE  Unkilled = {}
<1>1. \A w \in Unkilled : w # 0
  BY DEF TypeOK, ChildTypeOK, Unkilled, Attempts
<1> QED
  BY <1>1 DEF NoOrphan, Holds, Taken


-----------------------------------------------------------------------------
(* Steps of a worker and of the tasks that tend it. *)

LEMMA ChildIInv ==
  ASSUME IInv, NEW w \in Attempts, ChildStep(w)
  PROVE  IInv'
<1> USE DEF ChildStep, ChildNext, WorkerReady, WorkerCrash, WorkerHang, WorkerLeaves,
            KilledWorkerDies, WaitTaskPolled, WaitTaskKills, WaitTaskReaps,
            WatchdogFires, DecodeOverruns, NotifyKill, NotifyKillWaiters, AwaitsKill
<1>1. TypeOK'
  <2>1. ChildTypeOK'
    <3> USE DEF IInv, TypeOK, ChildTypeOK, Attempts
    <3>1. CASE WorkerReady(w) \/ WorkerHang(w) \/ WorkerCrash(w)
      BY <3>1, FaultInRange
    <3>2. CASE WorkerLeaves(w) \/ KilledWorkerDies(w) \/ WaitTaskPolled(w)
      BY <3>2
    <3>3. CASE WaitTaskKills(w) \/ WaitTaskReaps(w)
      BY <3>3
    <3>4. CASE WatchdogFires(w) \/ DecodeOverruns(w)
      BY <3>4, FaultInRange
    <3> QED
      BY <3>1, <3>2, <3>3, <3>4
  <2>2. SharedTypeOK' /\ HandleTypeOK' /\ TaskTypeOK'
    BY DEF IInv, TypeOK, SharedTypeOK, HandleTypeOK, TaskTypeOK
  <2> QED
    BY <2>1, <2>2 DEF TypeOK
<1>2. attempt' = attempt /\ UNCHANGED supVars
  OBVIOUS
<1>3. Unkilled' \subseteq Unkilled
  BY DEF Unkilled, KillRequested
<1>4. ReapedIsDead'
  BY DEF IInv, ReapedIsDead
<1>5. OneSpawner' /\ OneRegistration' /\ StopsAreAnnounced' /\ StartsTheNewest'
      /\ NewestIsRegistered'
  BY <1>2 DEF IInv, OneSpawner, OneRegistration, StopsAreAnnounced, StartsTheNewest,
              NewestIsRegistered, Busy, Attempts
<1>6. NoOrphan' /\ OneWorkerAtATime' /\ OwnWorkerOnly'
  BY <1>2, <1>3 DEF IInv, NoOrphan, OneWorkerAtATime, OwnWorkerOnly, Holds, Taken, Busy
<1> QED
  BY <1>1, <1>4, <1>5, <1>6 DEF IInv

-----------------------------------------------------------------------------
(* Steps of a task that starts a worker. *)

LEMMA AssignmentReapedIInv ==
  ASSUME IInv, NEW c \in Spawners, AssignmentReaped(c)
  PROVE  IInv'
<1> USE DEF AssignmentReaped, AfterFailure
<1>1. TypeOK'
  <2>1. ChildTypeOK'
    BY DEF IInv, TypeOK, ChildTypeOK, Attempts, TaskTypeOK, SharedTypeOK, StartsTheNewest, StopsAreAnnounced
  <2>2. SharedTypeOK' /\ HandleTypeOK'
    BY DEF IInv, TypeOK, ChildTypeOK, SharedTypeOK, HandleTypeOK, TaskTypeOK
  <2>3. TaskTypeOK'
    BY DEF IInv, TypeOK, ChildTypeOK, SharedTypeOK, HandleTypeOK, TaskTypeOK, SpawnPc
  <2> QED
    BY <2>1, <2>2, <2>3 DEF TypeOK
<1>2. OneSpawner' /\ OneRegistration' /\ StopsAreAnnounced' /\ StartsTheNewest'
  BY DEF IInv, TypeOK, TaskTypeOK, HandleTypeOK, OneSpawner, OneRegistration, StopsAreAnnounced, StartsTheNewest, Busy, Attempts
<1>3. ReapedIsDead' /\ NewestIsRegistered'
  BY DEF IInv, ReapedIsDead, NewestIsRegistered, TypeOK, TaskTypeOK, StartsTheNewest
<1>4. NoOrphan'
  BY DEF IInv, TypeOK, ChildTypeOK, TaskTypeOK, NoOrphan, Unkilled, KillRequested, Holds, Taken, ReapedIsDead, OneSpawner, OneRegistration, Busy, Attempts
<1>5. OneWorkerAtATime'
  BY DEF IInv, OneWorkerAtATime, Unkilled, KillRequested
<1>6. OwnWorkerOnly'
  BY DEF IInv, TypeOK, ChildTypeOK, TaskTypeOK, OwnWorkerOnly, OneSpawner, OneRegistration, ReapedIsDead,
         Unkilled, KillRequested, Busy, Attempts
<1> QED
  BY <1>1, <1>2, <1>3, <1>4, <1>5, <1>6 DEF IInv

LEMMA HandshakeReadyIInv ==
  ASSUME IInv, NEW c \in Spawners, HandshakeReady(c)
  PROVE  IInv'
<1> USE DEF HandshakeReady
<1>1. TypeOK'
  <2>1. ChildTypeOK'
    BY DEF IInv, TypeOK, ChildTypeOK, Attempts, TaskTypeOK, SharedTypeOK, StartsTheNewest, StopsAreAnnounced
  <2>2. SharedTypeOK' /\ HandleTypeOK'
    BY DEF IInv, TypeOK, ChildTypeOK, SharedTypeOK, HandleTypeOK, TaskTypeOK
  <2>3. TaskTypeOK'
    BY DEF IInv, TypeOK, ChildTypeOK, SharedTypeOK, HandleTypeOK, TaskTypeOK, SpawnPc
  <2> QED
    BY <2>1, <2>2, <2>3 DEF TypeOK
<1>2. OneSpawner' /\ OneRegistration' /\ StopsAreAnnounced' /\ StartsTheNewest'
  BY DEF IInv, TypeOK, TaskTypeOK, HandleTypeOK, OneSpawner, OneRegistration, StopsAreAnnounced, StartsTheNewest, Busy, Attempts
<1>3. ReapedIsDead' /\ NewestIsRegistered'
  BY DEF IInv, ReapedIsDead, NewestIsRegistered, TypeOK, TaskTypeOK, StartsTheNewest
<1>4. NoOrphan'
  BY DEF IInv, TypeOK, ChildTypeOK, TaskTypeOK, NoOrphan, Unkilled, KillRequested, Holds, Taken, ReapedIsDead, OneSpawner, OneRegistration, Busy, Attempts
<1>5. OneWorkerAtATime'
  BY DEF IInv, OneWorkerAtATime, Unkilled, KillRequested
<1>6. OwnWorkerOnly'
  BY DEF IInv, TypeOK, ChildTypeOK, TaskTypeOK, OwnWorkerOnly, OneSpawner, OneRegistration, ReapedIsDead,
         Unkilled, KillRequested, Busy, Attempts
<1> QED
  BY <1>1, <1>2, <1>3, <1>4, <1>5, <1>6 DEF IInv

LEMMA HandshakeExitedIInv ==
  ASSUME IInv, NEW c \in Spawners, HandshakeExited(c)
  PROVE  IInv'
<1> USE DEF HandshakeExited, AfterFailure, NotifyKill
<1>1. TypeOK'
  <2>1. ChildTypeOK'
    BY DEF IInv, TypeOK, ChildTypeOK, Attempts, TaskTypeOK, SharedTypeOK, StartsTheNewest, StopsAreAnnounced
  <2>2. SharedTypeOK' /\ HandleTypeOK'
    BY DEF IInv, TypeOK, ChildTypeOK, SharedTypeOK, HandleTypeOK, TaskTypeOK
  <2>3. TaskTypeOK'
    BY DEF IInv, TypeOK, ChildTypeOK, SharedTypeOK, HandleTypeOK, TaskTypeOK, SpawnPc
  <2> QED
    BY <2>1, <2>2, <2>3 DEF TypeOK
<1>2. OneSpawner' /\ OneRegistration' /\ StopsAreAnnounced' /\ StartsTheNewest'
  BY DEF IInv, TypeOK, TaskTypeOK, HandleTypeOK, OneSpawner, OneRegistration, StopsAreAnnounced, StartsTheNewest, Busy, Attempts
<1>3. ReapedIsDead' /\ NewestIsRegistered'
  BY DEF IInv, ReapedIsDead, NewestIsRegistered, TypeOK, TaskTypeOK, StartsTheNewest
<1>4. NoOrphan'
  BY DEF IInv, TypeOK, ChildTypeOK, TaskTypeOK, NoOrphan, Unkilled, KillRequested, Holds, Taken, ReapedIsDead, OneSpawner, OneRegistration, Busy, Attempts
<1>5. OneWorkerAtATime'
  BY DEF IInv, OneWorkerAtATime, Unkilled, KillRequested
<1>6. OwnWorkerOnly'
  BY DEF IInv, TypeOK, ChildTypeOK, TaskTypeOK, OwnWorkerOnly, OneSpawner, OneRegistration, ReapedIsDead,
         Unkilled, KillRequested, Busy, Attempts
<1> QED
  BY <1>1, <1>2, <1>3, <1>4, <1>5, <1>6 DEF IInv

LEMMA HandshakeStallsIInv ==
  ASSUME IInv, NEW c \in Spawners, HandshakeStalls(c)
  PROVE  IInv'
<1> USE DEF HandshakeStalls, AfterFailure, NotifyKill
<1>1. TypeOK'
  <2>1. ChildTypeOK'
    BY FaultInRange DEF IInv, TypeOK, ChildTypeOK, Attempts, TaskTypeOK, SharedTypeOK, StartsTheNewest, StopsAreAnnounced
  <2>2. SharedTypeOK' /\ HandleTypeOK'
    BY DEF IInv, TypeOK, ChildTypeOK, SharedTypeOK, HandleTypeOK, TaskTypeOK
  <2>3. TaskTypeOK'
    BY DEF IInv, TypeOK, ChildTypeOK, SharedTypeOK, HandleTypeOK, TaskTypeOK, SpawnPc
  <2> QED
    BY <2>1, <2>2, <2>3 DEF TypeOK
<1>2. OneSpawner' /\ OneRegistration' /\ StopsAreAnnounced' /\ StartsTheNewest'
  BY DEF IInv, TypeOK, TaskTypeOK, HandleTypeOK, OneSpawner, OneRegistration, StopsAreAnnounced, StartsTheNewest, Busy, Attempts
<1>3. ReapedIsDead' /\ NewestIsRegistered'
  BY DEF IInv, ReapedIsDead, NewestIsRegistered, TypeOK, TaskTypeOK, StartsTheNewest
<1>4. NoOrphan'
  BY DEF IInv, TypeOK, ChildTypeOK, TaskTypeOK, NoOrphan, Unkilled, KillRequested, Holds, Taken, ReapedIsDead, OneSpawner, OneRegistration, Busy, Attempts
<1>5. OneWorkerAtATime'
  BY DEF IInv, OneWorkerAtATime, Unkilled, KillRequested
<1>6. OwnWorkerOnly'
  BY DEF IInv, TypeOK, ChildTypeOK, TaskTypeOK, OwnWorkerOnly, OneSpawner, OneRegistration, ReapedIsDead,
         Unkilled, KillRequested, Busy, Attempts
<1> QED
  BY <1>1, <1>2, <1>3, <1>4, <1>5, <1>6 DEF IInv

LEMMA HandshakeCancelledIInv ==
  ASSUME IInv, NEW c \in Spawners, HandshakeCancelled(c)
  PROVE  IInv'
<1> USE DEF HandshakeCancelled, NotifyKill
<1>1. TypeOK'
  <2>1. ChildTypeOK'
    BY FaultInRange DEF IInv, TypeOK, ChildTypeOK, Attempts, TaskTypeOK, SharedTypeOK, StartsTheNewest, StopsAreAnnounced
  <2>2. SharedTypeOK' /\ HandleTypeOK'
    BY DEF IInv, TypeOK, ChildTypeOK, SharedTypeOK, HandleTypeOK, TaskTypeOK
  <2>3. TaskTypeOK'
    BY DEF IInv, TypeOK, ChildTypeOK, SharedTypeOK, HandleTypeOK, TaskTypeOK, SpawnPc
  <2> QED
    BY <2>1, <2>2, <2>3 DEF TypeOK
<1>2. OneSpawner' /\ OneRegistration' /\ StopsAreAnnounced' /\ StartsTheNewest'
  BY DEF IInv, TypeOK, TaskTypeOK, HandleTypeOK, OneSpawner, OneRegistration, StopsAreAnnounced, StartsTheNewest, Busy, Attempts
<1>3. ReapedIsDead' /\ NewestIsRegistered'
  BY DEF IInv, ReapedIsDead, NewestIsRegistered, TypeOK, TaskTypeOK, StartsTheNewest
<1>4. NoOrphan'
  BY DEF IInv, TypeOK, ChildTypeOK, TaskTypeOK, NoOrphan, Unkilled, KillRequested, Holds, Taken, ReapedIsDead, OneSpawner, OneRegistration, Busy, Attempts
<1>5. OneWorkerAtATime'
  BY DEF IInv, OneWorkerAtATime, Unkilled, KillRequested
<1>6. OwnWorkerOnly'
  BY DEF IInv, TypeOK, ChildTypeOK, TaskTypeOK, OwnWorkerOnly, OneSpawner, OneRegistration, ReapedIsDead,
         Unkilled, KillRequested, Busy, Attempts
<1> QED
  BY <1>1, <1>2, <1>3, <1>4, <1>5, <1>6 DEF IInv

LEMMA SpawnerReapsIInv ==
  ASSUME IInv, NEW c \in Spawners, SpawnerReaps(c)
  PROVE  IInv'
<1> USE DEF SpawnerReaps, AfterFailure
<1>1. TypeOK'
  <2>1. ChildTypeOK'
    BY DEF IInv, TypeOK, ChildTypeOK, Attempts, TaskTypeOK, SharedTypeOK, StartsTheNewest, StopsAreAnnounced
  <2>2. SharedTypeOK' /\ HandleTypeOK'
    BY DEF IInv, TypeOK, ChildTypeOK, SharedTypeOK, HandleTypeOK, TaskTypeOK
  <2>3. TaskTypeOK'
    BY DEF IInv, TypeOK, ChildTypeOK, SharedTypeOK, HandleTypeOK, TaskTypeOK, SpawnPc
  <2> QED
    BY <2>1, <2>2, <2>3 DEF TypeOK
<1>2. OneSpawner' /\ OneRegistration' /\ StopsAreAnnounced' /\ StartsTheNewest'
  BY DEF IInv, TypeOK, TaskTypeOK, HandleTypeOK, OneSpawner, OneRegistration, StopsAreAnnounced, StartsTheNewest, Busy, Attempts
<1>3. ReapedIsDead' /\ NewestIsRegistered'
  BY DEF IInv, ReapedIsDead, NewestIsRegistered, TypeOK, TaskTypeOK, StartsTheNewest
<1>4. NoOrphan'
  BY DEF IInv, TypeOK, ChildTypeOK, TaskTypeOK, NoOrphan, Unkilled, KillRequested, Holds, Taken, ReapedIsDead, OneSpawner, OneRegistration, Busy, Attempts
<1>5. OneWorkerAtATime'
  BY DEF IInv, OneWorkerAtATime, Unkilled, KillRequested
<1>6. OwnWorkerOnly'
  BY DEF IInv, TypeOK, ChildTypeOK, TaskTypeOK, OwnWorkerOnly, OneSpawner, OneRegistration, ReapedIsDead,
         Unkilled, KillRequested, Busy, Attempts
<1> QED
  BY <1>1, <1>2, <1>3, <1>4, <1>5, <1>6 DEF IInv

LEMMA PublishReadyIInv ==
  ASSUME IInv, NEW c \in Spawners, PublishReady(c)
  PROVE  IInv'
<1> USE DEF PublishReady
<1>1. TypeOK'
  <2>1. ChildTypeOK'
    BY DEF IInv, TypeOK, ChildTypeOK, Attempts, TaskTypeOK, SharedTypeOK, StartsTheNewest, StopsAreAnnounced
  <2>2. SharedTypeOK' /\ HandleTypeOK'
    BY DEF IInv, TypeOK, ChildTypeOK, SharedTypeOK, HandleTypeOK, TaskTypeOK
  <2>3. TaskTypeOK'
    BY DEF IInv, TypeOK, ChildTypeOK, SharedTypeOK, HandleTypeOK, TaskTypeOK, SpawnPc
  <2> QED
    BY <2>1, <2>2, <2>3 DEF TypeOK
<1>2. OneSpawner' /\ OneRegistration' /\ StopsAreAnnounced' /\ StartsTheNewest'
  BY DEF IInv, TypeOK, TaskTypeOK, HandleTypeOK, OneSpawner, OneRegistration, StopsAreAnnounced, StartsTheNewest, Busy, Attempts
<1>3. ReapedIsDead' /\ NewestIsRegistered'
  BY DEF IInv, ReapedIsDead, NewestIsRegistered, TypeOK, TaskTypeOK, StartsTheNewest
<1>4. NoOrphan'
  BY DEF IInv, TypeOK, ChildTypeOK, TaskTypeOK, NoOrphan, Unkilled, KillRequested, Holds, Taken, ReapedIsDead, OneSpawner, OneRegistration, Busy, Attempts
<1>5. OneWorkerAtATime'
  BY DEF IInv, OneWorkerAtATime, Unkilled, KillRequested
<1>6. OwnWorkerOnly'
  BY DEF IInv, TypeOK, ChildTypeOK, TaskTypeOK, OwnWorkerOnly, OneSpawner, OneRegistration, ReapedIsDead,
         Unkilled, KillRequested, Busy, Attempts
<1> QED
  BY <1>1, <1>2, <1>3, <1>4, <1>5, <1>6 DEF IInv

-----------------------------------------------------------------------------
(* Steps of the owner. *)

LEMMA StartCallIInv ==
  ASSUME IInv, StartCall
  PROVE  IInv'
<1>1. TypeOK /\ Owner \in Spawners /\ Spawn(Owner)
  BY DEF IInv, StartCall
<1>2. calls' \in Loops /\ pc[Owner] = "idle" /\ activeChild = 0 /\ activeChild' = 0
  BY DEF StartCall, OwnerFree, IInv, TypeOK, HandleTypeOK
<1>3. \A l \in Loops : pc'[l] = pc[l] /\ ~Busy(l)
  BY <1>1, SpawnEffect DEF StartCall, LoopsQuiet, Busy
<1>4. \A s \in Stoppers : stopPc[s] = "idle" /\ stopPc'[s] = "idle"
  BY DEF StartCall, OwnerFree
<1>5. Unkilled = {}
  BY <1>1, <1>2, <1>3, <1>4, NothingLeft DEF IInv, Busy
<1>6. TypeOK'
  <2>1. HandleTypeOK'
    <3>1. calls' \in 0 .. MaxCalls /\ op' = "start"
      BY <1>2 DEF StartCall
    <3>2. loopSlot' = loopSlot /\ aborted' = aborted /\ HandleTypeOK
      BY <1>1 DEF StartCall, TypeOK
    <3> QED
      BY <3>1, <3>2 DEF HandleTypeOK
  <2>2. SharedTypeOK'
    <3>1. activeChild' \in 0 .. attempt'
      BY <1>1, <1>2, SpawnEffect DEF TypeOK, ChildTypeOK
    <3> QED
      BY <1>1, <3>1 DEF StartCall, TypeOK, SharedTypeOK
  <2>3. TaskTypeOK'
    BY <1>1, SpawnEffect DEF StartCall, TypeOK, ChildTypeOK, TaskTypeOK
  <2> QED
    BY <1>1, <2>1, <2>2, <2>3, SpawnEffect DEF TypeOK
<1>7. OneSpawner' /\ OneRegistration'
  <2>1. \A c, d \in Spawners : Busy(c)' /\ Busy(d)' => c = d
    BY <1>3 DEF Busy
  <2>2. pc'[Owner] \in {"handshake", "assign", "idle"}
    BY <1>1, SpawnEffect DEF AfterFailure
  <2> QED
    BY <1>2, <1>4, <2>1, <2>2, <1>3 DEF OneSpawner, OneRegistration, StartCall, Busy
<1>8. StopsAreAnnounced' /\ NewestIsRegistered'
  BY <1>2, <1>4 DEF StopsAreAnnounced, NewestIsRegistered
<1>9. StartsTheNewest' /\ ReapedIsDead'
  <2>1. StartsTheNewest'
    BY <1>1, <1>3, SpawnEffect
       DEF StartsTheNewest, Busy, AfterFailure, TypeOK, ChildTypeOK, Attempts
  <2>2. ReapedIsDead'
    BY <1>1, SpawnEffect DEF IInv, ReapedIsDead, TypeOK, ChildTypeOK, Attempts
  <2> QED
    BY <2>1, <2>2
<1>10. NoOrphan' /\ OneWorkerAtATime'
  BY <1>1, <1>5, SpawnEffect DEF NoOrphan, OneWorkerAtATime, Holds
<1>11. OwnWorkerOnly'
  <2>1. \A w \in Unkilled' : w = attempt' /\ pc'[Owner] = "handshake" /\ child'[Owner] = w
    BY <1>1, <1>5, SpawnEffect
  <2>2. \A c \in Spawners : Busy(c)' => c = Owner
    BY <1>3 DEF Busy
  <2> QED
    BY <2>1, <2>2 DEF OwnWorkerOnly
<1> QED
  BY <1>6, <1>7, <1>8, <1>9, <1>10, <1>11 DEF IInv

LEMMA StartStoresIInv ==
  ASSUME IInv, StartStores
  PROVE  IInv'
<1> USE DEF StartStores
<1>1. TypeOK'
  <2>1. ChildTypeOK'
    BY DEF IInv, TypeOK, ChildTypeOK, Attempts, TaskTypeOK, SharedTypeOK, StartsTheNewest, StopsAreAnnounced
  <2>2. SharedTypeOK' /\ HandleTypeOK'
    BY DEF IInv, TypeOK, ChildTypeOK, SharedTypeOK, HandleTypeOK, TaskTypeOK
  <2>3. TaskTypeOK'
    BY DEF IInv, TypeOK, ChildTypeOK, SharedTypeOK, HandleTypeOK, TaskTypeOK, SpawnPc
  <2> QED
    BY <2>1, <2>2, <2>3 DEF TypeOK
<1>2. OneSpawner' /\ OneRegistration' /\ StopsAreAnnounced' /\ StartsTheNewest'
  BY DEF IInv, TypeOK, TaskTypeOK, HandleTypeOK, OneSpawner, OneRegistration, StopsAreAnnounced, StartsTheNewest, Busy, Attempts
<1>3. ReapedIsDead' /\ NewestIsRegistered'
  BY DEF IInv, ReapedIsDead, NewestIsRegistered, TypeOK, TaskTypeOK, StartsTheNewest
<1>4. NoOrphan'
  BY DEF IInv, TypeOK, ChildTypeOK, TaskTypeOK, NoOrphan, Unkilled, KillRequested, Holds, Taken, ReapedIsDead, OneSpawner, OneRegistration, Busy, Attempts
<1>5. OneWorkerAtATime'
  BY DEF IInv, OneWorkerAtATime, Unkilled, KillRequested
<1>6. OwnWorkerOnly'
  BY DEF IInv, TypeOK, ChildTypeOK, TaskTypeOK, OwnWorkerOnly, OneSpawner, OneRegistration, ReapedIsDead,
         Unkilled, KillRequested, Busy, Attempts
<1> QED
  BY <1>1, <1>2, <1>3, <1>4, <1>5, <1>6 DEF IInv

LEMMA CancelTokenIInv ==
  ASSUME IInv, CancelToken
  PROVE  IInv'
<1> USE DEF CancelToken
<1>1. TypeOK'
  <2>1. ChildTypeOK'
    BY DEF IInv, TypeOK, ChildTypeOK, Attempts, TaskTypeOK, SharedTypeOK, StartsTheNewest, StopsAreAnnounced
  <2>2. SharedTypeOK' /\ HandleTypeOK'
    BY DEF IInv, TypeOK, ChildTypeOK, SharedTypeOK, HandleTypeOK, TaskTypeOK
  <2>3. TaskTypeOK'
    BY DEF IInv, TypeOK, ChildTypeOK, SharedTypeOK, HandleTypeOK, TaskTypeOK, SpawnPc
  <2> QED
    BY <2>1, <2>2, <2>3 DEF TypeOK
<1>2. OneSpawner' /\ OneRegistration' /\ StopsAreAnnounced' /\ StartsTheNewest'
  BY DEF IInv, TypeOK, TaskTypeOK, HandleTypeOK, OneSpawner, OneRegistration, StopsAreAnnounced, StartsTheNewest, Busy, Attempts
<1>3. ReapedIsDead' /\ NewestIsRegistered'
  BY DEF IInv, ReapedIsDead, NewestIsRegistered, TypeOK, TaskTypeOK, StartsTheNewest
<1>4. NoOrphan'
  BY DEF IInv, TypeOK, ChildTypeOK, TaskTypeOK, NoOrphan, Unkilled, KillRequested, Holds, Taken, ReapedIsDead, OneSpawner, OneRegistration, Busy, Attempts
<1>5. OneWorkerAtATime'
  BY DEF IInv, OneWorkerAtATime, Unkilled, KillRequested
<1>6. OwnWorkerOnly'
  BY DEF IInv, TypeOK, ChildTypeOK, TaskTypeOK, OwnWorkerOnly, OneSpawner, OneRegistration, ReapedIsDead,
         Unkilled, KillRequested, Busy, Attempts
<1> QED
  BY <1>1, <1>2, <1>3, <1>4, <1>5, <1>6 DEF IInv

-----------------------------------------------------------------------------
(* Steps of the monitor loop. *)

LEMMA LoopCancelledIInv ==
  ASSUME IInv, NEW l \in Loops, LoopCancelled(l)
  PROVE  IInv'
<1> USE DEF LoopCancelled
<1>1. TypeOK'
  <2>1. ChildTypeOK'
    BY DEF IInv, TypeOK, ChildTypeOK, Attempts, TaskTypeOK, SharedTypeOK, StartsTheNewest, StopsAreAnnounced
  <2>2. SharedTypeOK' /\ HandleTypeOK'
    BY DEF IInv, TypeOK, ChildTypeOK, SharedTypeOK, HandleTypeOK, TaskTypeOK
  <2>3. TaskTypeOK'
    BY DEF IInv, TypeOK, ChildTypeOK, SharedTypeOK, HandleTypeOK, TaskTypeOK, SpawnPc
  <2> QED
    BY <2>1, <2>2, <2>3 DEF TypeOK
<1>2. OneSpawner' /\ OneRegistration' /\ StopsAreAnnounced' /\ StartsTheNewest'
  BY DEF IInv, TypeOK, TaskTypeOK, HandleTypeOK, OneSpawner, OneRegistration, StopsAreAnnounced, StartsTheNewest, Busy, Attempts
<1>3. ReapedIsDead' /\ NewestIsRegistered'
  BY DEF IInv, ReapedIsDead, NewestIsRegistered, TypeOK, TaskTypeOK, StartsTheNewest
<1>4. NoOrphan'
  BY DEF IInv, TypeOK, ChildTypeOK, TaskTypeOK, NoOrphan, Unkilled, KillRequested, Holds, Taken, ReapedIsDead, OneSpawner, OneRegistration, Busy, Attempts
<1>5. OneWorkerAtATime'
  BY DEF IInv, OneWorkerAtATime, Unkilled, KillRequested
<1>6. OwnWorkerOnly'
  BY DEF IInv, TypeOK, ChildTypeOK, TaskTypeOK, OwnWorkerOnly, OneSpawner, OneRegistration, ReapedIsDead,
         Unkilled, KillRequested, Busy, Attempts
<1> QED
  BY <1>1, <1>2, <1>3, <1>4, <1>5, <1>6 DEF IInv

LEMMA LoopSeesExitIInv ==
  ASSUME IInv, NEW l \in Loops, LoopSeesExit(l)
  PROVE  IInv'
<1> USE DEF LoopSeesExit
<1>1. TypeOK'
  <2>1. ChildTypeOK'
    BY DEF IInv, TypeOK, ChildTypeOK, Attempts, TaskTypeOK, SharedTypeOK, StartsTheNewest, StopsAreAnnounced
  <2>2. SharedTypeOK' /\ HandleTypeOK'
    BY DEF IInv, TypeOK, ChildTypeOK, SharedTypeOK, HandleTypeOK, TaskTypeOK
  <2>3. TaskTypeOK'
    BY DEF IInv, TypeOK, ChildTypeOK, SharedTypeOK, HandleTypeOK, TaskTypeOK, SpawnPc
  <2> QED
    BY <2>1, <2>2, <2>3 DEF TypeOK
<1>2. OneSpawner' /\ OneRegistration' /\ StopsAreAnnounced' /\ StartsTheNewest'
  BY DEF IInv, TypeOK, TaskTypeOK, HandleTypeOK, OneSpawner, OneRegistration, StopsAreAnnounced, StartsTheNewest, Busy, Attempts
<1>3. ReapedIsDead' /\ NewestIsRegistered'
  BY DEF IInv, ReapedIsDead, NewestIsRegistered, TypeOK, TaskTypeOK, StartsTheNewest
<1>4. NoOrphan'
  BY DEF IInv, TypeOK, ChildTypeOK, TaskTypeOK, NoOrphan, Unkilled, KillRequested, Holds, Taken, ReapedIsDead, OneSpawner, OneRegistration, Busy, Attempts
<1>5. OneWorkerAtATime'
  BY DEF IInv, OneWorkerAtATime, Unkilled, KillRequested
<1>6. OwnWorkerOnly'
  BY DEF IInv, TypeOK, ChildTypeOK, TaskTypeOK, OwnWorkerOnly, OneSpawner, OneRegistration, ReapedIsDead,
         Unkilled, KillRequested, Busy, Attempts
<1> QED
  BY <1>1, <1>2, <1>3, <1>4, <1>5, <1>6 DEF IInv

LEMMA LoopUnregistersIInv ==
  ASSUME IInv, NEW l \in Loops, LoopUnregisters(l)
  PROVE  IInv'
<1> USE DEF LoopUnregisters
<1>1. TypeOK'
  <2>1. ChildTypeOK'
    BY DEF IInv, TypeOK, ChildTypeOK, Attempts, TaskTypeOK, SharedTypeOK, StartsTheNewest, StopsAreAnnounced
  <2>2. SharedTypeOK' /\ HandleTypeOK'
    BY DEF IInv, TypeOK, ChildTypeOK, SharedTypeOK, HandleTypeOK, TaskTypeOK
  <2>3. TaskTypeOK'
    BY DEF IInv, TypeOK, ChildTypeOK, SharedTypeOK, HandleTypeOK, TaskTypeOK, SpawnPc
  <2> QED
    BY <2>1, <2>2, <2>3 DEF TypeOK
<1>2. OneSpawner' /\ OneRegistration' /\ StopsAreAnnounced' /\ StartsTheNewest'
  BY DEF IInv, TypeOK, TaskTypeOK, HandleTypeOK, OneSpawner, OneRegistration, StopsAreAnnounced, StartsTheNewest, Busy, Attempts
<1>3. ReapedIsDead' /\ NewestIsRegistered'
  BY DEF IInv, ReapedIsDead, NewestIsRegistered, TypeOK, TaskTypeOK, StartsTheNewest
<1>4. NoOrphan'
  <2>1. Unkilled' = {}
    BY DEF IInv, OwnWorkerOnly, Busy, Unkilled, KillRequested
  <2> QED
    BY <2>1 DEF NoOrphan
<1>5. OneWorkerAtATime'
  BY DEF IInv, OneWorkerAtATime, Unkilled, KillRequested
<1>6. OwnWorkerOnly'
  BY DEF IInv, TypeOK, ChildTypeOK, TaskTypeOK, OwnWorkerOnly, OneSpawner, OneRegistration, ReapedIsDead,
         Unkilled, KillRequested, Busy, Attempts
<1> QED
  BY <1>1, <1>2, <1>3, <1>4, <1>5, <1>6 DEF IInv

LEMMA LoopRecordsFailureIInv ==
  ASSUME IInv, NEW l \in Loops, LoopRecordsFailure(l)
  PROVE  IInv'
<1> USE DEF LoopRecordsFailure
<1>1. TypeOK'
  <2>1. ChildTypeOK'
    BY DEF IInv, TypeOK, ChildTypeOK, Attempts, TaskTypeOK, SharedTypeOK, StartsTheNewest, StopsAreAnnounced
  <2>2. SharedTypeOK' /\ HandleTypeOK'
    BY DEF IInv, TypeOK, ChildTypeOK, SharedTypeOK, HandleTypeOK, TaskTypeOK
  <2>3. TaskTypeOK'
    BY DEF IInv, TypeOK, ChildTypeOK, SharedTypeOK, HandleTypeOK, TaskTypeOK, SpawnPc
  <2> QED
    BY <2>1, <2>2, <2>3 DEF TypeOK
<1>2. OneSpawner' /\ OneRegistration' /\ StopsAreAnnounced' /\ StartsTheNewest'
  BY DEF IInv, TypeOK, TaskTypeOK, HandleTypeOK, OneSpawner, OneRegistration, StopsAreAnnounced, StartsTheNewest, Busy, Attempts
<1>3. ReapedIsDead' /\ NewestIsRegistered'
  BY DEF IInv, ReapedIsDead, NewestIsRegistered, TypeOK, TaskTypeOK, StartsTheNewest
<1>4. NoOrphan'
  BY DEF IInv, TypeOK, ChildTypeOK, TaskTypeOK, NoOrphan, Unkilled, KillRequested, Holds, Taken, ReapedIsDead, OneSpawner, OneRegistration, Busy, Attempts
<1>5. OneWorkerAtATime'
  BY DEF IInv, OneWorkerAtATime, Unkilled, KillRequested
<1>6. OwnWorkerOnly'
  BY DEF IInv, TypeOK, ChildTypeOK, TaskTypeOK, OwnWorkerOnly, OneSpawner, OneRegistration, ReapedIsDead,
         Unkilled, KillRequested, Busy, Attempts
<1> QED
  BY <1>1, <1>2, <1>3, <1>4, <1>5, <1>6 DEF IInv

LEMMA BackoffElapsesIInv ==
  ASSUME IInv, NEW l \in Loops, BackoffElapses(l)
  PROVE  IInv'
<1> USE DEF BackoffElapses
<1>1. TypeOK'
  <2>1. ChildTypeOK'
    BY DEF IInv, TypeOK, ChildTypeOK, Attempts, TaskTypeOK, SharedTypeOK, StartsTheNewest, StopsAreAnnounced
  <2>2. SharedTypeOK' /\ HandleTypeOK'
    BY DEF IInv, TypeOK, ChildTypeOK, SharedTypeOK, HandleTypeOK, TaskTypeOK
  <2>3. TaskTypeOK'
    BY DEF IInv, TypeOK, ChildTypeOK, SharedTypeOK, HandleTypeOK, TaskTypeOK, SpawnPc
  <2> QED
    BY <2>1, <2>2, <2>3 DEF TypeOK
<1>2. OneSpawner' /\ OneRegistration' /\ StopsAreAnnounced' /\ StartsTheNewest'
  BY DEF IInv, TypeOK, TaskTypeOK, HandleTypeOK, OneSpawner, OneRegistration, StopsAreAnnounced, StartsTheNewest, Busy, Attempts
<1>3. ReapedIsDead' /\ NewestIsRegistered'
  BY DEF IInv, ReapedIsDead, NewestIsRegistered, TypeOK, TaskTypeOK, StartsTheNewest
<1>4. NoOrphan'
  BY DEF IInv, TypeOK, ChildTypeOK, TaskTypeOK, NoOrphan, Unkilled, KillRequested, Holds, Taken, ReapedIsDead, OneSpawner, OneRegistration, Busy, Attempts
<1>5. OneWorkerAtATime'
  BY DEF IInv, OneWorkerAtATime, Unkilled, KillRequested
<1>6. OwnWorkerOnly'
  BY DEF IInv, TypeOK, ChildTypeOK, TaskTypeOK, OwnWorkerOnly, OneSpawner, OneRegistration, ReapedIsDead,
         Unkilled, KillRequested, Busy, Attempts
<1> QED
  BY <1>1, <1>2, <1>3, <1>4, <1>5, <1>6 DEF IInv

LEMMA LoopRespawnsIInv ==
  ASSUME IInv, NEW l \in Loops, LoopRespawns(l)
  PROVE  IInv'
<1>1. /\ TypeOK /\ l \in Spawners /\ l # Owner /\ Spawn(l)
      /\ UNCHANGED <<sharedVars, handleVars, stopVars>> /\ pc[l] = "respawn"
  BY DEF IInv, LoopRespawns
<1>2. \A c \in Spawners : c # l => ~Busy(c) /\ pc'[c] = pc[c] /\ child'[c] = child[c]
  BY <1>1, SpawnEffect DEF IInv, OneSpawner, Busy
<1>3. activeChild = 0
  BY <1>1 DEF IInv, OneRegistration, Busy
<1>4. Unkilled = {}
  BY <1>1 DEF IInv, OwnWorkerOnly, Busy
<1>5. TypeOK'
  <2>1. SharedTypeOK' /\ HandleTypeOK'
    BY <1>1, SpawnEffect DEF TypeOK, ChildTypeOK, SharedTypeOK, HandleTypeOK
  <2>2. TaskTypeOK'
    BY <1>1, SpawnEffect DEF TypeOK, ChildTypeOK, TaskTypeOK
  <2> QED
    BY <1>1, <2>1, <2>2, SpawnEffect DEF TypeOK
<1>6. OneSpawner' /\ OneRegistration'
  <2>1. \A c, d \in Spawners : Busy(c)' /\ Busy(d)' => c = d
    BY <1>2 DEF Busy
  <2>2. pc'[Owner] = pc[Owner] /\ ~Busy(Owner)
    BY <1>1, <1>2
  <2>3. pc'[l] \notin {"watch", "unregister", "check"}
    BY <1>1, SpawnEffect DEF AfterFailure
  <2> QED
    BY <1>1, <1>2, <1>3, <2>1, <2>2, <2>3 DEF OneSpawner, OneRegistration, Busy, IInv
<1>7. StopsAreAnnounced' /\ NewestIsRegistered'
  BY <1>1, <1>3, SpawnEffect
     DEF IInv, StopsAreAnnounced, NewestIsRegistered, TypeOK, ChildTypeOK, Attempts
<1>8. StartsTheNewest'
  BY <1>1, <1>2, SpawnEffect
     DEF StartsTheNewest, Busy, AfterFailure, TypeOK, ChildTypeOK, Attempts
<1>9. ReapedIsDead'
  BY <1>1, SpawnEffect DEF IInv, ReapedIsDead, TypeOK, ChildTypeOK, Attempts
<1>10. NoOrphan' /\ OneWorkerAtATime'
  BY <1>1, <1>4, SpawnEffect DEF NoOrphan, OneWorkerAtATime, Holds
<1>11. OwnWorkerOnly'
  <2>1. \A w \in Unkilled' : w = attempt' /\ pc'[l] = "handshake" /\ child'[l] = w
    BY <1>1, <1>4, SpawnEffect
  <2>2. \A c \in Spawners : Busy(c)' => c = l
    BY <1>2 DEF Busy
  <2> QED
    BY <2>1, <2>2 DEF OwnWorkerOnly
<1> QED
  BY <1>5, <1>6, <1>7, <1>8, <1>9, <1>10, <1>11 DEF IInv

LEMMA LoopStoresIInv ==
  ASSUME IInv, NEW l \in Loops, LoopStores(l)
  PROVE  IInv'
<1> USE DEF LoopStores
<1>1. TypeOK'
  <2>1. ChildTypeOK'
    BY DEF IInv, TypeOK, ChildTypeOK, Attempts, TaskTypeOK, SharedTypeOK, StartsTheNewest, StopsAreAnnounced
  <2>2. SharedTypeOK' /\ HandleTypeOK'
    BY DEF IInv, TypeOK, ChildTypeOK, SharedTypeOK, HandleTypeOK, TaskTypeOK
  <2>3. TaskTypeOK'
    BY DEF IInv, TypeOK, ChildTypeOK, SharedTypeOK, HandleTypeOK, TaskTypeOK, SpawnPc
  <2> QED
    BY <2>1, <2>2, <2>3 DEF TypeOK
<1>2. OneSpawner' /\ OneRegistration' /\ StopsAreAnnounced' /\ StartsTheNewest'
  BY DEF IInv, TypeOK, TaskTypeOK, HandleTypeOK, OneSpawner, OneRegistration, StopsAreAnnounced, StartsTheNewest, Busy, Attempts
<1>3. ReapedIsDead' /\ NewestIsRegistered'
  BY DEF IInv, ReapedIsDead, NewestIsRegistered, TypeOK, TaskTypeOK, StartsTheNewest
<1>4. NoOrphan'
  BY DEF IInv, TypeOK, ChildTypeOK, TaskTypeOK, NoOrphan, Unkilled, KillRequested, Holds, Taken, ReapedIsDead, OneSpawner, OneRegistration, Busy, Attempts
<1>5. OneWorkerAtATime'
  BY DEF IInv, OneWorkerAtATime, Unkilled, KillRequested
<1>6. OwnWorkerOnly'
  BY DEF IInv, TypeOK, ChildTypeOK, TaskTypeOK, OwnWorkerOnly, OneSpawner, OneRegistration, ReapedIsDead,
         Unkilled, KillRequested, Busy, Attempts
<1> QED
  BY <1>1, <1>2, <1>3, <1>4, <1>5, <1>6 DEF IInv

LEMMA LoopChecksCancelIInv ==
  ASSUME IInv, NEW l \in Loops, LoopChecksCancel(l)
  PROVE  IInv'
<1> USE DEF LoopChecksCancel, NotifyKill
<1>1. TypeOK'
  <2>1. ChildTypeOK'
    <3>1. activeChild # 0 => activeChild \in Attempts
      BY DEF IInv, TypeOK, ChildTypeOK, SharedTypeOK, Attempts
    <3>2. attempt' = attempt /\ killPermit' \subseteq Attempts
      BY <3>1 DEF IInv, TypeOK, ChildTypeOK
    <3> QED
      BY <3>2 DEF IInv, TypeOK, ChildTypeOK, Attempts
  <2>2. SharedTypeOK' /\ HandleTypeOK'
    BY DEF IInv, TypeOK, ChildTypeOK, SharedTypeOK, HandleTypeOK, TaskTypeOK
  <2>3. TaskTypeOK'
    BY DEF IInv, TypeOK, ChildTypeOK, SharedTypeOK, HandleTypeOK, TaskTypeOK, SpawnPc
  <2> QED
    BY <2>1, <2>2, <2>3 DEF TypeOK
<1>2. OneSpawner' /\ OneRegistration' /\ StopsAreAnnounced' /\ StartsTheNewest'
  BY DEF IInv, TypeOK, TaskTypeOK, HandleTypeOK, OneSpawner, OneRegistration, StopsAreAnnounced, StartsTheNewest, Busy, Attempts
<1>3. ReapedIsDead' /\ NewestIsRegistered'
  BY DEF IInv, ReapedIsDead, NewestIsRegistered, TypeOK, TaskTypeOK, StartsTheNewest
<1>4. NoOrphan'
  BY DEF IInv, TypeOK, ChildTypeOK, TaskTypeOK, NoOrphan, Unkilled, KillRequested, Holds, Taken, ReapedIsDead, OneSpawner, OneRegistration, Busy, Attempts
<1>5. OneWorkerAtATime'
  BY DEF IInv, OneWorkerAtATime, Unkilled, KillRequested
<1>6. OwnWorkerOnly'
  BY DEF IInv, TypeOK, ChildTypeOK, TaskTypeOK, OwnWorkerOnly, OneSpawner, OneRegistration, ReapedIsDead,
         Unkilled, KillRequested, Busy, Attempts
<1> QED
  BY <1>1, <1>2, <1>3, <1>4, <1>5, <1>6 DEF IInv

LEMMA LoopDroppedIInv ==
  ASSUME IInv, NEW l \in Loops, LoopDropped(l)
  PROVE  IInv'
<1> USE DEF LoopDropped, NotifyKill, AbortPoints
<1>1. TypeOK'
  <2>1. ChildTypeOK'
    BY DEF IInv, TypeOK, ChildTypeOK, Attempts, TaskTypeOK, SharedTypeOK, StartsTheNewest, StopsAreAnnounced
  <2>2. SharedTypeOK' /\ HandleTypeOK'
    BY DEF IInv, TypeOK, ChildTypeOK, SharedTypeOK, HandleTypeOK, TaskTypeOK
  <2>3. TaskTypeOK'
    BY DEF IInv, TypeOK, ChildTypeOK, SharedTypeOK, HandleTypeOK, TaskTypeOK, SpawnPc
  <2> QED
    BY <2>1, <2>2, <2>3 DEF TypeOK
<1>2. OneSpawner' /\ OneRegistration' /\ StopsAreAnnounced' /\ StartsTheNewest'
  BY DEF IInv, TypeOK, TaskTypeOK, HandleTypeOK, OneSpawner, OneRegistration, StopsAreAnnounced, StartsTheNewest, Busy, Attempts
<1>3. ReapedIsDead' /\ NewestIsRegistered'
  BY DEF IInv, ReapedIsDead, NewestIsRegistered, TypeOK, TaskTypeOK, StartsTheNewest
<1>4. NoOrphan'
  BY DEF IInv, TypeOK, ChildTypeOK, TaskTypeOK, NoOrphan, Unkilled, KillRequested, Holds, Taken, ReapedIsDead, OneSpawner, OneRegistration, Busy, Attempts
<1>5. OneWorkerAtATime'
  BY DEF IInv, OneWorkerAtATime, Unkilled, KillRequested
<1>6. OwnWorkerOnly'
  BY DEF IInv, TypeOK, ChildTypeOK, TaskTypeOK, OwnWorkerOnly, OneSpawner, OneRegistration, ReapedIsDead,
         Unkilled, KillRequested, Busy, Attempts
<1> QED
  BY <1>1, <1>2, <1>3, <1>4, <1>5, <1>6 DEF IInv

-----------------------------------------------------------------------------
(* Steps of a stop. *)

LEMMA StopCallIInv ==
  ASSUME IInv, NEW s \in Stoppers, StopCall(s)
  PROVE  IInv'
<1> USE DEF StopCall
<1>1. TypeOK'
  <2>1. ChildTypeOK'
    BY DEF IInv, TypeOK, ChildTypeOK, Attempts, TaskTypeOK, SharedTypeOK, StartsTheNewest, StopsAreAnnounced
  <2>2. SharedTypeOK' /\ HandleTypeOK'
    BY DEF IInv, TypeOK, ChildTypeOK, SharedTypeOK, HandleTypeOK, TaskTypeOK
  <2>3. TaskTypeOK'
    BY DEF IInv, TypeOK, ChildTypeOK, SharedTypeOK, HandleTypeOK, TaskTypeOK, SpawnPc
  <2> QED
    BY <2>1, <2>2, <2>3 DEF TypeOK
<1>2. OneSpawner' /\ OneRegistration' /\ StopsAreAnnounced' /\ StartsTheNewest'
  BY DEF IInv, TypeOK, TaskTypeOK, HandleTypeOK, OneSpawner, OneRegistration, StopsAreAnnounced, StartsTheNewest, Busy, Attempts
<1>3. ReapedIsDead' /\ NewestIsRegistered'
  BY DEF IInv, ReapedIsDead, NewestIsRegistered, TypeOK, TaskTypeOK, StartsTheNewest
<1>4. NoOrphan'
  BY DEF IInv, TypeOK, ChildTypeOK, TaskTypeOK, NoOrphan, Unkilled, KillRequested, Holds, Taken, ReapedIsDead, OneSpawner, OneRegistration, Busy, Attempts
<1>5. OneWorkerAtATime'
  BY DEF IInv, OneWorkerAtATime, Unkilled, KillRequested
<1>6. OwnWorkerOnly'
  BY DEF IInv, TypeOK, ChildTypeOK, TaskTypeOK, OwnWorkerOnly, OneSpawner, OneRegistration, ReapedIsDead,
         Unkilled, KillRequested, Busy, Attempts
<1> QED
  BY <1>1, <1>2, <1>3, <1>4, <1>5, <1>6 DEF IInv

LEMMA StopJoinsIInv ==
  ASSUME IInv, NEW s \in Stoppers, StopJoins(s)
  PROVE  IInv'
<1> USE DEF StopJoins
<1>1. TypeOK'
  <2>1. ChildTypeOK'
    BY DEF IInv, TypeOK, ChildTypeOK, Attempts, TaskTypeOK, SharedTypeOK, StartsTheNewest, StopsAreAnnounced
  <2>2. SharedTypeOK' /\ HandleTypeOK'
    BY DEF IInv, TypeOK, ChildTypeOK, SharedTypeOK, HandleTypeOK, TaskTypeOK
  <2>3. TaskTypeOK'
    BY DEF IInv, TypeOK, ChildTypeOK, SharedTypeOK, HandleTypeOK, TaskTypeOK, SpawnPc
  <2> QED
    BY <2>1, <2>2, <2>3 DEF TypeOK
<1>2. OneSpawner' /\ OneRegistration' /\ StopsAreAnnounced' /\ StartsTheNewest'
  BY DEF IInv, TypeOK, TaskTypeOK, HandleTypeOK, OneSpawner, OneRegistration, StopsAreAnnounced, StartsTheNewest, Busy, Attempts
<1>3. ReapedIsDead' /\ NewestIsRegistered'
  BY DEF IInv, ReapedIsDead, NewestIsRegistered, TypeOK, TaskTypeOK, StartsTheNewest
<1>4. NoOrphan'
  BY DEF IInv, TypeOK, ChildTypeOK, TaskTypeOK, NoOrphan, Unkilled, KillRequested, Holds, Taken, ReapedIsDead, OneSpawner, OneRegistration, Busy, Attempts
<1>5. OneWorkerAtATime'
  BY DEF IInv, OneWorkerAtATime, Unkilled, KillRequested
<1>6. OwnWorkerOnly'
  BY DEF IInv, TypeOK, ChildTypeOK, TaskTypeOK, OwnWorkerOnly, OneSpawner, OneRegistration, ReapedIsDead,
         Unkilled, KillRequested, Busy, Attempts
<1> QED
  BY <1>1, <1>2, <1>3, <1>4, <1>5, <1>6 DEF IInv

LEMMA StopJoinOverrunsIInv ==
  ASSUME IInv, NEW s \in Stoppers, StopJoinOverruns(s)
  PROVE  IInv'
<1> USE DEF StopJoinOverruns
<1>1. TypeOK'
  <2>1. ChildTypeOK'
    BY DEF IInv, TypeOK, ChildTypeOK, Attempts, TaskTypeOK, SharedTypeOK, StartsTheNewest, StopsAreAnnounced
  <2>2. SharedTypeOK' /\ HandleTypeOK'
    <3>1. stopLoop[s] \in Loops
      BY DEF IInv, TypeOK, TaskTypeOK
    <3> QED
      BY <3>1 DEF IInv, TypeOK, SharedTypeOK, HandleTypeOK
  <2>3. TaskTypeOK'
    BY DEF IInv, TypeOK, ChildTypeOK, SharedTypeOK, HandleTypeOK, TaskTypeOK, SpawnPc
  <2> QED
    BY <2>1, <2>2, <2>3 DEF TypeOK
<1>2. OneSpawner' /\ OneRegistration' /\ StopsAreAnnounced' /\ StartsTheNewest'
  BY DEF IInv, TypeOK, TaskTypeOK, HandleTypeOK, OneSpawner, OneRegistration, StopsAreAnnounced, StartsTheNewest, Busy, Attempts
<1>3. ReapedIsDead' /\ NewestIsRegistered'
  BY DEF IInv, ReapedIsDead, NewestIsRegistered, TypeOK, TaskTypeOK, StartsTheNewest
<1>4. NoOrphan'
  BY DEF IInv, TypeOK, ChildTypeOK, TaskTypeOK, NoOrphan, Unkilled, KillRequested, Holds, Taken, ReapedIsDead, OneSpawner, OneRegistration, Busy, Attempts
<1>5. OneWorkerAtATime'
  BY DEF IInv, OneWorkerAtATime, Unkilled, KillRequested
<1>6. OwnWorkerOnly'
  BY DEF IInv, TypeOK, ChildTypeOK, TaskTypeOK, OwnWorkerOnly, OneSpawner, OneRegistration, ReapedIsDead,
         Unkilled, KillRequested, Busy, Attempts
<1> QED
  BY <1>1, <1>2, <1>3, <1>4, <1>5, <1>6 DEF IInv

LEMMA StopTakesIInv ==
  ASSUME IInv, NEW s \in Stoppers, StopTakes(s)
  PROVE  IInv'
<1> USE DEF StopTakes
<1>1. TypeOK'
  <2>1. ChildTypeOK'
    <3>1. activeChild # 0 => activeChild \in Attempts
      BY DEF IInv, TypeOK, ChildTypeOK, SharedTypeOK, Attempts
    <3>2. attempt' = attempt /\ asked' \subseteq Attempts /\ watchdog' \subseteq Attempts
      BY <3>1 DEF IInv, TypeOK, ChildTypeOK
    <3> QED
      BY <3>2 DEF IInv, TypeOK, ChildTypeOK, Attempts
  <2>2. SharedTypeOK' /\ HandleTypeOK'
    BY DEF IInv, TypeOK, ChildTypeOK, SharedTypeOK, HandleTypeOK, TaskTypeOK
  <2>3. TaskTypeOK'
    BY DEF IInv, TypeOK, ChildTypeOK, SharedTypeOK, HandleTypeOK, TaskTypeOK, SpawnPc
  <2> QED
    BY <2>1, <2>2, <2>3 DEF TypeOK
<1>2. OneSpawner' /\ OneRegistration' /\ StopsAreAnnounced' /\ StartsTheNewest'
  <2>1. OneSpawner' /\ OneRegistration' /\ StartsTheNewest'
    BY DEF IInv, TypeOK, TaskTypeOK, OneSpawner, OneRegistration, StartsTheNewest, Busy, Attempts
  <2>2. StopsAreAnnounced'
    BY DEF IInv, TypeOK, ChildTypeOK, SharedTypeOK, TaskTypeOK, StopsAreAnnounced, Attempts
  <2> QED
    BY <2>1, <2>2
<1>3. ReapedIsDead' /\ NewestIsRegistered'
  BY DEF IInv, ReapedIsDead, NewestIsRegistered, TypeOK, TaskTypeOK, StartsTheNewest
<1>4. NoOrphan'
  BY DEF IInv, TypeOK, ChildTypeOK, TaskTypeOK, NoOrphan, Unkilled, KillRequested, Holds, Taken, ReapedIsDead, OneSpawner, OneRegistration, Busy, Attempts
<1>5. OneWorkerAtATime'
  BY DEF IInv, OneWorkerAtATime, Unkilled, KillRequested
<1>6. OwnWorkerOnly'
  BY DEF IInv, TypeOK, ChildTypeOK, TaskTypeOK, OwnWorkerOnly, OneSpawner, OneRegistration, ReapedIsDead,
         Unkilled, KillRequested, Busy, Attempts
<1> QED
  BY <1>1, <1>2, <1>3, <1>4, <1>5, <1>6 DEF IInv

LEMMA StopSeesExitIInv ==
  ASSUME IInv, NEW s \in Stoppers, StopSeesExit(s)
  PROVE  IInv'
<1> USE DEF StopSeesExit
<1>1. TypeOK'
  <2>1. ChildTypeOK'
    BY DEF IInv, TypeOK, ChildTypeOK, Attempts, TaskTypeOK, SharedTypeOK, StartsTheNewest, StopsAreAnnounced
  <2>2. SharedTypeOK' /\ HandleTypeOK'
    BY DEF IInv, TypeOK, ChildTypeOK, SharedTypeOK, HandleTypeOK, TaskTypeOK
  <2>3. TaskTypeOK'
    BY DEF IInv, TypeOK, ChildTypeOK, SharedTypeOK, HandleTypeOK, TaskTypeOK, SpawnPc
  <2> QED
    BY <2>1, <2>2, <2>3 DEF TypeOK
<1>2. OneSpawner' /\ OneRegistration' /\ StopsAreAnnounced' /\ StartsTheNewest'
  BY DEF IInv, TypeOK, TaskTypeOK, HandleTypeOK, OneSpawner, OneRegistration, StopsAreAnnounced, StartsTheNewest, Busy, Attempts
<1>3. ReapedIsDead' /\ NewestIsRegistered'
  BY DEF IInv, ReapedIsDead, NewestIsRegistered, TypeOK, TaskTypeOK, StartsTheNewest
<1>4. NoOrphan'
  BY DEF IInv, TypeOK, ChildTypeOK, TaskTypeOK, NoOrphan, Unkilled, KillRequested, Holds, Taken, ReapedIsDead, OneSpawner, OneRegistration, Busy, Attempts
<1>5. OneWorkerAtATime'
  BY DEF IInv, OneWorkerAtATime, Unkilled, KillRequested
<1>6. OwnWorkerOnly'
  BY DEF IInv, TypeOK, ChildTypeOK, TaskTypeOK, OwnWorkerOnly, OneSpawner, OneRegistration, ReapedIsDead,
         Unkilled, KillRequested, Busy, Attempts
<1> QED
  BY <1>1, <1>2, <1>3, <1>4, <1>5, <1>6 DEF IInv

LEMMA StopGraceOverIInv ==
  ASSUME IInv, NEW s \in Stoppers, StopGraceOver(s)
  PROVE  IInv'
<1> USE DEF StopGraceOver, NotifyKill
<1>1. TypeOK'
  <2>1. ChildTypeOK'
    BY DEF IInv, TypeOK, ChildTypeOK, Attempts, TaskTypeOK, SharedTypeOK, StartsTheNewest, StopsAreAnnounced
  <2>2. SharedTypeOK' /\ HandleTypeOK'
    BY DEF IInv, TypeOK, ChildTypeOK, SharedTypeOK, HandleTypeOK, TaskTypeOK
  <2>3. TaskTypeOK'
    BY DEF IInv, TypeOK, ChildTypeOK, SharedTypeOK, HandleTypeOK, TaskTypeOK, SpawnPc
  <2> QED
    BY <2>1, <2>2, <2>3 DEF TypeOK
<1>2. OneSpawner' /\ OneRegistration' /\ StopsAreAnnounced' /\ StartsTheNewest'
  BY DEF IInv, TypeOK, TaskTypeOK, HandleTypeOK, OneSpawner, OneRegistration, StopsAreAnnounced, StartsTheNewest, Busy, Attempts
<1>3. ReapedIsDead' /\ NewestIsRegistered'
  BY DEF IInv, ReapedIsDead, NewestIsRegistered, TypeOK, TaskTypeOK, StartsTheNewest
<1>4. NoOrphan'
  BY DEF IInv, TypeOK, ChildTypeOK, TaskTypeOK, NoOrphan, Unkilled, KillRequested, Holds, Taken, ReapedIsDead, OneSpawner, OneRegistration, Busy, Attempts
<1>5. OneWorkerAtATime'
  BY DEF IInv, OneWorkerAtATime, Unkilled, KillRequested
<1>6. OwnWorkerOnly'
  BY DEF IInv, TypeOK, ChildTypeOK, TaskTypeOK, OwnWorkerOnly, OneSpawner, OneRegistration, ReapedIsDead,
         Unkilled, KillRequested, Busy, Attempts
<1> QED
  BY <1>1, <1>2, <1>3, <1>4, <1>5, <1>6 DEF IInv

LEMMA StopForceOverIInv ==
  ASSUME IInv, NEW s \in Stoppers, StopForceOver(s)
  PROVE  IInv'
<1> USE DEF StopForceOver
<1>1. TypeOK'
  <2>1. ChildTypeOK'
    BY DEF IInv, TypeOK, ChildTypeOK, Attempts, TaskTypeOK, SharedTypeOK, StartsTheNewest, StopsAreAnnounced
  <2>2. SharedTypeOK' /\ HandleTypeOK'
    BY DEF IInv, TypeOK, ChildTypeOK, SharedTypeOK, HandleTypeOK, TaskTypeOK
  <2>3. TaskTypeOK'
    BY DEF IInv, TypeOK, ChildTypeOK, SharedTypeOK, HandleTypeOK, TaskTypeOK, SpawnPc
  <2> QED
    BY <2>1, <2>2, <2>3 DEF TypeOK
<1>2. OneSpawner' /\ OneRegistration' /\ StopsAreAnnounced' /\ StartsTheNewest'
  BY DEF IInv, TypeOK, TaskTypeOK, HandleTypeOK, OneSpawner, OneRegistration, StopsAreAnnounced, StartsTheNewest, Busy, Attempts
<1>3. ReapedIsDead' /\ NewestIsRegistered'
  BY DEF IInv, ReapedIsDead, NewestIsRegistered, TypeOK, TaskTypeOK, StartsTheNewest
<1>4. NoOrphan'
  BY DEF IInv, TypeOK, ChildTypeOK, TaskTypeOK, NoOrphan, Unkilled, KillRequested, Holds, Taken, ReapedIsDead, OneSpawner, OneRegistration, Busy, Attempts
<1>5. OneWorkerAtATime'
  BY DEF IInv, OneWorkerAtATime, Unkilled, KillRequested
<1>6. OwnWorkerOnly'
  BY DEF IInv, TypeOK, ChildTypeOK, TaskTypeOK, OwnWorkerOnly, OneSpawner, OneRegistration, ReapedIsDead,
         Unkilled, KillRequested, Busy, Attempts
<1> QED
  BY <1>1, <1>2, <1>3, <1>4, <1>5, <1>6 DEF IInv

LEMMA StopFinishesIInv ==
  ASSUME IInv, NEW s \in Stoppers, StopFinishes(s)
  PROVE  IInv'
<1> USE DEF StopFinishes
<1>1. TypeOK'
  <2>1. ChildTypeOK'
    BY DEF IInv, TypeOK, ChildTypeOK, Attempts, TaskTypeOK, SharedTypeOK, StartsTheNewest, StopsAreAnnounced
  <2>2. SharedTypeOK' /\ HandleTypeOK'
    BY DEF IInv, TypeOK, ChildTypeOK, SharedTypeOK, HandleTypeOK, TaskTypeOK
  <2>3. TaskTypeOK'
    BY DEF IInv, TypeOK, ChildTypeOK, SharedTypeOK, HandleTypeOK, TaskTypeOK, SpawnPc
  <2> QED
    BY <2>1, <2>2, <2>3 DEF TypeOK
<1>2. OneSpawner' /\ OneRegistration' /\ StopsAreAnnounced' /\ StartsTheNewest'
  BY DEF IInv, TypeOK, TaskTypeOK, HandleTypeOK, OneSpawner, OneRegistration, StopsAreAnnounced, StartsTheNewest, Busy, Attempts
<1>3. ReapedIsDead' /\ NewestIsRegistered'
  BY DEF IInv, ReapedIsDead, NewestIsRegistered, TypeOK, TaskTypeOK, StartsTheNewest
<1>4. NoOrphan'
  BY DEF IInv, TypeOK, ChildTypeOK, TaskTypeOK, NoOrphan, Unkilled, KillRequested, Holds, Taken, ReapedIsDead, OneSpawner, OneRegistration, Busy, Attempts
<1>5. OneWorkerAtATime'
  BY DEF IInv, OneWorkerAtATime, Unkilled, KillRequested
<1>6. OwnWorkerOnly'
  BY DEF IInv, TypeOK, ChildTypeOK, TaskTypeOK, OwnWorkerOnly, OneSpawner, OneRegistration, ReapedIsDead,
         Unkilled, KillRequested, Busy, Attempts
<1> QED
  BY <1>1, <1>2, <1>3, <1>4, <1>5, <1>6 DEF IInv

-----------------------------------------------------------------------------
(* The invariant holds in every reachable state. *)

\* Without restart_child, the actions of a restart are never enabled.
LEMMA NoRestart ==
  ASSUME IInv, "restart_child" \notin Api
  PROVE  ~(RestartCall \/ RestartSeesExit \/ RestartSpawns \/ RestartStores)
BY DEF IInv, OneSpawner, RestartCall, RestartSeesExit, RestartSpawns, RestartStores

LEMMA NextIInv ==
  ASSUME IInv, "restart_child" \notin Api, [Next]_vars
  PROVE  IInv'
<1>1. CASE UNCHANGED vars
  <2> USE <1>1
  <2>1. TypeOK'
    BY DEF IInv, TypeOK, ChildTypeOK, SharedTypeOK, HandleTypeOK, TaskTypeOK, Attempts
  <2>2. OneSpawner' /\ OneRegistration' /\ StopsAreAnnounced' /\ StartsTheNewest'
    BY DEF IInv, OneSpawner, OneRegistration, StopsAreAnnounced, StartsTheNewest,
           Busy, Attempts
  <2>3. ReapedIsDead' /\ NewestIsRegistered' /\ NoOrphan' /\ OneWorkerAtATime' /\ OwnWorkerOnly'
    BY DEF IInv, ReapedIsDead, NewestIsRegistered, NoOrphan, OneWorkerAtATime, OwnWorkerOnly, Busy,
           Unkilled, KillRequested, Holds, Taken
  <2> QED
    BY <2>1, <2>2, <2>3 DEF IInv
<1>2. ASSUME NEW w \in Attempts, ChildStep(w)
      PROVE  IInv'
  BY <1>2, ChildIInv
<1>3. ASSUME NEW c \in Spawners, SpawnerStep(c)
      PROVE  IInv'
  BY <1>3, AssignmentReapedIInv, HandshakeReadyIInv, HandshakeExitedIInv,
     HandshakeStallsIInv, HandshakeCancelledIInv, SpawnerReapsIInv, PublishReadyIInv
     DEF SpawnerStep
<1>4. CASE OwnerStep
  BY <1>4, NoRestart, StartCallIInv, StartStoresIInv, CancelTokenIInv DEF OwnerStep
<1>5. ASSUME NEW l \in Loops, LoopStep(l)
      PROVE  IInv'
  BY <1>5, LoopCancelledIInv, LoopSeesExitIInv, LoopUnregistersIInv, LoopRecordsFailureIInv,
     BackoffElapsesIInv, LoopRespawnsIInv, LoopStoresIInv, LoopChecksCancelIInv, LoopDroppedIInv
     DEF LoopStep
<1>6. ASSUME NEW s \in Stoppers, StopStep(s)
      PROVE  IInv'
  BY <1>1, <1>6, StopCallIInv, StopJoinsIInv, StopJoinOverrunsIInv, StopTakesIInv,
     StopSeesExitIInv, StopGraceOverIInv, StopForceOverIInv, StopFinishesIInv
     DEF StopStep, StopAgain
<1> QED
  BY <1>1, <1>2, <1>3, <1>4, <1>5, <1>6 DEF Next

\* IInv holds in every reachable state of a supervisor whose callers leave
\* restart_child alone (process.rs:1119-1330).
THEOREM Inductive ==
  ASSUME "restart_child" \notin Api
  PROVE  Spec => []IInv
<1>1. Init => IInv
  BY InitIInv
<1>2. IInv /\ [Next]_vars => IInv'
  BY NextIInv
<1> QED
  BY <1>1, <1>2, PTL DEF Spec

\* Every variable keeps its type; in particular no task ever holds a worker
\* that was not spawned.
THEOREM TypeCorrect ==
  ASSUME "restart_child" \notin Api
  PROVE  Spec => []TypeOK
<1>1. IInv => TypeOK
  BY DEF IInv
<1> QED
  BY <1>1, Inductive, PTL

\* No interleaving of start, monitor, stops and faults loses a running worker
\* (the zero-zombie promise of process.rs:6).
THEOREM NoOrphanEver ==
  ASSUME "restart_child" \notin Api
  PROVE  Spec => []NoOrphan
<1>1. IInv => NoOrphan
  BY DEF IInv
<1> QED
  BY <1>1, Inductive, PTL

\* Without restart_child no two workers run side by side, and the registered
\* one is always the newest attempt (process.rs:1145, :1226-1234).
THEOREM OneNewestWorker ==
  ASSUME "restart_child" \notin Api
  PROVE  Spec => [](OneWorkerAtATime /\ NewestIsRegistered)
<1>1. IInv => OneWorkerAtATime /\ NewestIsRegistered
  BY DEF IInv
<1> QED
  BY <1>1, Inductive, PTL

\* The child registered for commands is the newest attempt: no monitor registers
\* a worker once a later one was spawned, and what is registered is never handed
\* on to an older generation (process.rs:1145).
THEOREM RegisteredIsNewest ==
  ASSUME "restart_child" \notin Api
  PROVE  Spec => []NewestIsRegistered
<1>1. OneWorkerAtATime /\ NewestIsRegistered => NewestIsRegistered
  OBVIOUS
<1> QED
  BY <1>1, OneNewestWorker, PTL

-----------------------------------------------------------------------------
(* The supervisor implements WorkerLease. *)

Request == \E l \in Loops : Admitted(l)

\* A step that starts no worker, announces no stop and leaves the admitted
\* respawn where it is at most revokes.
LEMMA RevokesAtMost ==
  ASSUME OneWorkerAtATime, UNCHANGED <<attempt, isShuttingDown>>, Unkilled' \subseteq Unkilled,
         Request' <=> Request
  PROVE  [Lease!Next]_(Lease!leaseVars)
<1>1. CASE Unkilled' = Unkilled
  BY <1>1 DEF Lease!leaseVars, Request
<1>2. CASE Unkilled' # Unkilled
  <2>1. Unkilled' = {}
    BY <1>2 DEF OneWorkerAtATime
  <2> QED
    BY <2>1 DEF Lease!Next, Lease!Revoke, Request
<1> QED
  BY <1>1, <1>2

\* A spawn gives the lease out, provided nobody holds it.
LEMMA SpawnGives ==
  ASSUME TypeOK, NEW c \in Spawners, Spawn(c), Unkilled = {}, ~Request'
  PROVE  Lease!Give
<1>1. attempt' = attempt + 1 /\ Unkilled' \in {{}, {attempt + 1}}
  BY SpawnEffect
<1> QED
  BY <1>1 DEF Lease!Give, Request

\* Only the monitor's look at is_shutting_down admits, and only its spawn ends that.
LEMMA RequestStays ==
  ASSUME TypeOK, NEW c \in Spawners, pc[c] # "respawn", pc'[c] # "respawn",
         \A d \in Spawners \ {c} : pc'[d] = pc[d]
  PROVE  Request' <=> Request
BY DEF Request, Admitted, TypeOK, TaskTypeOK

LEMMA LeaseStep ==
  ASSUME IInv, "restart_child" \notin Api, [Next]_vars
  PROVE  [Lease!Next]_(Lease!leaseVars)
<1> USE DEF IInv
<1>1. CASE UNCHANGED vars
  BY <1>1, RevokesAtMost DEF Unkilled, KillRequested, Request, Admitted
<1>2. ASSUME NEW w \in Attempts, ChildStep(w)
      PROVE  [Lease!Next]_(Lease!leaseVars)
  <2>1. Unkilled' \subseteq Unkilled /\ UNCHANGED <<attempt, isShuttingDown, pc>>
    BY <1>2 DEF ChildStep, ChildNext, WorkerReady, WorkerCrash, WorkerHang, WorkerLeaves,
            KilledWorkerDies, WaitTaskPolled, WaitTaskKills, WaitTaskReaps,
            WatchdogFires, DecodeOverruns, NotifyKill, NotifyKillWaiters, Unkilled, KillRequested
  <2> QED
    BY <2>1, RevokesAtMost DEF Request, Admitted
<1>3. ASSUME NEW c \in Spawners, SpawnerStep(c)
      PROVE  [Lease!Next]_(Lease!leaseVars)
  <2>1. Unkilled' \subseteq Unkilled /\ UNCHANGED <<attempt, isShuttingDown>>
    BY <1>3 DEF SpawnerStep, AssignmentReaped, HandshakeReady, HandshakeExited,
            HandshakeStalls, HandshakeCancelled, SpawnerReaps, PublishReady, NotifyKill,
            Unkilled, KillRequested
  <2>2. Request' <=> Request
    <3>1. /\ pc[c] # "respawn" /\ pc'[c] # "respawn"
          /\ \A d \in Spawners \ {c} : pc'[d] = pc[d]
      BY <1>3 DEF SpawnerStep, AssignmentReaped, HandshakeReady, HandshakeExited,
              HandshakeStalls, HandshakeCancelled, SpawnerReaps, PublishReady, AfterFailure,
              TypeOK, TaskTypeOK
    <3> QED
      BY <3>1, RequestStays
  <2> QED
    BY <2>1, <2>2, RevokesAtMost
<1>4. CASE StartCall
  <2>1. Owner \in Spawners /\ Spawn(Owner) /\ isShuttingDown' = FALSE
    BY <1>4 DEF StartCall
  <2>2. \A l \in Loops : ~Admitted(l) /\ pc'[l] = pc[l]
    BY <1>4, <2>1, SpawnEffect DEF StartCall, LoopsQuiet, Admitted
  <2>3. Unkilled = {}
    <3>1. \A c \in Spawners : ~Busy(c)
      BY <1>4 DEF StartCall, OwnerFree, LoopsQuiet, Busy
    <3> QED
      BY <1>4, <3>1, NothingLeft DEF StartCall, OwnerFree, Busy
  <2>4. ~Request /\ ~Request'
    BY <2>2 DEF Request, Admitted
  <2>5. Lease!Give
    BY <2>1, <2>3, <2>4, SpawnGives
  <2> QED
    BY <2>1, <2>4, <2>5 DEF Lease!Next, Lease!Open, Request
<1>5. CASE StartStores \/ CancelToken
  <2>1. Unkilled' = Unkilled /\ UNCHANGED <<attempt, isShuttingDown>>
    BY <1>5 DEF StartStores, CancelToken, Unkilled, KillRequested
  <2>2. Request' <=> Request
    <3>1. CASE CancelToken
      BY <3>1 DEF CancelToken, Request, Admitted
    <3>2. CASE StartStores
      <4>1. calls \in Loops /\ \A l \in Loops : ~Busy(l)
        BY <3>2 DEF StartStores, OneSpawner, Busy
      <4>2. \A l \in Loops : pc'[l] = pc[l] \/ pc'[l] = "watch"
        BY <3>2 DEF StartStores, Goto, TypeOK, TaskTypeOK
      <4> QED
        BY <4>1, <4>2 DEF Request, Admitted, Busy
    <3> QED
      BY <1>5, <3>1, <3>2
  <2> QED
    BY <2>1, <2>2, RevokesAtMost
<1>6. ASSUME NEW l \in Loops, BackoffElapses(l)
      PROVE  [Lease!Next]_(Lease!leaseVars)
  <2>1. Unkilled' = Unkilled /\ UNCHANGED <<attempt, isShuttingDown>>
    BY <1>6 DEF BackoffElapses, Unkilled, KillRequested
  <2>2. \A d \in Spawners \ {l} : pc'[d] = pc[d] /\ ~Busy(d)
    BY <1>6 DEF BackoffElapses, Goto, OneSpawner, Busy, TypeOK, TaskTypeOK
  <2>3. pc[l] = "backoff" /\ ~Request
    BY <1>6, <2>2 DEF BackoffElapses, Request, Admitted, Busy
  <2>4. CASE isShuttingDown
    <3>1. pc'[l] = "done"
      BY <1>6, <2>4 DEF BackoffElapses, Goto, TypeOK, TaskTypeOK
    <3> QED
      BY <2>1, <2>2, <2>3, <3>1, RequestStays, RevokesAtMost
  <2>5. CASE ~isShuttingDown
    <3>1. Request' /\ Unkilled = {}
      BY <1>6, <2>5 DEF BackoffElapses, Goto, Request, Admitted, TypeOK, TaskTypeOK,
                        OwnWorkerOnly, Busy
    <3> QED
      BY <2>1, <2>3, <2>5, <3>1 DEF Lease!Next, Lease!Admit, Request
  <2> QED
    BY <2>4, <2>5
<1>7. ASSUME NEW l \in Loops, LoopRespawns(l)
      PROVE  [Lease!Next]_(Lease!leaseVars)
  <2>1. Spawn(l) /\ pc[l] = "respawn" /\ isShuttingDown' = isShuttingDown
    BY <1>7 DEF LoopRespawns
  <2>2. Request /\ Unkilled = {}
    BY <2>1 DEF Request, Admitted, OwnWorkerOnly, Busy
  <2>3. ~Request'
    <3>1. \A d \in Spawners : d # l => pc'[d] = pc[d] /\ ~Busy(d)
      BY <2>1, SpawnEffect DEF OneSpawner, Busy
    <3>2. pc'[l] # "respawn"
      BY <2>1, SpawnEffect DEF AfterFailure
    <3> QED
      BY <3>1, <3>2 DEF Request, Admitted, Busy
  <2>4. Lease!Give
    BY <2>1, <2>2, <2>3, SpawnGives
  <2> QED
    BY <2>1, <2>2, <2>4 DEF Lease!Next, Lease!Grant, Request
<1>8. ASSUME NEW l \in Loops, LoopStep(l), ~BackoffElapses(l), ~LoopRespawns(l)
      PROVE  [Lease!Next]_(Lease!leaseVars)
  <2>1. Unkilled' \subseteq Unkilled /\ UNCHANGED <<attempt, isShuttingDown>>
    BY <1>8 DEF LoopStep, LoopCancelled, LoopSeesExit, LoopUnregisters, LoopRecordsFailure,
            LoopStores, LoopChecksCancel, LoopDropped, NotifyKill, Unkilled, KillRequested
  <2>2. Request' <=> Request
    <3>1. /\ pc[l] # "respawn" /\ pc'[l] # "respawn"
          /\ \A d \in Spawners \ {l} : pc'[d] = pc[d]
      BY <1>8 DEF LoopStep, LoopCancelled, LoopSeesExit, LoopUnregisters, LoopRecordsFailure,
              LoopStores, LoopChecksCancel, LoopDropped, AbortPoints, Goto, TypeOK, TaskTypeOK
    <3> QED
      BY <3>1, RequestStays
  <2> QED
    BY <2>1, <2>2, RevokesAtMost
<1>9. ASSUME NEW s \in Stoppers, StopCall(s)
      PROVE  [Lease!Next]_(Lease!leaseVars)
  <2>1. isShuttingDown' = TRUE /\ UNCHANGED <<attempt, Unkilled, pc>>
    BY <1>9 DEF StopCall, Unkilled, KillRequested
  <2> QED
    BY <2>1 DEF Lease!Next, Lease!Close, Admitted
<1>10. ASSUME NEW s \in Stoppers, StopStep(s), ~StopCall(s)
      PROVE  [Lease!Next]_(Lease!leaseVars)
  <2>1. Unkilled' \subseteq Unkilled /\ UNCHANGED <<attempt, isShuttingDown, pc>>
    BY <1>10 DEF StopStep, StopAgain, StopJoins, StopJoinOverruns, StopTakes, StopSeesExit,
            StopGraceOver, StopForceOver, StopFinishes, NotifyKill, Unkilled, KillRequested
  <2> QED
    BY <2>1, RevokesAtMost DEF Request, Admitted
<1> QED
  BY <1>1, <1>2, <1>3, <1>4, <1>5, <1>6, <1>7, <1>8, <1>9, <1>10, NoRestart DEF Next, OwnerStep

\* The tasks, notifications and locks of the supervisor together implement the
\* lease: one generation at a time, numbers never reused, and between the
\* announcement of a stop and the next start no new worker but the one whose
\* look at is_shutting_down came before it (process.rs:1221-1236, 1279).
THEOREM Implements ==
  ASSUME "restart_child" \notin Api
  PROVE  Spec => ImplementsLease
<1>1. Init => Lease!Init
  BY DEF Init, ChildInit, Lease!Init, Unkilled, Admitted
<1>2. IInv /\ [Next]_vars => [Lease!Next]_(Lease!leaseVars)
  BY LeaseStep
<1> QED
  BY <1>1, <1>2, Inductive, PTL DEF Spec, ImplementsLease, Lease!Spec
=============================================================================
