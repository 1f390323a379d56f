------------------------ MODULE SupervisorStopProofs ------------------------
(***************************************************************************)
(* Proofs about how a Supervisor ends: a completed stop has stopped, and   *)
(* Failed is quiet and final, for every number of calls, faults and        *)
(* stoppers and for callers that do not use restart_child.                 *)
(*                                                                         *)
(* The argument for stop: a monitor that is at work is in the slot a stop  *)
(* empties or already awaited by the stop that emptied it; once a stop has *)
(* taken the child, a monitor that registers another looks at the token    *)
(* and unregisters it again; and whoever waits for a monitor that may      *)
(* still report something reports Stopped after it.  For Failed: whoever   *)
(* records a failure has no worker, nor has a stop taken one from it.      *)
(***************************************************************************)
EXTENDS SupervisorProofs

USE SupervisorAssumption, MaxFaultsAssumption
USE DEF vars, childVars, procVars, tenderVars, supVars, sharedVars, handleVars,
        spawnVars, stopVars, Goto, StopGoto, Owner, Spawners, Loops

(* Nobody stops without having cancelled the token, and a start undoes the  *)
(* announcement of the stop before it.                                      *)
StopsCancel ==
    /\ \A s \in Stoppers : stopPc[s] # "idle" => cancelled
    /\ shutdownComplete => isShuttingDown /\ cancelled
    /\ pc[Owner] # "idle" => ~isShuttingDown

(* A monitor at work can be joined, or is being joined.                     *)
MonitorsAreJoined ==
    \A l \in Loops : Busy(l) =>
        /\ ~isShuttingDown => loopSlot = l
        /\ isShuttingDown /\ aborted = {} =>
               \E s \in Stoppers : stopPc[s] = "join" /\ stopLoop[s] = l

(* A stop is past its look at active_child. *)
TakenOnce == shutdownComplete \/ \E s \in Stoppers : stopPc[s] \in {"grace", "force", "finish"}

(* What is registered after that is unregistered by the monitor's own look  *)
(* at the token.                                                            *)
LateChildIsSeen == TakenOnce /\ activeChild # 0 => \E l \in Loops : pc[l] = "check"

(* A report that overwrites Stopped is overwritten by a stop to come.       *)
StoppedIsTheLastWord ==
    shutdownComplete /\ aborted = {} /\ health # "Stopped" =>
        \E s \in Stoppers : stopPc[s] \in {"join", "take", "finish"}

(* After the verdict nobody has a worker, unless a new start is at work.    *)
FailedLeavesNothing ==
    health = "Failed" =>
        /\ activeChild = 0 /\ pc[Owner] # "store"
        /\ \A l \in Loops : ~Busy(l)
        /\ \A s \in Stoppers : stopPc[s] = "grace" => stopChild[s] \notin Unkilled

EndInv ==
    /\ StopsCancel /\ MonitorsAreJoined /\ LateChildIsSeen /\ StoppedIsTheLastWord
    /\ FailedLeavesNothing

-----------------------------------------------------------------------------
LEMMA InitEndInv == Init => EndInv
BY DEF Init, EndInv, StopsCancel, MonitorsAreJoined, LateChildIsSeen, TakenOnce,
       StoppedIsTheLastWord, FailedLeavesNothing, Busy

-----------------------------------------------------------------------------
(* Steps of a task that starts a worker. *)

LEMMA AssignmentReapedEndInv ==
    ASSUME IInv, EndInv, NEW c \in Spawners, AssignmentReaped(c)
    PROVE  EndInv'
<1> USE DEF AssignmentReaped, AfterFailure
<1>1. StopsCancel'
  BY DEF IInv, EndInv, TypeOK, TaskTypeOK, OneSpawner, StopsAreAnnounced, StopsCancel, Busy
<1>2. MonitorsAreJoined'
  BY DEF IInv, EndInv, TypeOK, TaskTypeOK, OneSpawner, StopsAreAnnounced, StopsCancel, MonitorsAreJoined, Busy
<1>3. LateChildIsSeen'
  BY DEF IInv, EndInv, TypeOK, TaskTypeOK, OneSpawner, StopsCancel, LateChildIsSeen, TakenOnce, Busy
<1>4. StoppedIsTheLastWord'
  BY DEF IInv, EndInv, TypeOK, TaskTypeOK, OneSpawner, StopsCancel, MonitorsAreJoined, LateChildIsSeen, TakenOnce,
         StoppedIsTheLastWord, Busy
<1>5. FailedLeavesNothing'
  BY DEF IInv, EndInv, TypeOK, TaskTypeOK, OneSpawner, OneRegistration,
         FailedLeavesNothing, OwnWorkerOnly, Unkilled, KillRequested, Busy
<1> QED
  BY <1>1, <1>2, <1>3, <1>4, <1>5 DEF EndInv

LEMMA HandshakeReadyEndInv ==
    ASSUME IInv, EndInv, NEW c \in Spawners, HandshakeReady(c)
    PROVE  EndInv'
<1> USE DEF HandshakeReady
<1>1. StopsCancel'
  BY DEF IInv, EndInv, TypeOK, TaskTypeOK, OneSpawner, StopsAreAnnounced, StopsCancel, Busy
<1>2. MonitorsAreJoined'
  BY DEF IInv, EndInv, TypeOK, TaskTypeOK, OneSpawner, StopsAreAnnounced, StopsCancel, MonitorsAreJoined, Busy
<1>3. LateChildIsSeen'
  BY DEF IInv, EndInv, TypeOK, TaskTypeOK, OneSpawner, StopsCancel, LateChildIsSeen, TakenOnce, Busy
<1>4. StoppedIsTheLastWord'
  BY DEF IInv, EndInv, TypeOK, TaskTypeOK, OneSpawner, StopsCancel, MonitorsAreJoined, LateChildIsSeen, TakenOnce,
         StoppedIsTheLastWord, Busy
<1>5. FailedLeavesNothing'
  BY DEF IInv, EndInv, TypeOK, TaskTypeOK, OneSpawner, OneRegistration,
         FailedLeavesNothing, OwnWorkerOnly, Unkilled, KillRequested, Busy
<1> QED
  BY <1>1, <1>2, <1>3, <1>4, <1>5 DEF EndInv

LEMMA HandshakeExitedEndInv ==
    ASSUME IInv, EndInv, NEW c \in Spawners, HandshakeExited(c)
    PROVE  EndInv'
<1> USE DEF HandshakeExited, AfterFailure
<1>1. StopsCancel'
  BY DEF IInv, EndInv, TypeOK, TaskTypeOK, OneSpawner, StopsAreAnnounced, StopsCancel, Busy
<1>2. MonitorsAreJoined'
  BY DEF IInv, EndInv, TypeOK, TaskTypeOK, OneSpawner, StopsAreAnnounced, StopsCancel, MonitorsAreJoined, Busy
<1>3. LateChildIsSeen'
  BY DEF IInv, EndInv, TypeOK, TaskTypeOK, OneSpawner, StopsCancel, LateChildIsSeen, TakenOnce, Busy
<1>4. StoppedIsTheLastWord'
  BY DEF IInv, EndInv, TypeOK, TaskTypeOK, OneSpawner, StopsCancel, MonitorsAreJoined, LateChildIsSeen, TakenOnce,
         StoppedIsTheLastWord, Busy
<1>5. FailedLeavesNothing'
  BY DEF IInv, EndInv, TypeOK, TaskTypeOK, OneSpawner, OneRegistration,
         FailedLeavesNothing, OwnWorkerOnly, Unkilled, KillRequested, Busy
<1> QED
  BY <1>1, <1>2, <1>3, <1>4, <1>5 DEF EndInv

LEMMA HandshakeStallsEndInv ==
    ASSUME IInv, EndInv, NEW c \in Spawners, HandshakeStalls(c)
    PROVE  EndInv'
<1> USE DEF HandshakeStalls, AfterFailure
<1>1. StopsCancel'
  BY DEF IInv, EndInv, TypeOK, TaskTypeOK, OneSpawner, StopsAreAnnounced, StopsCancel, Busy
<1>2. MonitorsAreJoined'
  BY DEF IInv, EndInv, TypeOK, TaskTypeOK, OneSpawner, StopsAreAnnounced, StopsCancel, MonitorsAreJoined, Busy
<1>3. LateChildIsSeen'
  BY DEF IInv, EndInv, TypeOK, TaskTypeOK, OneSpawner, StopsCancel, LateChildIsSeen, TakenOnce, Busy
<1>4. StoppedIsTheLastWord'
  BY DEF IInv, EndInv, TypeOK, TaskTypeOK, OneSpawner, StopsCancel, MonitorsAreJoined, LateChildIsSeen, TakenOnce,
         StoppedIsTheLastWord, Busy
<1>5. FailedLeavesNothing'
  BY DEF IInv, EndInv, TypeOK, TaskTypeOK, OneSpawner, OneRegistration,
         FailedLeavesNothing, OwnWorkerOnly, Unkilled, KillRequested, Busy
<1> QED
  BY <1>1, <1>2, <1>3, <1>4, <1>5 DEF EndInv

LEMMA HandshakeCancelledEndInv ==
    ASSUME IInv, EndInv, NEW c \in Spawners, HandshakeCancelled(c)
    PROVE  EndInv'
<1> USE DEF HandshakeCancelled
<1>1. StopsCancel'
  BY DEF IInv, EndInv, TypeOK, TaskTypeOK, OneSpawner, StopsAreAnnounced, StopsCancel, Busy
<1>2. MonitorsAreJoined'
  BY DEF IInv, EndInv, TypeOK, TaskTypeOK, OneSpawner, StopsAreAnnounced, StopsCancel, MonitorsAreJoined, Busy
<1>3. LateChildIsSeen'
  BY DEF IInv, EndInv, TypeOK, TaskTypeOK, OneSpawner, StopsCancel, LateChildIsSeen, TakenOnce, Busy
<1>4. StoppedIsTheLastWord'
  BY DEF IInv, EndInv, TypeOK, TaskTypeOK, OneSpawner, StopsCancel, MonitorsAreJoined, LateChildIsSeen, TakenOnce,
         StoppedIsTheLastWord, Busy
<1>5. FailedLeavesNothing'
  BY DEF IInv, EndInv, TypeOK, TaskTypeOK, OneSpawner, OneRegistration,
         FailedLeavesNothing, OwnWorkerOnly, Unkilled, KillRequested, Busy
<1> QED
  BY <1>1, <1>2, <1>3, <1>4, <1>5 DEF EndInv

LEMMA SpawnerReapsEndInv ==
    ASSUME IInv, EndInv, NEW c \in Spawners, SpawnerReaps(c)
    PROVE  EndInv'
<1> USE DEF SpawnerReaps, AfterFailure
<1>1. StopsCancel'
  BY DEF IInv, EndInv, TypeOK, TaskTypeOK, OneSpawner, StopsAreAnnounced, StopsCancel, Busy
<1>2. MonitorsAreJoined'
  BY DEF IInv, EndInv, TypeOK, TaskTypeOK, OneSpawner, StopsAreAnnounced, StopsCancel, MonitorsAreJoined, Busy
<1>3. LateChildIsSeen'
  BY DEF IInv, EndInv, TypeOK, TaskTypeOK, OneSpawner, StopsCancel, LateChildIsSeen, TakenOnce, Busy
<1>4. StoppedIsTheLastWord'
  BY DEF IInv, EndInv, TypeOK, TaskTypeOK, OneSpawner, StopsCancel, MonitorsAreJoined, LateChildIsSeen, TakenOnce,
         StoppedIsTheLastWord, Busy
<1>5. FailedLeavesNothing'
  BY DEF IInv, EndInv, TypeOK, TaskTypeOK, OneSpawner, OneRegistration,
         FailedLeavesNothing, OwnWorkerOnly, Unkilled, KillRequested, Busy
<1> QED
  BY <1>1, <1>2, <1>3, <1>4, <1>5 DEF EndInv

LEMMA PublishReadyEndInv ==
    ASSUME IInv, EndInv, NEW c \in Spawners, PublishReady(c)
    PROVE  EndInv'
<1> USE DEF PublishReady
<1>1. StopsCancel'
  BY DEF IInv, EndInv, TypeOK, TaskTypeOK, OneSpawner, StopsAreAnnounced, StopsCancel, Busy
<1>2. MonitorsAreJoined'
  BY DEF IInv, EndInv, TypeOK, TaskTypeOK, OneSpawner, StopsAreAnnounced, StopsCancel, MonitorsAreJoined, Busy
<1>3. LateChildIsSeen'
  BY DEF IInv, EndInv, TypeOK, TaskTypeOK, OneSpawner, StopsCancel, LateChildIsSeen, TakenOnce, Busy
<1>4. StoppedIsTheLastWord'
  BY DEF IInv, EndInv, TypeOK, TaskTypeOK, OneSpawner, StopsCancel, MonitorsAreJoined, LateChildIsSeen, TakenOnce,
         StoppedIsTheLastWord, Busy
<1>5. FailedLeavesNothing'
  BY DEF IInv, EndInv, TypeOK, TaskTypeOK, OneSpawner, OneRegistration,
         FailedLeavesNothing, OwnWorkerOnly, Unkilled, KillRequested, Busy
<1> QED
  BY <1>1, <1>2, <1>3, <1>4, <1>5 DEF EndInv

-----------------------------------------------------------------------------
(* Steps of the owner. *)

LEMMA StartCallEndInv ==
    ASSUME IInv, EndInv, StartCall
    PROVE  EndInv'
<1> USE DEF StartCall
<1>0. /\ \A l \in Loops : pc'[l] = pc[l] /\ ~Busy(l)
      /\ pc'[Owner] \in {"handshake", "assign", "idle"}
  BY SpawnEffect DEF IInv, AfterFailure, LoopsQuiet, Busy
<1>1. StopsCancel'
  BY DEF IInv, EndInv, TypeOK, TaskTypeOK, OneSpawner, StopsAreAnnounced, StopsCancel, Busy
<1>2. MonitorsAreJoined'
  BY <1>0 DEF IInv, EndInv, TypeOK, TaskTypeOK, OneSpawner, StopsAreAnnounced, StopsCancel, MonitorsAreJoined, Busy
<1>3. LateChildIsSeen'
  BY DEF IInv, EndInv, TypeOK, TaskTypeOK, OneSpawner, StopsCancel, LateChildIsSeen, TakenOnce, Busy
<1>4. StoppedIsTheLastWord'
  BY DEF IInv, EndInv, TypeOK, TaskTypeOK, OneSpawner, StopsCancel, MonitorsAreJoined, LateChildIsSeen, TakenOnce,
         StoppedIsTheLastWord, Busy
<1>5. FailedLeavesNothing'
  <2>1. \A s \in Stoppers : stopPc'[s] # "grace"
    BY DEF OwnerFree
  <2>2. activeChild' = 0 /\ pc'[Owner] # "store" /\ \A l \in Loops : ~Busy(l)'
    BY <1>0 DEF Busy
  <2> QED
    BY <2>1, <2>2 DEF FailedLeavesNothing
<1> QED
  BY <1>1, <1>2, <1>3, <1>4, <1>5 DEF EndInv

LEMMA StartStoresEndInv ==
    ASSUME IInv, EndInv, StartStores
    PROVE  EndInv'
<1> USE DEF StartStores
<1>1. StopsCancel'
  BY DEF IInv, EndInv, TypeOK, TaskTypeOK, OneSpawner, StopsAreAnnounced, StopsCancel, Busy
<1>2. MonitorsAreJoined'
  BY DEF IInv, EndInv, TypeOK, TaskTypeOK, OneSpawner, StopsAreAnnounced, StopsCancel, MonitorsAreJoined, Busy
<1>3. LateChildIsSeen'
  BY DEF IInv, EndInv, TypeOK, TaskTypeOK, OneSpawner, StopsCancel, LateChildIsSeen, TakenOnce, Busy
<1>4. StoppedIsTheLastWord'
  BY DEF IInv, EndInv, TypeOK, TaskTypeOK, OneSpawner, StopsCancel, MonitorsAreJoined, LateChildIsSeen, TakenOnce,
         StoppedIsTheLastWord, Busy
<1>5. FailedLeavesNothing'
  BY DEF IInv, EndInv, TypeOK, TaskTypeOK, OneSpawner, OneRegistration,
         FailedLeavesNothing, OwnWorkerOnly, Unkilled, KillRequested, Busy
<1> QED
  BY <1>1, <1>2, <1>3, <1>4, <1>5 DEF EndInv

LEMMA CancelTokenEndInv ==
    ASSUME IInv, EndInv, CancelToken
    PROVE  EndInv'
<1> USE DEF CancelToken
<1>1. StopsCancel'
  BY DEF IInv, EndInv, TypeOK, TaskTypeOK, OneSpawner, StopsAreAnnounced, StopsCancel, Busy
<1>2. MonitorsAreJoined'
  BY DEF IInv, EndInv, TypeOK, TaskTypeOK, OneSpawner, StopsAreAnnounced, StopsCancel, MonitorsAreJoined, Busy
<1>3. LateChildIsSeen'
  BY DEF IInv, EndInv, TypeOK, TaskTypeOK, OneSpawner, StopsCancel, LateChildIsSeen, TakenOnce, Busy
<1>4. StoppedIsTheLastWord'
  BY DEF IInv, EndInv, TypeOK, TaskTypeOK, OneSpawner, StopsCancel, MonitorsAreJoined, LateChildIsSeen, TakenOnce,
         StoppedIsTheLastWord, Busy
<1>5. FailedLeavesNothing'
  BY DEF IInv, EndInv, TypeOK, TaskTypeOK, OneSpawner, OneRegistration,
         FailedLeavesNothing, OwnWorkerOnly, Unkilled, KillRequested, Busy
<1> QED
  BY <1>1, <1>2, <1>3, <1>4, <1>5 DEF EndInv

-----------------------------------------------------------------------------
(* Steps of a monitor. *)

LEMMA LoopCancelledEndInv ==
    ASSUME IInv, EndInv, NEW l \in Loops, LoopCancelled(l)
    PROVE  EndInv'
<1> USE DEF LoopCancelled
<1>1. StopsCancel'
  BY DEF IInv, EndInv, TypeOK, TaskTypeOK, OneSpawner, StopsAreAnnounced, StopsCancel, Busy
<1>2. MonitorsAreJoined'
  BY DEF IInv, EndInv, TypeOK, TaskTypeOK, OneSpawner, StopsAreAnnounced, StopsCancel, MonitorsAreJoined, Busy
<1>3. LateChildIsSeen'
  BY DEF IInv, EndInv, TypeOK, TaskTypeOK, OneSpawner, StopsCancel, LateChildIsSeen, TakenOnce, Busy
<1>4. StoppedIsTheLastWord'
  BY DEF IInv, EndInv, TypeOK, TaskTypeOK, OneSpawner, StopsCancel, MonitorsAreJoined, LateChildIsSeen, TakenOnce,
         StoppedIsTheLastWord, Busy
<1>5. FailedLeavesNothing'
  BY DEF IInv, EndInv, TypeOK, TaskTypeOK, OneSpawner, OneRegistration,
         FailedLeavesNothing, OwnWorkerOnly, Unkilled, KillRequested, Busy
<1> QED
  BY <1>1, <1>2, <1>3, <1>4, <1>5 DEF EndInv

LEMMA LoopSeesExitEndInv ==
    ASSUME IInv, EndInv, NEW l \in Loops, LoopSeesExit(l)
    PROVE  EndInv'
<1> USE DEF LoopSeesExit
<1>1. StopsCancel'
  BY DEF IInv, EndInv, TypeOK, TaskTypeOK, OneSpawner, StopsAreAnnounced, StopsCancel, Busy
<1>2. MonitorsAreJoined'
  BY DEF IInv, EndInv, TypeOK, TaskTypeOK, OneSpawner, StopsAreAnnounced, StopsCancel, MonitorsAreJoined, Busy
<1>3. LateChildIsSeen'
  BY DEF IInv, EndInv, TypeOK, TaskTypeOK, OneSpawner, StopsCancel, LateChildIsSeen, TakenOnce, Busy
<1>4. StoppedIsTheLastWord'
  BY DEF IInv, EndInv, TypeOK, TaskTypeOK, OneSpawner, StopsCancel, MonitorsAreJoined, LateChildIsSeen, TakenOnce,
         StoppedIsTheLastWord, Busy
<1>5. FailedLeavesNothing'
  BY DEF IInv, EndInv, TypeOK, TaskTypeOK, OneSpawner, OneRegistration,
         FailedLeavesNothing, OwnWorkerOnly, Unkilled, KillRequested, Busy
<1> QED
  BY <1>1, <1>2, <1>3, <1>4, <1>5 DEF EndInv

LEMMA LoopUnregistersEndInv ==
    ASSUME IInv, EndInv, NEW l \in Loops, LoopUnregisters(l)
    PROVE  EndInv'
<1> USE DEF LoopUnregisters
<1>1. StopsCancel'
  BY DEF IInv, EndInv, TypeOK, TaskTypeOK, OneSpawner, StopsAreAnnounced, StopsCancel, Busy
<1>2. MonitorsAreJoined'
  BY DEF IInv, EndInv, TypeOK, TaskTypeOK, OneSpawner, StopsAreAnnounced, StopsCancel, MonitorsAreJoined, Busy
<1>3. LateChildIsSeen'
  BY DEF IInv, EndInv, TypeOK, TaskTypeOK, OneSpawner, StopsCancel, LateChildIsSeen, TakenOnce, Busy
<1>4. StoppedIsTheLastWord'
  BY DEF IInv, EndInv, TypeOK, TaskTypeOK, OneSpawner, StopsCancel, MonitorsAreJoined, LateChildIsSeen, TakenOnce,
         StoppedIsTheLastWord, Busy
<1>5. FailedLeavesNothing'
  BY DEF IInv, EndInv, TypeOK, TaskTypeOK, OneSpawner, OneRegistration,
         FailedLeavesNothing, OwnWorkerOnly, Unkilled, KillRequested, Busy
<1> QED
  BY <1>1, <1>2, <1>3, <1>4, <1>5 DEF EndInv

LEMMA LoopRecordsFailureEndInv ==
    ASSUME IInv, EndInv, NEW l \in Loops, LoopRecordsFailure(l)
    PROVE  EndInv'
<1> USE DEF LoopRecordsFailure
<1>1. StopsCancel'
  BY DEF IInv, EndInv, TypeOK, TaskTypeOK, OneSpawner, StopsAreAnnounced, StopsCancel, Busy
<1>2. MonitorsAreJoined'
  BY DEF IInv, EndInv, TypeOK, TaskTypeOK, OneSpawner, StopsAreAnnounced, StopsCancel, MonitorsAreJoined, Busy
<1>3. LateChildIsSeen'
  BY DEF IInv, EndInv, TypeOK, TaskTypeOK, OneSpawner, StopsCancel, LateChildIsSeen, TakenOnce, Busy
<1>4. StoppedIsTheLastWord'
  BY DEF IInv, EndInv, TypeOK, TaskTypeOK, OneSpawner, StopsCancel, MonitorsAreJoined, LateChildIsSeen, TakenOnce,
         StoppedIsTheLastWord, Busy
<1>5. FailedLeavesNothing'
  BY DEF IInv, EndInv, TypeOK, TaskTypeOK, OneSpawner, OneRegistration,
         FailedLeavesNothing, OwnWorkerOnly, Unkilled, KillRequested, Busy
<1> QED
  BY <1>1, <1>2, <1>3, <1>4, <1>5 DEF EndInv

LEMMA BackoffElapsesEndInv ==
    ASSUME IInv, EndInv, NEW l \in Loops, BackoffElapses(l)
    PROVE  EndInv'
<1> USE DEF BackoffElapses
<1>1. StopsCancel'
  BY DEF IInv, EndInv, TypeOK, TaskTypeOK, OneSpawner, StopsAreAnnounced, StopsCancel, Busy
<1>2. MonitorsAreJoined'
  BY DEF IInv, EndInv, TypeOK, TaskTypeOK, OneSpawner, StopsAreAnnounced, StopsCancel, MonitorsAreJoined, Busy
<1>3. LateChildIsSeen'
  BY DEF IInv, EndInv, TypeOK, TaskTypeOK, OneSpawner, StopsCancel, LateChildIsSeen, TakenOnce, Busy
<1>4. StoppedIsTheLastWord'
  BY DEF IInv, EndInv, TypeOK, TaskTypeOK, OneSpawner, StopsCancel, MonitorsAreJoined, LateChildIsSeen, TakenOnce,
         StoppedIsTheLastWord, Busy
<1>5. FailedLeavesNothing'
  BY DEF IInv, EndInv, TypeOK, TaskTypeOK, OneSpawner, OneRegistration,
         FailedLeavesNothing, OwnWorkerOnly, Unkilled, KillRequested, Busy
<1> QED
  BY <1>1, <1>2, <1>3, <1>4, <1>5 DEF EndInv

LEMMA LoopRespawnsEndInv ==
    ASSUME IInv, EndInv, NEW l \in Loops, LoopRespawns(l)
    PROVE  EndInv'
<1> USE DEF LoopRespawns
<1>0. /\ \A d \in Spawners \ {l} : pc'[d] = pc[d]
      /\ pc[l] = "respawn"
  BY SpawnEffect DEF IInv, TypeOK, TaskTypeOK
<1>1. StopsCancel'
  BY <1>0 DEF IInv, EndInv, TypeOK, TaskTypeOK, OneSpawner, StopsAreAnnounced, StopsCancel, Busy
<1>2. MonitorsAreJoined'
  BY <1>0 DEF IInv, EndInv, TypeOK, TaskTypeOK, OneSpawner, StopsAreAnnounced, StopsCancel, MonitorsAreJoined, Busy
<1>3. LateChildIsSeen'
  BY DEF IInv, EndInv, TypeOK, TaskTypeOK, OneSpawner, StopsCancel, LateChildIsSeen, TakenOnce, Busy
<1>4. StoppedIsTheLastWord'
  BY DEF IInv, EndInv, TypeOK, TaskTypeOK, OneSpawner, StopsCancel, MonitorsAreJoined, LateChildIsSeen, TakenOnce,
         StoppedIsTheLastWord, Busy
<1>5. FailedLeavesNothing'
  BY DEF IInv, EndInv, TypeOK, TaskTypeOK, OneSpawner, OneRegistration,
         FailedLeavesNothing, OwnWorkerOnly, Unkilled, KillRequested, Busy
<1> QED
  BY <1>1, <1>2, <1>3, <1>4, <1>5 DEF EndInv

LEMMA LoopStoresEndInv ==
    ASSUME IInv, EndInv, NEW l \in Loops, LoopStores(l)
    PROVE  EndInv'
<1> USE DEF LoopStores
<1>1. StopsCancel'
  BY DEF IInv, EndInv, TypeOK, TaskTypeOK, OneSpawner, StopsAreAnnounced, StopsCancel, Busy
<1>2. MonitorsAreJoined'
  BY DEF IInv, EndInv, TypeOK, TaskTypeOK, OneSpawner, StopsAreAnnounced, StopsCancel, MonitorsAreJoined, Busy
<1>3. LateChildIsSeen'
  BY DEF IInv, EndInv, TypeOK, TaskTypeOK, OneSpawner, StopsCancel, LateChildIsSeen, TakenOnce, Busy
<1>4. StoppedIsTheLastWord'
  BY DEF IInv, EndInv, TypeOK, TaskTypeOK, OneSpawner, StopsCancel, MonitorsAreJoined, LateChildIsSeen, TakenOnce,
         StoppedIsTheLastWord, Busy
<1>5. FailedLeavesNothing'
  BY DEF IInv, EndInv, TypeOK, TaskTypeOK, OneSpawner, OneRegistration,
         FailedLeavesNothing, OwnWorkerOnly, Unkilled, KillRequested, Busy
<1> QED
  BY <1>1, <1>2, <1>3, <1>4, <1>5 DEF EndInv

LEMMA LoopChecksCancelEndInv ==
    ASSUME IInv, EndInv, NEW l \in Loops, LoopChecksCancel(l)
    PROVE  EndInv'
<1> USE DEF LoopChecksCancel
<1>1. StopsCancel'
  BY DEF IInv, EndInv, TypeOK, TaskTypeOK, OneSpawner, StopsAreAnnounced, StopsCancel, Busy
<1>2. MonitorsAreJoined'
  BY DEF IInv, EndInv, TypeOK, TaskTypeOK, OneSpawner, StopsAreAnnounced, StopsCancel, MonitorsAreJoined, Busy
<1>3. LateChildIsSeen'
  BY DEF IInv, EndInv, TypeOK, TaskTypeOK, OneSpawner, StopsCancel, LateChildIsSeen, TakenOnce, Busy
<1>4. StoppedIsTheLastWord'
  BY DEF IInv, EndInv, TypeOK, TaskTypeOK, OneSpawner, StopsCancel, MonitorsAreJoined, LateChildIsSeen, TakenOnce,
         StoppedIsTheLastWord, Busy
<1>5. FailedLeavesNothing'
  BY DEF IInv, EndInv, TypeOK, TaskTypeOK, OneSpawner, OneRegistration,
         FailedLeavesNothing, OwnWorkerOnly, Unkilled, KillRequested, Busy
<1> QED
  BY <1>1, <1>2, <1>3, <1>4, <1>5 DEF EndInv

LEMMA LoopDroppedEndInv ==
    ASSUME IInv, EndInv, NEW l \in Loops, LoopDropped(l)
    PROVE  EndInv'
<1> USE DEF LoopDropped, AbortPoints
<1>1. StopsCancel'
  BY DEF IInv, EndInv, TypeOK, TaskTypeOK, OneSpawner, StopsAreAnnounced, StopsCancel, Busy
<1>2. MonitorsAreJoined'
  BY DEF IInv, EndInv, TypeOK, TaskTypeOK, OneSpawner, StopsAreAnnounced, StopsCancel, MonitorsAreJoined, Busy
<1>3. LateChildIsSeen'
  BY DEF IInv, EndInv, TypeOK, TaskTypeOK, OneSpawner, StopsCancel, LateChildIsSeen, TakenOnce, Busy
<1>4. StoppedIsTheLastWord'
  BY DEF IInv, EndInv, TypeOK, TaskTypeOK, OneSpawner, StopsCancel, MonitorsAreJoined, LateChildIsSeen, TakenOnce,
         StoppedIsTheLastWord, Busy
<1>5. FailedLeavesNothing'
  BY DEF IInv, EndInv, TypeOK, TaskTypeOK, OneSpawner, OneRegistration,
         FailedLeavesNothing, OwnWorkerOnly, Unkilled, KillRequested, Busy
<1> QED
  BY <1>1, <1>2, <1>3, <1>4, <1>5 DEF EndInv

-----------------------------------------------------------------------------
(* Steps of a stop. *)

LEMMA StopCallEndInv ==
    ASSUME IInv, EndInv, NEW s \in Stoppers, StopCall(s)
    PROVE  EndInv'
<1> USE DEF StopCall
<1>1. StopsCancel'
  BY DEF IInv, EndInv, TypeOK, TaskTypeOK, OneSpawner, StopsAreAnnounced, StopsCancel, Busy
<1>2. MonitorsAreJoined'
  BY DEF IInv, EndInv, TypeOK, TaskTypeOK, OneSpawner, StopsAreAnnounced, StopsCancel, MonitorsAreJoined, Busy
<1>3. LateChildIsSeen'
  BY DEF IInv, EndInv, TypeOK, TaskTypeOK, OneSpawner, StopsCancel, LateChildIsSeen, TakenOnce, Busy
<1>4. StoppedIsTheLastWord'
  BY DEF IInv, EndInv, TypeOK, TaskTypeOK, OneSpawner, StopsCancel, MonitorsAreJoined, LateChildIsSeen, TakenOnce,
         StoppedIsTheLastWord, Busy
<1>5. FailedLeavesNothing'
  BY DEF IInv, EndInv, TypeOK, TaskTypeOK, OneSpawner, OneRegistration,
         FailedLeavesNothing, OwnWorkerOnly, Unkilled, KillRequested, Busy
<1> QED
  BY <1>1, <1>2, <1>3, <1>4, <1>5 DEF EndInv

LEMMA StopJoinsEndInv ==
    ASSUME IInv, EndInv, NEW s \in Stoppers, StopJoins(s)
    PROVE  EndInv'
<1> USE DEF StopJoins
<1>1. StopsCancel'
  BY DEF IInv, EndInv, TypeOK, TaskTypeOK, OneSpawner, StopsAreAnnounced, StopsCancel, Busy
<1>2. MonitorsAreJoined'
  BY DEF IInv, EndInv, TypeOK, TaskTypeOK, OneSpawner, StopsAreAnnounced, StopsCancel, MonitorsAreJoined, Busy
<1>3. LateChildIsSeen'
  BY DEF IInv, EndInv, TypeOK, TaskTypeOK, OneSpawner, StopsCancel, LateChildIsSeen, TakenOnce, Busy
<1>4. StoppedIsTheLastWord'
  BY DEF IInv, EndInv, TypeOK, TaskTypeOK, OneSpawner, StopsCancel, MonitorsAreJoined, LateChildIsSeen, TakenOnce,
         StoppedIsTheLastWord, Busy
<1>5. FailedLeavesNothing'
  BY DEF IInv, EndInv, TypeOK, TaskTypeOK, OneSpawner, OneRegistration,
         FailedLeavesNothing, OwnWorkerOnly, Unkilled, KillRequested, Busy
<1> QED
  BY <1>1, <1>2, <1>3, <1>4, <1>5 DEF EndInv

LEMMA StopJoinOverrunsEndInv ==
    ASSUME IInv, EndInv, NEW s \in Stoppers, StopJoinOverruns(s)
    PROVE  EndInv'
<1> USE DEF StopJoinOverruns
<1>1. StopsCancel'
  BY DEF IInv, EndInv, TypeOK, TaskTypeOK, OneSpawner, StopsAreAnnounced, StopsCancel, Busy
<1>2. MonitorsAreJoined'
  BY DEF IInv, EndInv, TypeOK, TaskTypeOK, OneSpawner, StopsAreAnnounced, StopsCancel, MonitorsAreJoined, Busy
<1>3. LateChildIsSeen'
  BY DEF IInv, EndInv, TypeOK, TaskTypeOK, OneSpawner, StopsCancel, LateChildIsSeen, TakenOnce, Busy
<1>4. StoppedIsTheLastWord'
  BY DEF IInv, EndInv, TypeOK, TaskTypeOK, OneSpawner, StopsCancel, MonitorsAreJoined, LateChildIsSeen, TakenOnce,
         StoppedIsTheLastWord, Busy
<1>5. FailedLeavesNothing'
  BY DEF IInv, EndInv, TypeOK, TaskTypeOK, OneSpawner, OneRegistration,
         FailedLeavesNothing, OwnWorkerOnly, Unkilled, KillRequested, Busy
<1> QED
  BY <1>1, <1>2, <1>3, <1>4, <1>5 DEF EndInv

LEMMA StopTakesEndInv ==
    ASSUME IInv, EndInv, NEW s \in Stoppers, StopTakes(s)
    PROVE  EndInv'
<1> USE DEF StopTakes
<1>1. StopsCancel'
  BY DEF IInv, EndInv, TypeOK, TaskTypeOK, OneSpawner, StopsAreAnnounced, StopsCancel, Busy
<1>2. MonitorsAreJoined'
  BY DEF IInv, EndInv, TypeOK, TaskTypeOK, OneSpawner, StopsAreAnnounced, StopsCancel, MonitorsAreJoined, Busy
<1>3. LateChildIsSeen'
  BY DEF IInv, EndInv, TypeOK, TaskTypeOK, OneSpawner, StopsCancel, LateChildIsSeen, TakenOnce, Busy
<1>4. StoppedIsTheLastWord'
  BY DEF IInv, EndInv, TypeOK, TaskTypeOK, OneSpawner, StopsCancel, MonitorsAreJoined, LateChildIsSeen, TakenOnce,
         StoppedIsTheLastWord, Busy
<1>5. FailedLeavesNothing'
  BY DEF IInv, EndInv, TypeOK, TaskTypeOK, OneSpawner, OneRegistration,
         FailedLeavesNothing, OwnWorkerOnly, Unkilled, KillRequested, Busy
<1> QED
  BY <1>1, <1>2, <1>3, <1>4, <1>5 DEF EndInv

LEMMA StopSeesExitEndInv ==
    ASSUME IInv, EndInv, NEW s \in Stoppers, StopSeesExit(s)
    PROVE  EndInv'
<1> USE DEF StopSeesExit
<1>1. StopsCancel'
  BY DEF IInv, EndInv, TypeOK, TaskTypeOK, OneSpawner, StopsAreAnnounced, StopsCancel, Busy
<1>2. MonitorsAreJoined'
  BY DEF IInv, EndInv, TypeOK, TaskTypeOK, OneSpawner, StopsAreAnnounced, StopsCancel, MonitorsAreJoined, Busy
<1>3. LateChildIsSeen'
  BY DEF IInv, EndInv, TypeOK, TaskTypeOK, OneSpawner, StopsCancel, LateChildIsSeen, TakenOnce, Busy
<1>4. StoppedIsTheLastWord'
  BY DEF IInv, EndInv, TypeOK, TaskTypeOK, OneSpawner, StopsCancel, MonitorsAreJoined, LateChildIsSeen, TakenOnce,
         StoppedIsTheLastWord, Busy
<1>5. FailedLeavesNothing'
  BY DEF IInv, EndInv, TypeOK, TaskTypeOK, OneSpawner, OneRegistration,
         FailedLeavesNothing, OwnWorkerOnly, Unkilled, KillRequested, Busy
<1> QED
  BY <1>1, <1>2, <1>3, <1>4, <1>5 DEF EndInv

LEMMA StopGraceOverEndInv ==
    ASSUME IInv, EndInv, NEW s \in Stoppers, StopGraceOver(s)
    PROVE  EndInv'
<1> USE DEF StopGraceOver
<1>1. StopsCancel'
  BY DEF IInv, EndInv, TypeOK, TaskTypeOK, OneSpawner, StopsAreAnnounced, StopsCancel, Busy
<1>2. MonitorsAreJoined'
  BY DEF IInv, EndInv, TypeOK, TaskTypeOK, OneSpawner, StopsAreAnnounced, StopsCancel, MonitorsAreJoined, Busy
<1>3. LateChildIsSeen'
  BY DEF IInv, EndInv, TypeOK, TaskTypeOK, OneSpawner, StopsCancel, LateChildIsSeen, TakenOnce, Busy
<1>4. StoppedIsTheLastWord'
  BY DEF IInv, EndInv, TypeOK, TaskTypeOK, OneSpawner, StopsCancel, MonitorsAreJoined, LateChildIsSeen, TakenOnce,
         StoppedIsTheLastWord, Busy
<1>5. FailedLeavesNothing'
  <2>1. Unkilled' \subseteq Unkilled
    BY DEF Unkilled, KillRequested, NotifyKill
  <2>2. \A r \in Stoppers : stopPc'[r] = "grace" => stopPc[r] = "grace" /\ stopChild'[r] = stopChild[r]
    BY DEF IInv, TypeOK, TaskTypeOK, StopGoto
  <2> QED
    BY <2>1, <2>2 DEF EndInv, FailedLeavesNothing, Busy
<1> QED
  BY <1>1, <1>2, <1>3, <1>4, <1>5 DEF EndInv

LEMMA StopForceOverEndInv ==
    ASSUME IInv, EndInv, NEW s \in Stoppers, StopForceOver(s)
    PROVE  EndInv'
<1> USE DEF StopForceOver
<1>1. StopsCancel'
  BY DEF IInv, EndInv, TypeOK, TaskTypeOK, OneSpawner, StopsAreAnnounced, StopsCancel, Busy
<1>2. MonitorsAreJoined'
  BY DEF IInv, EndInv, TypeOK, TaskTypeOK, OneSpawner, StopsAreAnnounced, StopsCancel, MonitorsAreJoined, Busy
<1>3. LateChildIsSeen'
  BY DEF IInv, EndInv, TypeOK, TaskTypeOK, OneSpawner, StopsCancel, LateChildIsSeen, TakenOnce, Busy
<1>4. StoppedIsTheLastWord'
  BY DEF IInv, EndInv, TypeOK, TaskTypeOK, OneSpawner, StopsCancel, MonitorsAreJoined, LateChildIsSeen, TakenOnce,
         StoppedIsTheLastWord, Busy
<1>5. FailedLeavesNothing'
  BY DEF IInv, EndInv, TypeOK, TaskTypeOK, OneSpawner, OneRegistration,
         FailedLeavesNothing, OwnWorkerOnly, Unkilled, KillRequested, Busy
<1> QED
  BY <1>1, <1>2, <1>3, <1>4, <1>5 DEF EndInv

LEMMA StopFinishesEndInv ==
    ASSUME IInv, EndInv, NEW s \in Stoppers, StopFinishes(s)
    PROVE  EndInv'
<1> USE DEF StopFinishes
<1>1. StopsCancel'
  BY DEF IInv, EndInv, TypeOK, TaskTypeOK, OneSpawner, StopsAreAnnounced, StopsCancel, Busy
<1>2. MonitorsAreJoined'
  BY DEF IInv, EndInv, TypeOK, TaskTypeOK, OneSpawner, StopsAreAnnounced, StopsCancel, MonitorsAreJoined, Busy
<1>3. LateChildIsSeen'
  BY DEF IInv, EndInv, TypeOK, TaskTypeOK, OneSpawner, StopsCancel, LateChildIsSeen, TakenOnce, Busy
<1>4. StoppedIsTheLastWord'
  BY DEF IInv, EndInv, TypeOK, TaskTypeOK, OneSpawner, StopsCancel, MonitorsAreJoined, LateChildIsSeen, TakenOnce,
         StoppedIsTheLastWord, Busy
<1>5. FailedLeavesNothing'
  BY DEF IInv, EndInv, TypeOK, TaskTypeOK, OneSpawner, OneRegistration,
         FailedLeavesNothing, OwnWorkerOnly, Unkilled, KillRequested, Busy
<1> QED
  BY <1>1, <1>2, <1>3, <1>4, <1>5 DEF EndInv

-----------------------------------------------------------------------------
(* What EndInv speaks of is not touched by the steps of a worker and of the  *)
(* tasks that tend it.                                                       *)
LEMMA UntouchedEndInv ==
    ASSUME EndInv, UNCHANGED supVars, Unkilled' \subseteq Unkilled
    PROVE  EndInv'
BY DEF EndInv, StopsCancel, MonitorsAreJoined, LateChildIsSeen, TakenOnce,
       StoppedIsTheLastWord, FailedLeavesNothing, Busy

LEMMA NextEndInv ==
    ASSUME "restart_child" \notin Api, IInv, EndInv, [Next]_vars
    PROVE  EndInv'
<1>1. CASE UNCHANGED vars
  BY <1>1, UntouchedEndInv DEF Unkilled, KillRequested
<1>2. ASSUME NEW w \in Attempts, ChildStep(w) PROVE EndInv'
  <2>1. Unkilled' \subseteq Unkilled /\ UNCHANGED supVars
    BY <1>2 DEF ChildStep, ChildNext, WorkerReady, WorkerCrash, WorkerHang, WorkerLeaves,
            KilledWorkerDies, WaitTaskPolled, WaitTaskKills, WaitTaskReaps,
            WatchdogFires, DecodeOverruns, NotifyKill, NotifyKillWaiters, Unkilled, KillRequested
  <2> QED
    BY <2>1, UntouchedEndInv
<1>3. ASSUME NEW c \in Spawners, SpawnerStep(c) PROVE EndInv'
  BY <1>3, AssignmentReapedEndInv, HandshakeReadyEndInv, HandshakeExitedEndInv, HandshakeStallsEndInv,
     HandshakeCancelledEndInv, SpawnerReapsEndInv, PublishReadyEndInv
     DEF SpawnerStep
<1>4. CASE OwnerStep
  <2>1. ~RestartCall
    BY DEF RestartCall
  <2>2. ~RestartSeesExit /\ ~RestartSpawns
    BY DEF IInv, OneSpawner, RestartSeesExit, RestartSpawns
  <2>3. ~RestartStores
    BY DEF IInv, OneSpawner, RestartStores
  <2> QED
    BY <1>4, <2>1, <2>2, <2>3, StartCallEndInv, StartStoresEndInv, CancelTokenEndInv DEF OwnerStep
<1>5. ASSUME NEW l \in Loops, LoopStep(l) PROVE EndInv'
  BY <1>5, LoopCancelledEndInv, LoopSeesExitEndInv, LoopUnregistersEndInv, LoopRecordsFailureEndInv,
     BackoffElapsesEndInv, LoopRespawnsEndInv, LoopStoresEndInv, LoopChecksCancelEndInv, LoopDroppedEndInv
     DEF LoopStep
<1>6. ASSUME NEW s \in Stoppers, StopStep(s) PROVE EndInv'
  <2>1. CASE StopAgain(s)
    BY <2>1, UntouchedEndInv DEF StopAgain, Unkilled, KillRequested
  <2> QED
    BY <1>6, <2>1, StopCallEndInv, StopJoinsEndInv, StopJoinOverrunsEndInv, StopTakesEndInv,
     StopSeesExitEndInv, StopGraceOverEndInv, StopForceOverEndInv, StopFinishesEndInv
       DEF StopStep
<1> QED
  BY <1>1, <1>2, <1>3, <1>4, <1>5, <1>6 DEF Next

(* What a stop and a verdict leave behind is an invariant.                   *)
LEMMA EndInductive ==
  ASSUME "restart_child" \notin Api
  PROVE  Spec => [](IInv /\ EndInv)
<1>1. IInv /\ EndInv /\ [Next]_vars => EndInv'
  BY NextEndInv
<1> QED
  BY <1>1, InitEndInv, Inductive, PTL DEF Spec

-----------------------------------------------------------------------------
(* Once every call of stop has returned, one with Ok and none by aborting    *)
(* the monitor, the supervisor reports Stopped, has no child registered and  *)
(* runs no worker that nobody has sent to its death (process.rs:1282-1329).  *)
THEOREM StopEnds ==
  ASSUME "restart_child" \notin Api
  PROVE  Spec => []StoppedMeansStopped
<1>1. IInv /\ EndInv => StoppedMeansStopped
  <2> SUFFICES ASSUME IInv, EndInv, shutdownComplete, aborted = {}, OwnerFree
               PROVE  health = "Stopped" /\ activeChild = 0 /\ Unkilled = {}
    BY DEF StoppedMeansStopped
  <2>1. isShuttingDown /\ pc[Owner] = "idle" /\ \A s \in Stoppers : stopPc[s] = "idle"
    BY DEF EndInv, StopsCancel, OwnerFree
  <2>2. \A l \in Loops : ~Busy(l)
    BY <2>1 DEF EndInv, MonitorsAreJoined
  <2>3. health = "Stopped"
    BY <2>1 DEF EndInv, StoppedIsTheLastWord
  <2>4. activeChild = 0
    BY <2>2 DEF EndInv, LateChildIsSeen, TakenOnce, Busy
  <2>5. Unkilled = {}
    BY <2>1, <2>2, <2>4, NothingLeft DEF IInv, Busy
  <2> QED
    BY <2>3, <2>4, <2>5
<1> QED
  BY <1>1, EndInductive, PTL

(* Behind a Failed report no worker is left running, unless the owner is     *)
(* starting the next one (process.rs:1198-1203).                             *)
THEOREM FailedIsQuiet ==
  ASSUME "restart_child" \notin Api
  PROVE  Spec => []FailedMeansQuiet
<1>1. IInv /\ EndInv => FailedMeansQuiet
  <2> SUFFICES ASSUME IInv, EndInv, health = "Failed", pc[Owner] = "idle"
               PROVE  Unkilled = {} /\ activeChild = 0
    BY DEF FailedMeansQuiet
  <2>1. /\ activeChild = 0 /\ \A l \in Loops : ~Busy(l)
        /\ \A s \in Stoppers : stopPc[s] = "grace" => stopChild[s] \notin Unkilled
    BY DEF EndInv, FailedLeavesNothing
  <2>2. \A w \in Unkilled : w # 0
    BY DEF IInv, TypeOK, ChildTypeOK, Unkilled, Attempts
  <2> QED
    BY <2>1, <2>2 DEF IInv, NoOrphan, Holds, Taken, Busy
<1> QED
  BY <1>1, EndInductive, PTL

(* The verdict is final: only a completed stop or a new start of the owner   *)
(* replaces Failed (process.rs:1196-1203).                                   *)
THEOREM FailedStays ==
  ASSUME "restart_child" \notin Api
  PROVE  Spec => FailedIsFinal
<1>1. ASSUME IInv, EndInv, [Next]_vars, health = "Failed", health' # "Failed"
      PROVE  health' = "Stopped" \/ pc[Owner] = "publish"
  <2> USE <1>1
  <2>1. \A l \in Loops : ~Busy(l)
    BY DEF EndInv, FailedLeavesNothing
  <2>2. ASSUME NEW c \in Spawners, SpawnerStep(c)
        PROVE  pc[Owner] = "publish"
    <3>1. PublishReady(c)
      BY <2>2 DEF SpawnerStep, AssignmentReaped, HandshakeReady, HandshakeExited,
                  HandshakeStalls, HandshakeCancelled, SpawnerReaps
    <3> QED
      BY <2>1, <3>1 DEF PublishReady, Busy
  <2>3. ASSUME NEW l \in Loops PROVE ~LoopStep(l)
    BY <2>1 DEF LoopStep, LoopCancelled, LoopSeesExit, LoopUnregisters, LoopRecordsFailure,
                BackoffElapses, LoopRespawns, LoopStores, LoopChecksCancel, LoopDropped, AbortPoints, Busy
  <2>4. ~OwnerStep
    BY DEF OwnerStep, StartCall, StartStores, CancelToken, RestartCall, RestartSeesExit,
           RestartSpawns, RestartStores
  <2>5. ASSUME NEW s \in Stoppers, StopStep(s) PROVE health' = "Stopped"
    BY <2>5 DEF StopStep, StopCall, StopAgain, StopJoins, StopJoinOverruns, StopTakes,
                StopSeesExit, StopGraceOver, StopForceOver, StopFinishes
  <2>6. ~UNCHANGED vars /\ \A w \in Attempts : ~ChildStep(w)
    BY DEF ChildStep
  <2> QED
    BY <2>2, <2>3, <2>4, <2>5, <2>6 DEF Next
<1>2. IInv /\ EndInv /\ [Next]_vars =>
          [health = "Failed" /\ health' # "Failed"
              => health' = "Stopped" \/ pc[Owner] = "publish"]_vars
  BY <1>1
<1> QED
  BY <1>2, EndInductive, PTL DEF Spec, FailedIsFinal
=============================================================================
