----------------------------- MODULE Supervisor -----------------------------
(***************************************************************************)
(* ProcessSupervisor: crates/liveaudio-core/src/supervisor/process.rs.     *)
(*                                                                         *)
(* The tasks that touch the supervisor's shared state are                  *)
(*   - the owner's call of start or restart_child (spawner Owner),         *)
(*   - the monitor loop spawned by the k-th such call (spawner k),         *)
(*   - the callers of stop (Stoppers).                                     *)
(* A step goes from one await point to the next; an await of a Mutex ends  *)
(* a step where another task may read or write what the lock protects.     *)
(* Deadlines and sleeps may end whenever their task is waiting.            *)
(*                                                                         *)
(* Left out: log and event-bus messages, the restart counter, and the Job  *)
(* Object's kill when the supervisor itself is dropped.                    *)
(***************************************************************************)
EXTENDS ChildProcess

CONSTANTS
    MaxCalls,      \* bound: calls of start and restart_child
    MaxFailures,   \* config.max_failures
    AutoRespawn,   \* config.auto_respawn
    Stoppers,      \* tasks that may call stop
    Api            \* what callers use besides one start and stop

ApiExtras == {"start_again", "restart_child", "cancel_token"}

ASSUME SupervisorAssumption ==
    /\ MaxCalls \in Nat /\ MaxFailures \in Nat \ {0}
    /\ AutoRespawn \in BOOLEAN
    /\ Api \subseteq ApiExtras

VARIABLES
    activeChild,       \* active_child: 0 is None
    isShuttingDown, shutdownComplete,
    cancelled,         \* cancellation_token
    failures,          \* failure_timestamps in the respawn tracker's window
    health,            \* state of the HealthStateMachine
    loopSlot,          \* supervisor_loop_handle: 0 is None
    aborted,           \* loops whose JoinHandle was aborted
    calls,             \* calls of start and restart_child so far
    op,                \* which of the two the owner's last call was
    pc, child,         \* per spawner: where it is, the worker it holds
    stopPc, stopChild, stopLoop   \* the same per caller of stop

sharedVars == <<activeChild, isShuttingDown, shutdownComplete, cancelled,
                failures, health>>
handleVars == <<loopSlot, aborted, calls, op>>
spawnVars  == <<pc, child>>
stopVars   == <<stopPc, stopChild, stopLoop>>
supVars    == <<sharedVars, handleVars, spawnVars, stopVars>>
vars       == <<childVars, supVars>>

Owner    == 0
Loops    == 1 .. MaxCalls
Spawners == {Owner} \cup Loops

SpawnPc == {"idle", "assign", "handshake", "reap", "publish", "store",
            "restart_wait", "watch", "unregister", "record", "backoff",
            "respawn", "check", "done"}

SharedTypeOK ==
    /\ activeChild \in 0 .. attempt
    /\ isShuttingDown \in BOOLEAN /\ shutdownComplete \in BOOLEAN
    /\ cancelled \in BOOLEAN
    /\ failures \in Nat
    /\ health \in {"Initializing", "Ready", "Degraded", "Failed", "Stopped"}

HandleTypeOK ==
    /\ loopSlot \in 0 .. MaxCalls
    /\ aborted \subseteq Loops
    /\ calls \in 0 .. MaxCalls
    /\ op \in {"start", "restart"}

TaskTypeOK ==
    /\ pc \in [Spawners -> SpawnPc]
    /\ child \in [Spawners -> 0 .. attempt]
    /\ stopPc \in [Stoppers -> {"idle", "join", "take", "grace", "force", "finish"}]
    /\ stopChild \in [Stoppers -> 0 .. attempt]
    /\ stopLoop \in [Stoppers -> 0 .. MaxCalls]

TypeOK == ChildTypeOK /\ SharedTypeOK /\ HandleTypeOK /\ TaskTypeOK

Init ==
    /\ ChildInit
    /\ activeChild = 0
    /\ isShuttingDown = FALSE /\ shutdownComplete = FALSE /\ cancelled = FALSE
    /\ failures = 0
    /\ health = "Initializing"
    /\ loopSlot = 0 /\ aborted = {} /\ calls = 0 /\ op = "start"
    /\ pc = [c \in Spawners |-> "idle"]
    /\ child = [c \in Spawners |-> 0]
    /\ stopPc = [s \in Stoppers |-> "idle"]
    /\ stopChild = [s \in Stoppers |-> 0]
    /\ stopLoop = [s \in Stoppers |-> 0]

-----------------------------------------------------------------------------
\* spawn_and_handshake, run by the owner or by a monitor loop.

Goto(c, label) == pc' = [pc EXCEPT ![c] = label]

\* Mutant: a failed respawn ends the monitor.
GivesUp(c) == IF c = Owner THEN "idle" ELSE "done"

\* Where a spawner goes when spawn_and_handshake returns an error: the call
\* returns it; a loop counts it as a failure unless stop has cancelled it.
AfterFailure(c) ==
    IF c = Owner THEN "idle" ELSE IF cancelled THEN "done" ELSE "record"

\* From fetch_add on worker_attempt to the handshake or an early error.
Spawn(c) ==
    \/ /\ Spawned
       /\ Goto(c, "handshake")
       /\ child' = [child EXCEPT ![c] = attempt + 1]
    \/ /\ NotAssigned
       /\ Goto(c, "assign")
       /\ child' = [child EXCEPT ![c] = attempt + 1]
    \/ /\ NotSpawned
       /\ Goto(c, AfterFailure(c))
       /\ child' = [child EXCEPT ![c] = 0]

\* handle_job_assignment: child.wait() returns after start_kill.
AssignmentReaped(c) ==
    /\ pc[c] = "assign"
    /\ child[c] \notin live
    /\ Goto(c, AfterFailure(c))
    /\ UNCHANGED <<childVars, sharedVars, handleVars, child, stopVars>>

HandshakeReady(c) ==
    /\ pc[c] = "handshake"
    /\ child[c] \in ready
    /\ Goto(c, "publish")
    /\ UNCHANGED <<childVars, sharedVars, handleVars, child, stopVars>>

\* The other arms of the select!: the worker is killed, and its stdin closes
\* when the senders are dropped with the returning function.
HandshakeExited(c) ==
    /\ pc[c] = "handshake"
    /\ child[c] \in exitPermit
    /\ exitPermit' = exitPermit \ {child[c]}
    /\ NotifyKill(child[c])
    /\ asked' = asked \cup {child[c]}
    /\ Goto(c, AfterFailure(c))
    /\ UNCHANGED <<attempt, live, hung, ready, unpolled, polled, killed, exited,
                   watchdog, faults, sharedVars, handleVars, child, stopVars>>

HandshakeStalls(c) ==
    /\ pc[c] = "handshake"
    /\ \/ child[c] \in hung /\ UNCHANGED faults
       \/ Fault
    /\ NotifyKill(child[c])
    /\ asked' = asked \cup {child[c]}
    /\ Goto(c, AfterFailure(c))
    /\ UNCHANGED <<attempt, live, hung, ready, unpolled, polled, killed, exited,
                   exitPermit, watchdog, sharedVars, handleVars, child, stopVars>>

\* A loop hears the supervisor's token, start hears its caller's, and
\* restart_child passes none.
HandshakeCancelled(c) ==
    /\ pc[c] = "handshake"
    /\ IF c = Owner THEN op = "start" /\ Fault ELSE cancelled /\ UNCHANGED faults
    /\ NotifyKill(child[c])
    /\ Goto(c, "reap")
    /\ UNCHANGED <<procVars, unpolled, polled, killed, exited, exitPermit,
                   watchdog, sharedVars, handleVars, child, stopVars>>

\* wait_for_child_exit, after a cancelled handshake or in the loop's own
\* check for cancellation.
SpawnerReaps(c) ==
    /\ pc[c] = "reap"
    /\ child[c] \in exited
    /\ Goto(c, AfterFailure(c))
    /\ UNCHANGED <<childVars, sharedVars, handleVars, child, stopVars>>

\* The guard is disarmed; Ready is published and the watchdog started.
PublishReady(c) ==
    /\ pc[c] = "publish"
    /\ health' = "Ready"
    /\ watchdog' = watchdog \cup {child[c]}
    /\ Goto(c, "store")
    /\ UNCHANGED <<procVars, unpolled, polled, killPermit, killed, exited,
                   exitPermit, faults, activeChild, isShuttingDown,
                   shutdownComplete, cancelled, failures, handleVars, child, stopVars>>

-----------------------------------------------------------------------------
\* The owner's calls.  start and restart_child take &mut self, so neither
\* runs while a stop (&self) does.

OwnerFree == pc[Owner] = "idle" /\ \A s \in Stoppers : stopPc[s] = "idle"

LoopsQuiet == \A l \in Loops : pc[l] \in {"idle", "done"}

\* start_internal_cancellable.  With a child registered it returns Ok at
\* once.  How it is used: production starts each supervisor once; nobody
\* calls it again while the monitor loop of an earlier call is at work.
StartCall ==
    /\ OwnerFree /\ calls < MaxCalls
    /\ calls = 0 \/ "start_again" \in Api
    /\ activeChild = 0
    /\ LoopsQuiet
    /\ calls' = calls + 1 /\ op' = "start"
    /\ isShuttingDown' = FALSE /\ shutdownComplete' = FALSE
    /\ Spawn(Owner)
    /\ UNCHANGED <<activeChild, cancelled, failures, health, loopSlot, aborted, stopVars>>

StartStores ==
    /\ pc[Owner] = "store" /\ op = "start"
    /\ activeChild' = child[Owner]
    /\ IF AutoRespawn
       THEN /\ pc' = [pc EXCEPT ![Owner] = "idle", ![calls] = "watch"]
            /\ child' = [child EXCEPT ![calls] = child[Owner]]
            /\ loopSlot' = calls
       ELSE /\ Goto(Owner, "idle")
            /\ UNCHANGED <<child, loopSlot>>
    /\ UNCHANGED <<childVars, isShuttingDown, shutdownComplete, cancelled,
                   failures, health, aborted, calls, op, stopVars>>

\* restart_child takes the child, kills it and waits 500 ms for its exit.  How
\* it could be used, production calling it nowhere: on a child whose monitor
\* has left, before a stop.  Beside a monitor, which takes the kill for a crash
\* and respawns, it would leave two workers.
RestartCall ==
    /\ "restart_child" \in Api
    /\ OwnerFree /\ calls < MaxCalls
    /\ activeChild # 0 /\ LoopsQuiet /\ ~isShuttingDown
    /\ calls' = calls + 1 /\ op' = "restart"
    /\ activeChild' = 0
    /\ NotifyKillWaiters(activeChild)
    /\ Goto(Owner, "restart_wait")
    /\ child' = [child EXCEPT ![Owner] = activeChild]
    /\ UNCHANGED <<procVars, unpolled, polled, killed, exited, exitPermit,
                   watchdog, faults, isShuttingDown, shutdownComplete, cancelled,
                   failures, health, loopSlot, aborted, stopVars>>

RestartSeesExit ==
    /\ pc[Owner] = "restart_wait"
    /\ child[Owner] \in exitPermit
    /\ exitPermit' = exitPermit \ {child[Owner]}
    /\ child' = [child EXCEPT ![Owner] = 0]
    /\ UNCHANGED <<procVars, unpolled, polled, killPermit, killed, exited,
                   watchdog, faults, sharedVars, handleVars, pc, stopVars>>

RestartSpawns ==
    /\ pc[Owner] = "restart_wait"
    /\ Spawn(Owner)
    /\ UNCHANGED <<sharedVars, handleVars, stopVars>>

RestartStores ==
    /\ pc[Owner] = "store" /\ op = "restart"
    /\ activeChild' = child[Owner]
    /\ Goto(Owner, "idle")
    /\ UNCHANGED <<childVars, isShuttingDown, shutdownComplete, cancelled,
                   failures, health, handleVars, child, stopVars>>

\* The token is public: cancellation_token().cancel().
CancelToken ==
    /\ "cancel_token" \in Api
    /\ ~cancelled
    /\ cancelled' = TRUE
    /\ UNCHANGED <<childVars, activeChild, isShuttingDown, shutdownComplete,
                   failures, health, handleVars, spawnVars, stopVars>>

-----------------------------------------------------------------------------
\* The monitor loop.

LoopCancelled(l) ==
    /\ pc[l] \in {"watch", "backoff"}
    /\ cancelled
    /\ Goto(l, "done")
    /\ UNCHANGED <<childVars, sharedVars, handleVars, child, stopVars>>

\* current_exit_notify: the end of a worker is a failure, unless stopping.
LoopSeesExit(l) ==
    /\ pc[l] = "watch"
    /\ child[l] \in exitPermit
    /\ exitPermit' = exitPermit \ {child[l]}
    /\ Goto(l, IF isShuttingDown THEN "done" ELSE "unregister")
    /\ UNCHANGED <<procVars, unpolled, polled, killPermit, killed, exited,
                   watchdog, faults, sharedVars, handleVars, child, stopVars>>

\* Mutant: the dead worker stays registered.
LoopUnregistersNothing(l) ==
    /\ pc[l] = "unregister"
    /\ Goto(l, "record")
    /\ UNCHANGED <<childVars, sharedVars, handleVars, child, stopVars>>

\* A stop may have been announced, and have taken the dead worker, meanwhile.
LoopUnregisters(l) ==
    /\ pc[l] = "unregister"
    /\ activeChild' = 0
    /\ Goto(l, "record")
    /\ UNCHANGED <<childVars, isShuttingDown, shutdownComplete, cancelled,
                   failures, health, handleVars, child, stopVars>>

\* Mutant: the loop goes on after Failed.
LoopRecordsFailureGoesOn(l) ==
    /\ pc[l] = "record"
    /\ Goto(l, "backoff")
    /\ \E kept \in 0 .. failures :
        /\ failures' = kept + 1
        /\ health' = IF kept + 1 >= MaxFailures THEN "Failed" ELSE "Degraded"
    /\ UNCHANGED <<childVars, activeChild, isShuttingDown, shutdownComplete,
                   cancelled, handleVars, child, stopVars>>

\* RespawnTracker::record_failure: prune forgets any number of old failures,
\* then the new one is counted against the ceiling.
LoopRecordsFailure(l) ==
    /\ pc[l] = "record"
    /\ \E kept \in 0 .. failures :
        /\ failures' = kept + 1
        /\ IF kept + 1 >= MaxFailures
           THEN health' = "Failed" /\ Goto(l, "done")
           ELSE health' = "Degraded" /\ Goto(l, "backoff")
    /\ UNCHANGED <<childVars, activeChild, isShuttingDown, shutdownComplete,
                   cancelled, handleVars, child, stopVars>>

\* Mutant: is_shutting_down is not looked at after the sleep.
BackoffElapsesRegardless(l) ==
    /\ pc[l] = "backoff"
    /\ Goto(l, "respawn")
    /\ UNCHANGED <<childVars, sharedVars, handleVars, child, stopVars>>

\* The sleep may win the select! even when the token is cancelled.
BackoffElapses(l) ==
    /\ pc[l] = "backoff"
    /\ Goto(l, IF isShuttingDown THEN "done" ELSE "respawn")
    /\ UNCHANGED <<childVars, sharedVars, handleVars, child, stopVars>>

\* Neither is_shutting_down nor the token is looked at again: a stop announced
\* since then finds the worker in its handshake, or registered.
LoopRespawns(l) ==
    /\ pc[l] = "respawn"
    /\ Spawn(l)
    /\ UNCHANGED <<sharedVars, handleVars, stopVars>>

LoopStores(l) ==
    /\ pc[l] = "store"
    /\ activeChild' = child[l]
    /\ Goto(l, "check")
    /\ UNCHANGED <<childVars, isShuttingDown, shutdownComplete, cancelled,
                   failures, health, handleVars, child, stopVars>>

\* Stop may have cancelled after its take: reap what is registered.
LoopChecksCancel(l) ==
    /\ pc[l] = "check"
    /\ IF ~cancelled
       THEN Goto(l, "watch") /\ UNCHANGED <<killPermit, activeChild, child>>
       ELSE /\ activeChild' = 0
            /\ IF activeChild = 0
               THEN Goto(l, "done") /\ UNCHANGED <<killPermit, child>>
               ELSE /\ NotifyKill(activeChild)
                    /\ child' = [child EXCEPT ![l] = activeChild]
                    /\ Goto(l, "reap")
    /\ UNCHANGED <<procVars, unpolled, polled, killed, exited, exitPermit, watchdog,
                   faults, isShuttingDown, shutdownComplete, cancelled, failures,
                   health, handleVars, stopVars>>

\* An aborted task runs on until an await suspends it, and is dropped there.
\* A Mutex here does not suspend: by the time the loop is aborted nobody else
\* holds one for longer than an assignment.  Dropping a handshake runs the
\* armed StartupKillGuard.
AbortPoints == {"watch", "backoff", "assign", "handshake", "reap"}

LoopDropped(l) ==
    /\ l \in aborted
    /\ pc[l] \in AbortPoints
    /\ Goto(l, "done")
    /\ IF pc[l] = "handshake"
       THEN NotifyKill(child[l]) /\ asked' = asked \cup {child[l]}
       ELSE UNCHANGED <<killPermit, asked>>
    /\ UNCHANGED <<attempt, live, hung, ready, unpolled, polled, killed, exited,
                   exitPermit, watchdog, faults, sharedVars, handleVars, child, stopVars>>

-----------------------------------------------------------------------------
\* stop_internal.

StopGoto(s, label) == stopPc' = [stopPc EXCEPT ![s] = label]

StopCall(s) ==
    /\ pc[Owner] = "idle" /\ stopPc[s] = "idle"
    /\ ~shutdownComplete
    /\ isShuttingDown' = TRUE /\ cancelled' = TRUE
    /\ stopLoop' = [stopLoop EXCEPT ![s] = loopSlot]
    /\ loopSlot' = 0
    /\ StopGoto(s, "join")
    /\ UNCHANGED <<childVars, activeChild, shutdownComplete, failures, health,
                   aborted, calls, op, spawnVars, stopChild>>

StopAgain(s) ==
    /\ pc[Owner] = "idle" /\ stopPc[s] = "idle"
    /\ shutdownComplete
    /\ UNCHANGED vars

\* Mutant: stop tells the loop to go and does not wait for it.
StopDoesNotJoin(s) ==
    /\ stopPc[s] = "join"
    /\ StopGoto(s, "take")
    /\ UNCHANGED <<childVars, sharedVars, handleVars, spawnVars, stopChild, stopLoop>>

StopJoins(s) ==
    /\ stopPc[s] = "join"
    /\ stopLoop[s] = 0 \/ pc[stopLoop[s]] = "done"
    /\ StopGoto(s, "take")
    /\ UNCHANGED <<childVars, sharedVars, handleVars, spawnVars, stopChild, stopLoop>>

StopJoinOverruns(s) ==
    /\ stopPc[s] = "join"
    /\ stopLoop[s] # 0 /\ pc[stopLoop[s]] # "done"
    /\ aborted' = aborted \cup {stopLoop[s]}
    /\ StopGoto(s, "take")
    /\ UNCHANGED <<childVars, sharedVars, loopSlot, calls, op, spawnVars,
                   stopChild, stopLoop>>

\* The watchdog is aborted and "shutdown" is queued to the worker.
StopTakes(s) ==
    /\ stopPc[s] = "take"
    /\ activeChild' = 0
    /\ IF activeChild = 0
       THEN StopGoto(s, "finish") /\ UNCHANGED <<asked, watchdog, stopChild>>
       ELSE /\ watchdog' = watchdog \ {activeChild}
            /\ asked' = asked \cup {activeChild}
            /\ stopChild' = [stopChild EXCEPT ![s] = activeChild]
            /\ StopGoto(s, "grace")
    /\ UNCHANGED <<attempt, live, hung, ready, unpolled, polled, killPermit, killed,
                   exited, exitPermit, faults, isShuttingDown, shutdownComplete,
                   cancelled, failures, health, handleVars, spawnVars, stopLoop>>

StopSeesExit(s) ==
    /\ stopPc[s] \in {"grace", "force"}
    /\ stopChild[s] \in exited
    /\ StopGoto(s, "finish")
    /\ UNCHANGED <<childVars, sharedVars, handleVars, spawnVars, stopChild, stopLoop>>

\* Mutant: the kill waits for the exit it is to bring about.
StopGraceUnbounded(s) ==
    /\ stopPc[s] = "grace" /\ stopChild[s] \in exited
    /\ NotifyKill(stopChild[s])
    /\ StopGoto(s, "force")
    /\ UNCHANGED <<procVars, unpolled, polled, killed, exited, exitPermit, watchdog,
                   faults, sharedVars, handleVars, spawnVars, stopChild, stopLoop>>

StopGraceOver(s) ==
    /\ stopPc[s] = "grace"
    /\ NotifyKill(stopChild[s])
    /\ StopGoto(s, "force")
    /\ UNCHANGED <<procVars, unpolled, polled, killed, exited, exitPermit, watchdog,
                   faults, sharedVars, handleVars, spawnVars, stopChild, stopLoop>>

\* ShutdownTimeout: the child stays taken and shutdown_complete unset.
StopForceOver(s) ==
    /\ stopPc[s] = "force"
    /\ StopGoto(s, "idle")
    /\ UNCHANGED <<childVars, sharedVars, handleVars, spawnVars, stopChild, stopLoop>>

StopFinishes(s) ==
    /\ stopPc[s] = "finish"
    /\ shutdownComplete' = TRUE
    /\ health' = "Stopped"
    /\ StopGoto(s, "idle")
    /\ UNCHANGED <<childVars, activeChild, isShuttingDown, cancelled, failures,
                   handleVars, spawnVars, stopChild, stopLoop>>

-----------------------------------------------------------------------------
ChildStep(w) == ChildNext(w) /\ UNCHANGED supVars

SpawnerStep(c) ==
    \/ AssignmentReaped(c) \/ HandshakeReady(c) \/ HandshakeExited(c)
    \/ HandshakeStalls(c) \/ HandshakeCancelled(c) \/ SpawnerReaps(c)
    \/ PublishReady(c)

OwnerStep ==
    \/ StartCall \/ StartStores \/ CancelToken
    \/ RestartCall \/ RestartSeesExit \/ RestartSpawns \/ RestartStores

LoopStep(l) ==
    \/ LoopCancelled(l) \/ LoopSeesExit(l) \/ LoopUnregisters(l)
    \/ LoopRecordsFailure(l) \/ BackoffElapses(l) \/ LoopRespawns(l)
    \/ LoopStores(l) \/ LoopChecksCancel(l) \/ LoopDropped(l)

StopStep(s) ==
    \/ StopCall(s) \/ StopAgain(s) \/ StopJoins(s) \/ StopJoinOverruns(s)
    \/ StopTakes(s) \/ StopSeesExit(s) \/ StopGraceOver(s) \/ StopForceOver(s)
    \/ StopFinishes(s)

Next ==
    \/ \E w \in Attempts : ChildStep(w)
    \/ \E c \in Spawners : SpawnerStep(c)
    \/ OwnerStep
    \/ \E l \in Loops : LoopStep(l)
    \/ \E s \in Stoppers : StopStep(s)

Spec == Init /\ [][Next]_vars

\* The runtime polls every task and its timers expire.  Nobody has to call
\* start, stop or restart_child, and no fault has to happen.
Generations == 1 .. (2 * MaxCalls + MaxFaults)   \* bound: attempts in a run

Fairness ==
    /\ \A w \in Generations : ChildFairness(w)
    /\ \A c \in Spawners :
        /\ WF_vars(AssignmentReaped(c)) /\ WF_vars(HandshakeReady(c))
        /\ WF_vars(HandshakeExited(c))
        /\ WF_vars(child[c] \in hung /\ HandshakeStalls(c))
        /\ WF_vars(c # Owner /\ HandshakeCancelled(c))
        /\ WF_vars(SpawnerReaps(c)) /\ WF_vars(PublishReady(c))
    /\ WF_vars(StartStores) /\ WF_vars(RestartSpawns) /\ WF_vars(RestartStores)
    /\ \A l \in Loops : WF_vars(LoopStep(l))
    /\ \A s \in Stoppers :
        WF_vars(stopPc[s] # "idle" /\ StopStep(s))

FairSpec == Spec /\ Fairness

-----------------------------------------------------------------------------
\* Spawner c has a worker that nothing else refers to.
Holds(c, w) == child[c] = w /\ pc[c] \in {"handshake", "publish", "store"}

\* Stop s has taken w from active_child and gives it time to leave.
Taken(s, w) == stopChild[s] = w /\ stopPc[s] = "grace"

\* No worker is lost (process.rs:6): while it runs and nobody has sent it to
\* its death, it is the registered child, or in the hands of the task that
\* is starting it or of the stop that has taken it.
NoOrphan ==
    \A w \in Unkilled :
        \/ w = activeChild
        \/ \E c \in Spawners : Holds(c, w)
        \/ \E s \in Stoppers : Taken(s, w)

\* The child registered for commands is always the newest attempt: events of
\* older generations can be told from its own (worker_attempt, process.rs:1145).
NewestIsRegistered == activeChild \in {0, attempt}

\* Once every call of stop has returned, one with Ok and none by aborting the
\* monitor loop, the supervisor reports Stopped, has no child registered, and
\* each worker still running has been sent to its death (process.rs:1282-1329).
StoppedMeansStopped ==
    shutdownComplete /\ aborted = {} /\ OwnerFree =>
        health = "Stopped" /\ activeChild = 0 /\ Unkilled = {}

\* Failed is reported only when no worker is left running behind it, until
\* the owner starts the next one (process.rs:1198-1203).
FailedMeansQuiet ==
    health = "Failed" /\ pc[Owner] = "idle" => Unkilled = {} /\ activeChild = 0

\* The policy's verdict is final: only a completed stop or a new start of the
\* owner replaces Failed (process.rs:1196-1203).
FailedIsFinal ==
    [][health = "Failed" /\ health' # "Failed"
        => health' = "Stopped" \/ pc[Owner] = "publish"]_vars

\* At most one worker is on lease at a time and no attempt number is given out
\* twice.  Once a stop is announced, no respawn is admitted until the next start:
\* what may still come is the one attempt whose look at is_shutting_down went
\* before the announcement (process.rs:1221-1236, 1279).
Admitted(l) == pc[l] = "respawn"

Lease == INSTANCE WorkerLease WITH
    generation <- attempt, holders <- Unkilled, open <- ~isShuttingDown,
    admitted <- \E l \in Loops : Admitted(l)
ImplementsLease == Lease!Spec

\* A worker that stops reacting is dead in the end, however far its start or
\* its stop has come: stall window, watchdog and forced stop leave no gap.
HungWorkerDies == \A w \in Generations : w \in hung ~> w \notin live

\* A registered worker that has died does not stay registered, unless the
\* monitor has been told to go (process.rs:1177-1185).
CrashIsHandled ==
    \A w \in Generations :
        activeChild = w /\ w \notin live ~> activeChild # w \/ cancelled

\* Degraded is a passing state: the respawn succeeds, or the policy gives up,
\* or the supervisor is stopped (process.rs:1190-1260).
RecoveryConcludes ==
    health = "Degraded" ~> health # "Degraded" \/ cancelled

\* Every call returns, whatever the worker does: stop within its deadlines,
\* start because a worker that is not ready in the end is silent.
CallsReturn ==
    /\ \A s \in Stoppers : stopPc[s] # "idle" ~> stopPc[s] = "idle"
    /\ pc[Owner] # "idle" ~> pc[Owner] = "idle"

-----------------------------------------------------------------------------
\* While nobody calls restart_child under a monitor, a restarted or respawned
\* worker replaces the one before it (process.rs:1237, 1432): two that nobody
\* has sent to their death never run side by side.
OneWorkerAtATime == \A v, w \in Unkilled : v = w

\* What a comment of the code says, and the code does not do in every
\* interleaving; refuted by a run of its own.

\* "Only a confirmed worker exit is reported as stopped"
\* (crates/liveaudio-cli/src/main.rs:1148, of the Ok that stop returns): after
\* a start that succeeded and a stop that joined the monitor, no worker runs.
OkMeansGone ==
    shutdownComplete /\ OwnerFree /\ aborted = {} /\ (\E l \in Loops : pc[l] = "done")
        => live = {}

-----------------------------------------------------------------------------
\* The inductive invariant behind NoOrphan, NewestIsRegistered and Lease, for
\* callers that do not use restart_child.

Busy(c) == pc[c] \notin {"idle", "done"}

\* One task starts or supervises workers at a time, and a start excludes the
\* callers of stop.
OneSpawner ==
    /\ \A c, d \in Spawners : Busy(c) /\ Busy(d) => c = d
    /\ pc[Owner] # "idle" =>
        calls \in Loops /\ op = "start" /\ \A s \in Stoppers : stopPc[s] = "idle"
    /\ pc[Owner] # "restart_wait"

\* A reaped worker is dead, and only a reaped one leaves an exit permit.
ReapedIsDead == exitPermit \subseteq exited /\ exited \cap live = {}

\* The registered child is nobody's business but the monitor's that watches it.
OneRegistration ==
    \A c \in Spawners :
        /\ Busy(c) /\ pc[c] \notin {"watch", "unregister", "check"} => activeChild = 0
        /\ pc[c] \in {"watch", "unregister", "check"} => activeChild \in {0, child[c]}

\* What runs beside a task that starts or supervises workers is its own, also
\* when a stop has taken it.
OwnWorkerOnly ==
    \A c \in Spawners :
        Busy(c) =>
            \A w \in Unkilled :
                /\ w = child[c]
                /\ pc[c] \in {"handshake", "publish", "store", "watch", "check"}

StopsAreAnnounced ==
    \A s \in Stoppers :
        /\ stopPc[s] # "idle" => isShuttingDown
        /\ stopPc[s] \in {"grace", "force"} => stopChild[s] \in Attempts

StartsTheNewest ==
    \A c \in Spawners :
        pc[c] \in {"handshake", "publish", "store"} =>
            child[c] = attempt /\ attempt \in Attempts

IInv ==
    /\ TypeOK
    /\ OneSpawner /\ ReapedIsDead /\ OneRegistration
    /\ StopsAreAnnounced /\ StartsTheNewest
    /\ NoOrphan /\ NewestIsRegistered /\ OneWorkerAtATime /\ OwnWorkerOnly
=============================================================================
