---------------------------- MODULE ChildProcess ----------------------------
(***************************************************************************)
(* One worker process of the supervisor and the Tokio tasks that tend it:  *)
(* crates/liveaudio-core/src/supervisor/process.rs, spawn_and_handshake.   *)
(*                                                                         *)
(* Every spawn takes the next attempt number, and a worker is named by it. *)
(* What the code keeps per child in an AtomicBool, in a Notify permit or   *)
(* in the progress of a task is kept here as the set of the workers it     *)
(* holds for.  Most of these sets only grow.                               *)
(***************************************************************************)
EXTENDS Naturals

CONSTANT MaxFaults   \* bound: how often the environment may misbehave

ASSUME MaxFaultsAssumption == MaxFaults \in Nat

VARIABLES
    attempt,     \* worker_attempt: number of the newest worker
    live,        \* operating-system processes that are running
    hung,        \* processes that no longer react to anything but a kill
    ready,       \* is_ready: the reader task has seen the "ready" event
    asked,       \* told to leave: "shutdown" written, or stdin closed
    unpolled,    \* wait task spawned, not yet polled
    polled,      \* wait task polled: its select! has started
    killPermit,  \* kill_notify has been notified, not yet consumed
    killed,      \* start_kill has been issued
    exited,      \* exited: the wait task has reaped the process
    exitPermit,  \* exit_notify holds a permit
    watchdog,    \* the ping watchdog task is running
    faults       \* faults of the environment so far

procVars   == <<attempt, live, hung, ready, asked>>
tenderVars == <<unpolled, polled, killPermit, killed, exited, exitPermit, watchdog>>
childVars  == <<procVars, tenderVars, faults>>

Attempts == 1 .. attempt

ChildTypeOK ==
    /\ attempt \in Nat
    /\ faults \in 0 .. MaxFaults
    /\ live \subseteq Attempts /\ hung \subseteq Attempts
    /\ ready \subseteq Attempts /\ asked \subseteq Attempts
    /\ unpolled \subseteq Attempts /\ polled \subseteq Attempts
    /\ killPermit \subseteq Attempts /\ killed \subseteq Attempts
    /\ exited \subseteq Attempts /\ exitPermit \subseteq Attempts
    /\ watchdog \subseteq Attempts

ChildInit ==
    /\ attempt = 0 /\ faults = 0
    /\ live = {} /\ hung = {} /\ ready = {} /\ asked = {}
    /\ unpolled = {} /\ polled = {} /\ killPermit = {} /\ killed = {}
    /\ exited = {} /\ exitPermit = {} /\ watchdog = {}

-----------------------------------------------------------------------------
\* Nothing more has to happen for w to be killed: the wait task holds the
\* request, or has already acted on it.
KillRequested(w) == w \in killPermit \cup killed

\* Workers nobody has sent to their death yet.
Unkilled == {w \in live : ~KillRequested(w)}

\* The select! of the wait task is still pending on kill_notify.
AwaitsKill(w) == w \in polled \ (killed \cup exited)

\* Mutant: the notification is forgotten.
NoNotice(w) == killPermit' = killPermit

\* notify_waiters on kill_notify: wakes a wait task that is pending on it and
\* leaves nothing behind for one that is not.
NotifyKillWaiters(w) ==
    killPermit' = IF AwaitsKill(w) THEN killPermit \cup {w} ELSE killPermit

\* notify_one on kill_notify: wakes the wait task or leaves it a permit.
NotifyKill(w) == killPermit' = killPermit \cup {w}

Fault == faults < MaxFaults /\ faults' = faults + 1

-----------------------------------------------------------------------------
\* The three ways a spawn begins.  A failed Command::spawn still uses up an
\* attempt number; a failed Job Object assignment kills the process it has.
Spawned ==
    /\ attempt' = attempt + 1
    /\ live' = live \cup {attempt + 1}
    /\ unpolled' = unpolled \cup {attempt + 1}
    /\ UNCHANGED <<hung, ready, asked, polled, killPermit, killed, exited,
                   exitPermit, watchdog, faults>>

NotSpawned ==
    /\ Fault
    /\ attempt' = attempt + 1
    /\ UNCHANGED <<live, hung, ready, asked, tenderVars>>

NotAssigned ==
    /\ Fault
    /\ attempt' = attempt + 1
    /\ live' = live \cup {attempt + 1}
    /\ killed' = killed \cup {attempt + 1}
    /\ UNCHANGED <<hung, ready, asked, unpolled, polled, killPermit, exited,
                   exitPermit, watchdog>>

-----------------------------------------------------------------------------
\* The process.  Its "ready" line may be read after it has gone.  The wait
\* task has been polled by then (a timing assumption: a spawned task is polled
\* at once, a worker needs a while to start and print its first line).
WorkerReady(w) ==
    /\ w \in polled \ (ready \cup hung)
    /\ ready' = ready \cup {w}
    /\ UNCHANGED <<attempt, live, hung, asked, tenderVars, faults>>

WorkerCrash(w) ==
    /\ w \in live
    /\ Fault
    /\ live' = live \ {w}
    /\ UNCHANGED <<attempt, hung, ready, asked, tenderVars>>

WorkerHang(w) ==
    /\ w \in live \ hung
    /\ Fault
    /\ hung' = hung \cup {w}
    /\ UNCHANGED <<attempt, live, ready, asked, tenderVars>>

\* The worker obeys a "shutdown" command or the end of its stdin.
WorkerLeaves(w) ==
    /\ w \in (live \cap asked) \ hung
    /\ live' = live \ {w}
    /\ UNCHANGED <<attempt, hung, ready, asked, tenderVars, faults>>

KilledWorkerDies(w) ==
    /\ w \in live \cap killed
    /\ live' = live \ {w}
    /\ UNCHANGED <<attempt, hung, ready, asked, tenderVars, faults>>

\* The wait task: select! over child.wait() and the kill request, then
\* exited = true and notify_one on exit_notify.  A waiter that sees the flag
\* before the permit does not wait, so the two are one step.
WaitTaskPolled(w) ==
    /\ w \in unpolled
    /\ unpolled' = unpolled \ {w}
    /\ polled' = polled \cup {w}
    /\ UNCHANGED <<procVars, killPermit, killed, exited, exitPermit, watchdog, faults>>

WaitTaskKills(w) ==
    /\ AwaitsKill(w) /\ w \in killPermit
    /\ killPermit' = killPermit \ {w}
    /\ killed' = killed \cup {w}
    /\ UNCHANGED <<procVars, unpolled, polled, exited, exitPermit, watchdog, faults>>

\* Mutant: the exited flag is set, and nobody is notified.
WaitTaskReapsSilently(w) ==
    /\ w \in polled \ (exited \cup live)
    /\ exited' = exited \cup {w}
    /\ UNCHANGED <<procVars, unpolled, polled, killPermit, killed, exitPermit,
                   watchdog, faults>>

WaitTaskReaps(w) ==
    /\ w \in polled \ (exited \cup live)
    /\ exited' = exited \cup {w}
    /\ exitPermit' = exitPermit \cup {w}
    /\ UNCHANGED <<procVars, unpolled, polled, killPermit, killed, watchdog, faults>>

\* No pong for watchdog_timeout.
WatchdogFires(w) ==
    /\ w \in watchdog \cap hung
    /\ watchdog' = watchdog \ {w}
    /\ NotifyKillWaiters(w)
    /\ UNCHANGED <<procVars, unpolled, polled, killed, exited, exitPermit, faults>>

\* The worker still answers pings, but one decode has run past its deadline.
DecodeOverruns(w) ==
    /\ w \in (live \cap ready) \ hung
    /\ Fault
    /\ NotifyKill(w)
    /\ UNCHANGED <<procVars, unpolled, polled, killed, exited, exitPermit, watchdog>>

ChildNext(w) ==
    \/ WorkerReady(w) \/ WorkerCrash(w) \/ WorkerHang(w)
    \/ WorkerLeaves(w) \/ KilledWorkerDies(w)
    \/ WaitTaskPolled(w) \/ WaitTaskKills(w) \/ WaitTaskReaps(w)
    \/ WatchdogFires(w) \/ DecodeOverruns(w)

\* The runtime polls every task, a kill works, and a worker that is neither
\* hung nor dead loads its model and obeys.
ChildFairness(w) ==
    /\ WF_childVars(w \in live /\ WorkerReady(w))
    /\ WF_childVars(WorkerLeaves(w))
    /\ WF_childVars(KilledWorkerDies(w))
    /\ WF_childVars(WaitTaskPolled(w))
    /\ WF_childVars(WaitTaskKills(w))
    /\ WF_childVars(WaitTaskReaps(w))
    /\ WF_childVars(WatchdogFires(w))
=============================================================================
