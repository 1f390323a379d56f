--------------------------------- MODULE Service ---------------------------------
(***************************************************************************)
(* Who runs the service: the desktop's start, stop, restart, repair and    *)
(* exit, which take turns under its transition_lock (commands.rs, lib.rs), *)
(* its watch over a foreign service, the headless process (cli main.rs),   *)
(* and the lock file they share (service_lock.rs).  What runs inside a     *)
(* service is the business of the other modules.                           *)
(***************************************************************************)
EXTENDS Naturals, Sequences

CONSTANTS
    MaxCalls,     \* bound: commands of the user
    MaxLaunches,  \* bound: launches of the headless service
    MaxFaults     \* bound: steps that fail

ASSUME ServiceAssumption == {MaxCalls, MaxLaunches, MaxFaults} \subseteq Nat

VARIABLES
    turn,      \* transition_lock, which is fair: its holder and who waits behind
    step,      \* where the holder is
    p,         \* AppState: what the desktop's service consists of
    tokens,    \* startup_cancel_token and runtime_setup_token
    runtime,   \* the managed Python runtime: root, staging directory, and whether the root is
               \* aside because moving it back has failed
    lock,      \* who has locked byte 0 of service.lock
    mine,      \* state.service_lock
    foreign,   \* state.foreign_service
    probe,     \* service_lock_holder, run by the watch or by the call whose turn it is
    watch,     \* watch_foreign_service
    app,       \* the desktop process: "up", "exiting" or "gone"
    cli,       \* run_service of the headless process
    leaving,   \* headless processes that have left run_service and not ended: whether
               \* it failed, and what of them is at work
    unlocked,  \* history: the desktop's service runs without the lock
    calls, launches, faults

owner == <<lock, mine, unlocked>>
cliVars == <<cli, leaving>>
others == <<foreign, probe, watch, app, cliVars, calls, launches>>
vars == <<turn, step, p, tokens, runtime, owner, others, faults>>

Commands == {"start", "stop", "restart", "prepare"}
Probers == {"watch", "call"}

(* created: ws_created_here.  startup, event, audio: the tasks.  stop: shutdown_error. *)
Stopped == [running |-> FALSE, asr |-> "stopped", ws |-> FALSE, created |-> FALSE,
            worker |-> "none", startup |-> FALSE, event |-> FALSE, audio |-> FALSE,
            capture |-> FALSE, sink |-> FALSE, cancelled |-> FALSE, stop |-> "ok"]

NoTokens == [startup |-> "none", setup |-> "none"]

Init ==
    /\ turn = <<>> /\ step = "begin" /\ p = Stopped /\ tokens = NoTokens
    /\ runtime \in [root : {"absent", "ready"}, staged : {FALSE}, stranded : {FALSE}]
    /\ lock = "free" /\ mine = FALSE /\ unlocked = FALSE /\ foreign = FALSE
    /\ probe = [a \in Probers |-> IF a = "watch" THEN "check" ELSE "no"]
    /\ watch = "launch" /\ app = "up"
    /\ cli = "off" /\ leaving = {}
    /\ calls = 0 /\ launches = 0 /\ faults = 0

(***************************************************************************)
(* Turns.                                                                  *)
(***************************************************************************)

Starters == {"start", "restart", "watch"}

(* A step of the call whose turn it is. *)
Holds(kinds, s) == turn # <<>> /\ Head(turn) \in kinds /\ step = s
At(s) == turn # <<>> /\ step = s
Go(s) == step' = s /\ UNCHANGED <<turn, others>>

Succeeds == UNCHANGED faults
Fails == faults < MaxFaults /\ faults' = faults + 1

(* The call returns; the watch goes back to sleep, or tries once more when it *)
(* met somebody else's lock (retry_once_if_already_running).                  *)
Return(refused) ==
    /\ turn' = Tail(turn) /\ step' = "begin" /\ tokens' = NoTokens
    /\ watch' = IF Head(turn) # "watch" THEN watch
                ELSE IF refused /\ watch = "starting" THEN "retry" ELSE "asleep"
    /\ UNCHANGED <<foreign, probe, app, cliVars, calls, launches>>

UserCalls(k) ==
    /\ app # "gone" /\ calls < MaxCalls
    /\ calls' = calls + 1
    /\ turn' = Append(turn, k)
    /\ UNCHANGED <<step, p, tokens, runtime, owner, foreign, probe, watch, app, cliVars, launches, faults>>

Cancelled(t) == IF t = "none" THEN t ELSE "cancelled"

(* cancel_runtime_setup takes no turn. *)
CancelSetup ==
    /\ tokens # NoTokens
    /\ tokens' = [t \in DOMAIN tokens |-> Cancelled(tokens[t])]
    /\ UNCHANGED <<turn, step, p, runtime, owner, others, faults>>

(* Exit cancels a start under way, whose setup token is a child of its own, and waits. *)
ExitRequested ==
    /\ app = "up" /\ app' = "exiting"
    /\ turn' = Append(turn, "exit")
    /\ tokens' = IF tokens.startup = "none" THEN tokens
                 ELSE [t \in DOMAIN tokens |-> Cancelled(tokens[t])]
    /\ UNCHANGED <<step, p, runtime, owner, foreign, probe, watch, cliVars, calls, launches, faults>>

(* The process ends when exit has had its turn, and at a deadline wherever it is; *)
(* a worker it still had finds its pipes closed.                                  *)
AppLeaves ==
    /\ app = "exiting" /\ app' = "gone"
    /\ turn' = <<>> /\ step' = "begin" /\ tokens' = NoTokens
    /\ p' = [Stopped EXCEPT !.worker = IF p.worker = "none" THEN "none" ELSE "stray"]
    /\ lock' = IF lock = "cli" THEN lock ELSE "free"
    /\ mine' = FALSE /\ unlocked' = FALSE /\ foreign' = FALSE
    /\ probe' = [a \in Probers |-> "no"] /\ watch' = "asleep"
    /\ UNCHANGED <<runtime, cliVars, calls, launches, faults>>

(***************************************************************************)
(* The lock, and who else has it.                                          *)
(***************************************************************************)

GivesBack ==
    /\ lock' = IF mine THEN "free" ELSE lock
    /\ mine' = FALSE /\ unlocked' = FALSE

(* acquire_service_lock: byte 0 is locked ... *)
Locks ==
    /\ At("acquire") /\ lock = "free"
    /\ lock' = "desktop" /\ UNCHANGED <<mine, unlocked>>
    /\ Go("keep")
    /\ UNCHANGED <<p, tokens, runtime, faults>>

(* ... and only then kept where a refresh looks for it. *)
KeepsLock ==
    /\ At("keep")
    /\ mine' = TRUE /\ UNCHANGED <<lock, unlocked>>
    /\ Go("load")
    /\ UNCHANGED <<p, tokens, runtime, faults>>

(* A lock that cannot be opened does not keep the desktop from starting. *)
LockUnavailable ==
    /\ At("acquire") /\ Fails
    /\ unlocked' = TRUE /\ UNCHANGED <<lock, mine>>
    /\ Go("load")
    /\ UNCHANGED <<p, tokens, runtime>>

(* Somebody has it: the call looks who, and is refused. *)
Refused ==
    /\ At("acquire") /\ lock # "free"
    /\ probe' = [probe EXCEPT !["call"] = "check"]
    /\ step' = "refused"
    /\ UNCHANGED <<turn, p, tokens, runtime, owner, foreign, watch, app, cliVars, calls, launches, faults>>

RefusedReturns ==
    /\ At("refused") /\ probe["call"] = "no"
    /\ Return(TRUE)
    /\ UNCHANGED <<p, runtime, owner, faults>>

(* refresh_foreign_service has its answer; a poll that finds nobody starts the service. *)
Answers(a, held) ==
    /\ probe' = [probe EXCEPT ![a] = "no"]
    /\ foreign' = held
    /\ IF a = "watch" /\ watch = "poll" /\ ~held
       THEN watch' = "starting" /\ turn' = Append(turn, "watch")
       ELSE /\ watch' = IF a = "watch" THEN "asleep" ELSE watch
            /\ UNCHANGED turn

(* Mutant: a refresh does not ask whether the lock is the desktop's own. *)
AsksNobody(a) ==
    /\ probe[a] = "check"
    /\ probe' = [probe EXCEPT ![a] = "look"]
    /\ UNCHANGED <<foreign, watch, turn, lock>>

(* A lock this desktop holds is not foreign ... *)
AsksItself(a) ==
    /\ probe[a] = "check"
    /\ IF mine THEN Answers(a, FALSE) /\ UNCHANGED lock
       ELSE /\ probe' = [probe EXCEPT ![a] = "look"]
            /\ UNCHANGED <<foreign, watch, turn, lock>>

(* ... any other is, and outside Windows finding that out takes the lock for a moment. *)
Looks(a) ==
    /\ probe[a] = "look"
    /\ \/ lock # "free" /\ probe' = [probe EXCEPT ![a] = "held"] /\ UNCHANGED lock
       \/ lock = "free" /\ probe' = [probe EXCEPT ![a] = "nobody"] /\ UNCHANGED lock
       \/ lock = "free" /\ probe' = [probe EXCEPT ![a] = "taken"] /\ lock' = a
    /\ UNCHANGED <<foreign, watch, turn>>

LetsGo(a) ==
    /\ probe[a] = "taken"
    /\ probe' = [probe EXCEPT ![a] = "nobody"] /\ lock' = "free"
    /\ UNCHANGED <<foreign, watch, turn>>

Concludes(a) ==
    /\ probe[a] \in {"held", "nobody"}
    /\ Answers(a, probe[a] = "held")
    /\ UNCHANGED lock

Probing(a) ==
    /\ AsksItself(a) \/ Looks(a) \/ LetsGo(a) \/ Concludes(a)
    /\ UNCHANGED <<step, p, tokens, runtime, mine, unlocked, app, cliVars, calls, launches, faults>>

(* The watch polls while it monitors a foreign service. *)
WatchPolls ==
    /\ watch = "asleep" /\ foreign /\ app # "gone"
    /\ watch' = "poll"
    /\ probe' = [probe EXCEPT !["watch"] = "check"]
    /\ UNCHANGED <<turn, step, p, tokens, runtime, owner, foreign, app, cliVars, calls, launches, faults>>

WatchRetries ==
    /\ watch = "retry" /\ watch' = "again"
    /\ turn' = Append(turn, "watch")
    /\ UNCHANGED <<step, p, tokens, runtime, owner, foreign, probe, app, cliVars, calls, launches, faults>>

(***************************************************************************)
(* The managed runtime.                                                    *)
(***************************************************************************)

PrepareBegins ==
    /\ Holds({"prepare"}, "begin") /\ ~p.running
    /\ tokens' = [tokens EXCEPT !.setup = "live"]
    /\ runtime' = [runtime EXCEPT !.staged = TRUE]
    /\ Go("sync")
    /\ UNCHANGED <<p, owner, faults>>

PrepareRefused ==
    /\ Holds({"prepare"}, "begin") /\ p.running
    /\ Return(FALSE)
    /\ UNCHANGED <<p, runtime, owner, faults>>

Syncs ==
    /\ At("sync") /\ Succeeds
    /\ Go("publish")
    /\ UNCHANGED <<p, tokens, runtime, owner>>

(* What is left of the staging directory is removed on every way out. *)
NotProvisioned(left) ==
    /\ runtime' = [left EXCEPT !.staged = FALSE]
    /\ IF Head(turn) = "prepare" THEN Return(FALSE) /\ UNCHANGED p
       ELSE /\ Go("giveback")
            /\ p' = [p EXCEPT !.asr = "stopped"]
            /\ tokens' = [tokens EXCEPT !.setup = "none"]
    /\ UNCHANGED owner

Provisioned ==
    /\ runtime' = [root |-> "ready", staged |-> FALSE, stranded |-> FALSE]
    /\ IF Head(turn) = "prepare" THEN Return(FALSE)
       ELSE Go("preflight") /\ tokens' = [tokens EXCEPT !.setup = "none"]
    /\ UNCHANGED <<p, owner>>

SyncFails ==
    /\ At("sync")
    /\ IF tokens.setup = "cancelled" THEN Succeeds ELSE Fails
    /\ NotProvisioned(runtime)

(* publish_staged_runtime: a runtime that is there is moved aside ... *)
MovesAside ==
    /\ At("publish") /\ runtime.root = "ready" /\ Succeeds
    /\ runtime' = [runtime EXCEPT !.root = "aside"]
    /\ Go("swap")
    /\ UNCHANGED <<p, tokens, owner>>

Publishes ==
    /\ Succeeds
    /\ \/ At("publish") /\ runtime.root # "ready"
       \/ At("swap")
    /\ Provisioned

PublishFails == At("publish") /\ Fails /\ NotProvisioned(runtime)

(* ... and moved back when the new one cannot take its place; whether that works is *)
(* not looked at, and what keeps the one from moving may keep the other.           *)
SwapFails ==
    /\ At("swap") /\ Fails
    /\ \/ NotProvisioned([runtime EXCEPT !.root = "ready"])
       \/ NotProvisioned([runtime EXCEPT !.stranded = TRUE])

(***************************************************************************)
(* Start.                                                                  *)
(***************************************************************************)

AlreadyRunning ==
    /\ Holds({"start", "watch"}, "begin") /\ p.running
    /\ Return(FALSE)
    /\ UNCHANGED <<p, runtime, owner, faults>>

StartBegins ==
    /\ Holds(Starters, "begin") /\ ~p.running
    /\ tokens' = [tokens EXCEPT !.startup = "live"]
    /\ Go("acquire")
    /\ UNCHANGED <<p, runtime, owner, faults>>

(* The audio runtime of the bundle is loaded; a missing worker runtime is provisioned. *)
Loads ==
    /\ At("load") /\ Succeeds
    /\ p' = [p EXCEPT !.asr = "starting"]
    /\ IF runtime.root = "ready" THEN Go("preflight") /\ UNCHANGED <<tokens, runtime>>
       ELSE /\ Go("sync")
            /\ tokens' = [tokens EXCEPT !.setup = tokens.startup]
            /\ runtime' = [runtime EXCEPT !.staged = TRUE]
    /\ UNCHANGED owner

LoadFails ==
    /\ At("load") /\ Fails
    /\ Go("giveback")
    /\ UNCHANGED <<p, tokens, runtime, owner>>

Preflight ==
    /\ At("preflight") /\ Succeeds
    /\ Go("ws")
    /\ UNCHANGED <<p, tokens, runtime, owner>>

PreflightFails ==
    /\ At("preflight") /\ Fails
    /\ p' = [p EXCEPT !.asr = "stopped"]
    /\ Go("giveback")
    /\ UNCHANGED <<tokens, runtime, owner>>

(* ensure_startup_websocket; the worker and the forwarder of its events. *)
ServerReady ==
    /\ At("ws") /\ Succeeds
    /\ p' = [p EXCEPT !.ws = TRUE, !.created = ~p.ws, !.worker = "up", !.startup = TRUE]
    /\ Go("handshake")
    /\ UNCHANGED <<tokens, runtime, owner>>

(* The port cannot be bound, or the supervisor cannot be made. *)
ServerFails(bound) ==
    /\ At("ws") /\ Fails
    /\ p' = [p EXCEPT !.ws = @ \/ bound, !.created = bound /\ ~p.ws]
    /\ Go("undo")
    /\ UNCHANGED <<tokens, runtime, owner>>

(* The worker is ready: the forwarder is joined, the event task takes over. *)
HandshakeReady ==
    /\ At("handshake") /\ Succeeds
    /\ p' = [p EXCEPT !.startup = FALSE, !.asr = "listening", !.running = TRUE,
                      !.event = TRUE, !.cancelled = FALSE]
    /\ Go("capture")
    /\ UNCHANGED <<tokens, runtime, owner>>

(* The worker is not ready, or the start was cancelled. *)
HandshakeFails ==
    /\ At("handshake")
    /\ IF tokens.startup = "cancelled" THEN Succeeds ELSE Fails
    /\ p' = [p EXCEPT !.startup = FALSE]
    /\ Go("reap")
    /\ UNCHANGED <<tokens, runtime, owner>>

(* The worker after stop_internal; of a supervisor that a task still holds only *)
(* the token is cancelled.                                                      *)
WorkerAfter(outcome) == IF p.audio THEN "shared" ELSE outcome

StopCosts(outcome) == IF outcome = "none" THEN Succeeds ELSE Fails

ReapsWorker(outcome) ==
    /\ At("reap") /\ StopCosts(outcome)
    /\ p' = [p EXCEPT !.worker = WorkerAfter(outcome)]
    /\ Go("undo")
    /\ UNCHANGED <<tokens, runtime, owner>>

(* rollback_failed_start_before_audio *)
Undoes ==
    /\ At("undo") /\ Succeeds
    /\ p' = [p EXCEPT !.ws = @ /\ ~p.created, !.running = FALSE, !.asr = "stopped"]
    /\ Go("giveback")
    /\ UNCHANGED <<tokens, runtime, owner>>

CaptureOpens ==
    /\ At("capture") /\ Succeeds
    /\ p' = [p EXCEPT !.capture = TRUE]
    /\ Go("vad")
    /\ UNCHANGED <<tokens, runtime, owner>>

(* Capture, the VAD or the session files fail. *)
AudioStartFails ==
    /\ step \in {"capture", "vad"} /\ At(step) /\ Fails
    /\ p' = [p EXCEPT !.capture = FALSE, !.cancelled = TRUE]
    /\ Go("rollback")
    /\ UNCHANGED <<tokens, runtime, owner>>

Starts ==
    /\ At("vad") /\ Succeeds
    /\ \E sinks \in BOOLEAN : p' = [p EXCEPT !.sink = sinks, !.audio = TRUE]
    /\ Return(FALSE)
    /\ UNCHANGED <<runtime, owner>>

(* Mutant: the event task is not waited for. *)
RollsBackAtOnce(outcome) ==
    /\ At("rollback") /\ StopCosts(outcome)
    /\ p' = [p EXCEPT !.worker = WorkerAfter(outcome), !.ws = @ /\ ~p.created, !.sink = FALSE,
                      !.running = FALSE, !.asr = "stopped"]
    /\ Go("giveback")
    /\ UNCHANGED <<tokens, runtime, owner>>

(* rollback_failed_audio_start *)
RollsBack(outcome) ==
    /\ At("rollback") /\ ~p.event /\ StopCosts(outcome)
    /\ p' = [p EXCEPT !.worker = WorkerAfter(outcome), !.ws = @ /\ ~p.created, !.sink = FALSE,
                      !.running = FALSE, !.asr = "stopped"]
    /\ Go("giveback")
    /\ UNCHANGED <<tokens, runtime, owner>>

(* A failed start gives the lock back last. *)
StartFails ==
    /\ At("giveback")
    /\ GivesBack
    /\ Return(FALSE)
    /\ UNCHANGED <<p, runtime, faults>>

(***************************************************************************)
(* Stop.                                                                   *)
(***************************************************************************)

NotRunning ==
    /\ Holds({"stop", "exit"}, "begin") /\ ~p.running
    /\ Return(FALSE)
    /\ UNCHANGED <<p, runtime, owner, faults>>

(* Mutant: the tasks are waited for and not told to end. *)
StopsUncancelled ==
    /\ Holds({"stop", "restart", "exit"}, "begin") /\ p.running
    /\ p' = [p EXCEPT !.asr = "stopping", !.running = FALSE, !.stop = "ok"]
    /\ tokens' = IF Head(turn) = "restart" THEN [tokens EXCEPT !.startup = "live"] ELSE tokens
    /\ Go("join")
    /\ UNCHANGED <<runtime, owner, faults>>

StopBegins ==
    /\ Holds({"stop", "restart", "exit"}, "begin") /\ p.running
    /\ p' = [p EXCEPT !.asr = "stopping", !.running = FALSE, !.cancelled = TRUE, !.stop = "ok"]
    /\ tokens' = IF Head(turn) = "restart" THEN [tokens EXCEPT !.startup = "live"] ELSE tokens
    /\ Go("join")
    /\ UNCHANGED <<runtime, owner, faults>>

(* Mutant: a stop gives the lock back as soon as the tasks have ended. *)
TasksJoinedUnlocks ==
    /\ At("join") /\ ~p.event /\ ~p.audio /\ Succeeds
    /\ p' = [p EXCEPT !.sink = FALSE]
    /\ GivesBack
    /\ Go("stopworker")
    /\ UNCHANGED <<tokens, runtime>>

(* The tasks have ended, the session files are closed, well or not. *)
TasksJoined ==
    /\ At("join") /\ ~p.event /\ ~p.audio
    /\ \/ Succeeds /\ p' = [p EXCEPT !.sink = FALSE]
       \/ Fails /\ p.sink /\ p' = [p EXCEPT !.sink = FALSE, !.stop = "failed"]
    /\ Go("stopworker")
    /\ UNCHANGED <<tokens, runtime, owner>>

StopsWorker(outcome) ==
    /\ At("stopworker") /\ StopCosts(outcome)
    /\ p' = [p EXCEPT !.worker = WorkerAfter(outcome),
                      !.stop = IF WorkerAfter(outcome) = "none" THEN @ ELSE "failed"]
    /\ Go("stopserver")
    /\ UNCHANGED <<tokens, runtime, owner>>

(* stop_active_websocket, and the end of shutdown_service_resources; a restart goes on. *)
StopsServer ==
    /\ At("stopserver")
    /\ LET result == IF p.stop = "ok" THEN "stopped" ELSE "error"
       IN  p' = [p EXCEPT !.ws = FALSE, !.asr = result]
    /\ GivesBack
    /\ IF Head(turn) = "restart" /\ p.stop = "ok" THEN Go("acquire") /\ UNCHANGED tokens
       ELSE Return(FALSE)
    /\ UNCHANGED <<runtime, faults>>

(***************************************************************************)
(* The tasks of a running service, as far as the calls see them.           *)
(***************************************************************************)

Task ==
    UNCHANGED <<turn, step, tokens, runtime, owner, others>>

(* What the worker reports is written into asr_state. *)
WorkerReports ==
    /\ p.startup \/ p.event
    /\ p.asr # "reported" /\ p' = [p EXCEPT !.asr = "reported"]
    /\ Task /\ Succeeds

EventTaskEnds ==
    /\ p.event /\ p.cancelled
    /\ p' = [p EXCEPT !.event = FALSE]
    /\ Task /\ Succeeds

(* The audio task stops capture when it ends, cancelled or because capture is over. *)
AudioTaskEnds ==
    /\ p.audio /\ IF p.cancelled THEN Succeeds ELSE Fails
    /\ p' = [p EXCEPT !.audio = FALSE, !.capture = FALSE]
    /\ Task

(***************************************************************************)
(* The headless service.                                                   *)
(***************************************************************************)

Cli(from, to) ==
    /\ cli = from /\ cli' = to
    /\ UNCHANGED <<turn, step, p, tokens, runtime, mine, unlocked, foreign, probe, watch, app,
                   calls, faults>>

(* What may be at work of a process that is in run_service. *)
Parts == {"server", "worker", "microphone"}

PartsAt(at) ==
    CASE at \in {"off", "loading"} -> {}
      [] at = "serving" -> Parts
      [] at = "stopped" -> {"server"}

(* It does not try twice for the lock. *)
CliLaunches ==
    /\ launches < MaxLaunches /\ launches' = launches + 1
    /\ IF lock = "free" THEN Cli("off", "loading") /\ lock' = "cli"
       ELSE Cli("off", "off") /\ UNCHANGED lock
    /\ UNCHANGED leaving

(* Its server is bound, its worker started and capture opened; when it is told to *)
(* stop, the audio task is joined and the worker stopped.                         *)
CliGoesOn ==
    /\ Cli("loading", "serving") \/ Cli("serving", "stopped")
    /\ UNCHANGED <<lock, leaving, launches>>

(* run_service is over, and with it the lock; nobody has stopped its server. *)
CliReturns ==
    /\ Cli("stopped", "off")
    /\ lock' = "free"
    /\ leaving' = leaving \cup {[failed |-> FALSE, parts |-> PartsAt(cli)]}
    /\ UNCHANGED launches

(* An error leaves at work what was started before it, a kill at most the worker. *)
CliFails ==
    /\ cli \in {"loading", "serving"} /\ Cli(cli, "off")
    /\ lock' = "free"
    /\ leaving' = leaving \cup [failed : {TRUE}, parts : {PartsAt(cli)} \ {{}}]
    /\ UNCHANGED launches

(* The runtime is dropped with its tasks, and the process ends. *)
CliEnds ==
    /\ leaving # {} /\ leaving' = {}
    /\ UNCHANGED <<turn, step, p, tokens, runtime, owner, foreign, probe, watch, app, cli,
                   calls, launches, faults>>

(***************************************************************************)
(* The specification.                                                      *)
(***************************************************************************)

CallStep ==
    \/ AlreadyRunning \/ StartBegins \/ Locks \/ KeepsLock \/ LockUnavailable
    \/ Refused \/ RefusedReturns \/ Loads \/ LoadFails \/ Preflight \/ PreflightFails
    \/ PrepareBegins \/ PrepareRefused \/ Syncs \/ SyncFails
    \/ MovesAside \/ Publishes \/ PublishFails \/ SwapFails
    \/ ServerReady \/ \E bound \in BOOLEAN : ServerFails(bound)
    \/ HandshakeReady \/ HandshakeFails \/ Undoes
    \/ CaptureOpens \/ AudioStartFails \/ Starts \/ StartFails
    \/ \E outcome \in {"none", "stray"} :
           ReapsWorker(outcome) \/ RollsBack(outcome) \/ StopsWorker(outcome)
    \/ NotRunning \/ StopBegins \/ TasksJoined \/ StopsServer

TaskStep == EventTaskEnds \/ AudioTaskEnds

Next ==
    \/ \E k \in Commands : UserCalls(k)
    \/ CancelSetup \/ ExitRequested \/ AppLeaves
    \/ CallStep \/ TaskStep \/ WorkerReports
    \/ \E a \in Probers : Probing(a)
    \/ WatchPolls \/ WatchRetries
    \/ CliLaunches \/ CliGoesOn \/ CliReturns \/ CliFails \/ CliEnds

Spec == Init /\ [][Next]_vars

(* The runtime polls every task, uv ends, and so do the handshake and the deadlines. *)
FairSpec ==
    /\ Spec
    /\ WF_vars(CallStep) /\ WF_vars(EventTaskEnds) /\ WF_vars(AudioTaskEnds)
    /\ WF_vars(AppLeaves) /\ WF_vars(WatchPolls) /\ WF_vars(WatchRetries)
    /\ \A a \in Probers : WF_vars(Probing(a))

(***************************************************************************)
(* Properties.                                                             *)
(***************************************************************************)

(* One pipeline per data home: the desktop's server, worker and microphone never  *)
(* overlap with those of a headless service that is in run_service, unless the    *)
(* lock could not be opened; of one that has left it, and has not failed, only    *)
(* the server is still there.  A worker whose stop failed is not counted.         *)
OnePipeline ==
    ~unlocked /\ (p.ws \/ p.capture \/ p.worker = "up") =>
        /\ PartsAt(cli) = {}
        /\ \A left \in leaving : left.failed \/ left.parts \subseteq {"server"}

(* When no call has the turn and the service does not run, nothing of it is left: *)
(* no server, worker, task, microphone, files, lock, token, or staging directory, *)
(* the runtime is where it was, unless moving it back has failed, and the state   *)
(* shown says so.                                                                 *)
NothingLeftBehind ==
    turn = <<>> /\ ~p.running =>
        /\ ~p.ws /\ p.worker \in {"none", "stray"} /\ ~p.capture /\ ~p.sink
        /\ ~p.startup /\ ~p.event /\ ~p.audio
        /\ ~mine /\ lock # "desktop" /\ tokens = NoTokens
        /\ p.asr \in {"stopped", "error"}
        /\ app # "gone" => (runtime.root = "aside" => runtime.stranded) /\ ~runtime.staged

(* When the last run_service is over, monitor mode ends for good. *)
MonitorEnds == <>[](cli = "off") => <>[]~foreign

(* Every call gets its turn and returns, and with it the watch and exit. *)
CallsReturn == []<>(turn = <<>>)
================================================================================
