# LiveAudio: a TLA+ model of the service

LiveAudio turns speech into subtitles. Audio is captured and cut into utterances by Rust
crates, decoded by a Python worker process, and delivered to OBS over a WebSocket and to
the files of a session. This directory models the parts of it where tasks, threads,
processes and failures meet, checks them with TLC on small instances, and proves their safety
properties with TLAPS.

## 1. Inventory

Paths are relative to `src/`; `core`, `network`, `audio`, `vad` and `cli` stand for
`crates/liveaudio-*`.

| Part | State it keeps | Operations | Hard because | What makes it correct | Here |
|---|---|---|---|---|---|
| Process supervisor `core/supervisor/process.rs`, respawn policy, watchdog | `active_child`, shutdown flags, a cancellation token, health, attempt counter, the monitor's join handle | `start`, `stop`, `restart_child`, the monitor's respawn | six kinds of tasks share it; every await is an interleaving point; tasks are cancelled and aborted | no worker lost, one at a time, nothing started while stopping, verdicts final, calls return | `Supervisor`, `ChildProcess`, `WorkerLease` |
| WebSocket server `network/server.rs`, `replay.rs` | clients, replay history, paced queue, retry queues, counters | broadcast, join, leave, start, stop | broadcasts against joins; back-pressure; peers that never read | each client sees each payload once, in order; every drop counted; stop ends it all | `SubtitleServer` |
| Resilient capture `audio/resilient.rs`, sources `cpal_source.rs`, `ring_buffer.rs` | status, the open stream and its thread, two channels | open, forward, reconnect, stall, stop | a callback, a thread, a task and a watchdog race over one stream | order, no silent loss, one stream, capture comes back, stop releases | `Capture` |
| Resampling, noise suppression `resampler.rs`, `rnnoise.rs` | remainders and a phase | process, drain, flush | block sizes that do not divide one another | nothing lost or doubled at a block's edge | `Resampler`, `NoiseSuppressor` |
| VAD and acoustic events `vad/silero.rs`, `core/acoustic_events.rs` | hysteresis, pre-buffer; the open event | frame in, phrase out; start and end | forced cuts, failures in the middle of a phrase | no speech falls between phrases; events alternate | `Vad`, `Speech` |
| Utterance correlation and emit policy `network/replay.rs` | pending utterances, at most 100 | track, complete, remove | late answers of dead workers, a lagging receiver | timing belongs to the utterance it is given to | `Speech` |
| Subtitle sinks `core/sink/*` | queues, counters, open files | emit, drain, stop, resume | counters without a lock; one of two fails | numbers increase; a stop reports what was not written | `SessionFiles` |
| Service lock `core/service_lock.rs` | OS lock, pid and port in the file | acquire, probe, drop | two processes; a probe takes what it looks at | one pipeline per data home | `Service` |
| Desktop lifecycle `desktop/src-tauri/src/commands.rs`, `lib.rs` | pipeline slots under a transition lock | start, stop, restart, repair, cancel, exit, watch | cancelled half-way; a roll-back that fails | everything acquired is released; calls return | `Service` |
| Runtime provisioning `core/runtime.rs` | the managed runtime, a staging and a backup directory | stage, sync, publish, roll back | cancel or failure between two renames | the old or the new runtime is in place, unless the way back fails too | `Service` |
| Configuration `core/config/mod.rs` | `config.json`, a lock file, the copy in memory | load, migrate, save | three programs, stale locks, crashes | what was saved stays; calls return | `ConfigStore` |
| CLI service `cli/main.rs` | the wiring of all of these | serve | meets the desktop at the lock | one of the two runs | `Service`, `Speech`, `ConfigStore` |
| Python worker `service/asr_worker*.py` | command queue, decode in flight | init, transcribe, cancel, shutdown | reader thread against decode thread | one answer per utterance | as a process in `ChildProcess`, as a queue in `Speech` |

**How they interact.** The desktop or the headless CLI loads the configuration
(`ConfigStore`), takes the service lock, starts the WebSocket server and the supervisor and
opens the capture (`Service` has these as steps that may fail, and undoes them). Chunks go
from `Capture` to the audio task, which cuts them into utterances and sends them to the
worker over a bounded queue; answers come back on a broadcast channel, are matched with the
pending utterances by the event task (`Speech`) and become cues for the session's files
(`SessionFiles`) and for the server (`SubtitleServer`). A generation number
(`worker_attempt`) tells the workers of the `Supervisor` apart.

The modules are composed where components share state: `Speech` extends `Vad` and
`SessionFiles`, `Capture` extends `NoiseSuppressor`, `Supervisor` extends `ChildProcess` and
implements `WorkerLease`. Between the others runs a channel whose behaviour both sides
assume (a bounded queue that drops or refuses, a broadcast that lags), and which each module
has as its environment; a product of two such modules would be out of TLC's reach.

## 2. Modules

Operators whose comment begins with "Mutant" are faulty variants of the definition they
precede. No specification uses them; each shows that a property would notice the fault.
Variables described as history record what happened, for the properties; no guard reads
them. In every module a fault (a crash, an I/O error, a suspended holder) is an action or an
outcome that spends one of `MaxFaults`; deadlines and sleeps may end whenever their task waits.

### `ChildProcess`, `Supervisor`, `WorkerLease`

`ChildProcess` is one worker and the tasks that tend it, as sets of worker numbers: what the
code keeps per child in an `AtomicBool`, a `Notify` permit or the progress of a task is the
set of workers it holds for. The two kinds of notification are told apart: `NotifyKill`
(`notify_one`, leaves a permit) and `NotifyKillWaiters` (`notify_waiters`, only reaches a wait
task that is pending).

| code | here |
|---|---|
| process running; reacting; told to leave | `live`, `hung`, `asked` |
| `is_ready`, `exited`, `exit_notify`, `kill_notify` | `ready`, `exited`, `exitPermit`, `killPermit` |
| wait task spawned, polled, `start_kill` issued | `unpolled`, `polled`, `killed` |
| ping watchdog running | `watchdog` |

`Supervisor` extends it with `ProcessSupervisor`: the owner's calls of `start` and
`restart_child`, the monitor loop each start spawns, and concurrent callers of `stop`. `pc`
and `stopPc` say at which await each task is; a step goes from one await to the next.
`HandshakeReady/Exited/Stalls/Cancelled` are the arms of the handshake's `select!`,
`LoopCancelled/LoopSeesExit` those of the monitor's, `StopCall ... StopFinishes` the phases
of `stop_internal`. The monitor looks at `is_shutting_down` and acts on it in two steps, as a stop
on another thread sees it: `LoopSeesExit` then `LoopUnregisters`, `BackoffElapses` then `LoopRespawns`. `Api` says which calls an instance has besides one start and stop.

`WorkerLease` is what the supervisor promises, without its tasks: requests are admitted while it is
open, generations are granted one at a time to what was admitted, and revoked. Closing it does not
call back the one request admitted before: a stop announced between the monitor's look and its
spawn finds the new worker in its handshake, or registered. `ImplementsLease` maps `holders` to the
running workers nobody has sent to their death, `open` to "not shutting down" and `admitted` to a
monitor that has looked and not spawned yet.
`MCSupervisor` adds the symmetry set for TLC.

Abstractions: a worker prints its ready line only after its wait task has been polled once
(the runtime polls a spawned task at once and a Python process needs a while to start; without
this `notify_waiters` could lose a kill). An aborted monitor is dropped at a select, a sleep or
a wait. Pruning of the failure record removes any number of
failures. The Mutex awaits at `process.rs:1050` and `1240` are uncontended and no abort lands there; an
abort at them is not covered. Left out: messages, the restart counter, the command queue, `poll_health` and the Job
Object.

### `SubtitleServer`

Payloads are numbered in the order they are handed to the server. The tasks are the senders,
the accept loop, the replay loop, a connection task per client, and the owner.

| code | here |
|---|---|
| `replay_buffer`, `pending_replay`, `clients` | `history`, `paced`, `registered` |
| a client's channel and `RetryBuffer` | `chan`, `retry`, `drops` |
| `broadcast_raw` with `push_drop_oldest` and the drain before it | `BroadcastRaw`, `PushDropOldest`, `StillWaiting` |
| `broadcast_subtitle` under a policy | `RememberLive` then `BroadcastLive`; `BroadcastPaced`; `RememberLater` |
| `handle_connection`: handshake, hello, registration and burst, pump, clean-up | `HandshakeDone`, `HelloSent`, `Join`, `BurstSends`, `PumpTakes`, `PumpSends`, `Unregister`, `Forget` |
| replay loop: take, sleep, deliver under the delivery lock | `ReplayTakes`, `ReplayDelivers`, `ReplayLeaves` |
| `stop` | `StopCancels`, `StopClears`, `StopResets`, `StopJoins` |

A peer may close at any time (`gone`) or never read (`frozen`). `select_for_client` is a choice
among the selections its policy can make (`Selections`), since the age that decides is a
clock's. A client that returns is a new client. Left out: framing, pings, ports, counters no
decision reads, and a second `start` of the same server, which no caller makes.

### `Capture`, `NoiseSuppressor`, `Resampler`

Samples are numbered as the hardware delivers them and 0 is padding, so that loss, doubling
and reordering are visible: `Chunks` is what was consumed and what the channels hold, `Loose` the
samples behind them that are in no chunk yet. The actors are the supervising task (`pc`: `Attempt`,
`Forward`, `WatchdogTick`, `AfterLoss`, `WaitEnds`), the worker thread (`WorkerReads`, `WorkerBreaks`,
`WorkerEnds`), the hardware (`Callback`, `StreamError`, `Unplug`, `Plug`), the consumer and the
owner. The ways an attempt fails are kept apart because they leave the source in different
states. `NoiseSuppressor` has the re-cutting of blocks as operators on sequences; `Resampler`
has the positions `resample_linear` takes its output from, counted in fractions of an input
sample. Sample values, channel mixing and the list of devices are left out.

### `Speech`, `Vad`, `SessionFiles`

`Vad` is `SileroVad` after its network: a frame is speech or not, at TLC's choice. `Speech` is the
audio task (`Listens`, `SpeechStarts`, `SpeechEnds`, `Sends`, `AudioEnds`), the event task
(`Receives`, `ResultEmitted`, `EventNotAdmitted`, `EventsEnd`; `Headless...` for the CLI's), the
tracker they share (`Track`, `Untrack`), the acoustic events (`Observe`) and the worker as a queue
that answers in order, may die, and whose unread answers may be read after its successor was
announced (`WorkerAnswers`, `WorkerRespawns`, `AnswerRead`). `program` chooses between the desktop,
which has session files and compares `latest_attempt`, and the headless service, which has the
emit policy and does neither.

The start of an utterance is computed as the code does it: `Instant::now()` when the audio task comes
to the frame that begins it, less the length of what is buffered (`StartNoted`, `commands.rs:1565`), told
to the tracker as the time since `session_origin` (`CaptureOffset`). Time is counted in frames: frame k
is complete at moment k, and the task comes to it at one of `Moments(k)`, at most `MaxWait` later. Two
looks at the clock are not related to each other, which allows more than a clock does. So a start is later
than the speech by what waited in the channel and by frames lost to VAD failures inside the pre-roll, never
earlier: that is what `CueAtItsSpeech` bounds. The headless program tells no start, and its cues have none
to be held to. The underflow of `checked_sub` next to the boot of the machine is left out.

`SessionFiles` has both sinks' queues, counters and writer tasks and the
composite's stop; a writer's `fetch_sub` and `fetch_add` are two steps (`Writes`, `Counts`). A
cue is its number; texts, formats, hallucination filters and translation are left out.

Behaviour the model keeps and no property forbids: the utterance in progress is discarded at a
stop; the desktop clears `vad_onset` before the audio task is joined; a restart after a drain
timeout resumes the same file while the old writer still drains (`leftover`), so that numbers repeat.

### `Service`

The calls of the desktop queue on `transition_lock` (`turn`); `step` is where the one whose turn it
is stands, `p` the pipeline's slots in `AppState`. `PrepareBegins ... PublishFails` is the provisioning of
the runtime, `StartBegins ... StartFails` a start with its roll-backs, `StopBegins ... StopsServer` a
stop; restart, repair, the watch's takeover and exit are built of them. `lock` is the OS lock of
`service.lock`, `mine` the desktop's handle, `Probing` the probe, which takes the lock for a moment,
`cli` the headless service. `run_service` drops the lock when it is over, whichever way, while nobody has
stopped its server, and after an error its worker and microphone may be at work too: `CliReturns`,
`CliFails` free the lock and put what is at work (`PartsAt`) into `leaving`, where it stays until the
process ends (`CliEnds`). An error or a kill is taken to leave everything that may have been started. The
runtime has a flag `stranded` for a move back that has failed (`SwapFails`). Left out: pid and port in the lock file, monitor-only capture, status,
download and test commands, and what the CLI reads on stdin.

### `ConfigStore`

`lock` says whose lock file is there ("dead" for a process that crashed), `aged` whether a waiter
sees it as stale. `Creates`, `Exists`, `LooksStale`, `LooksFresh`, `Breaks` are `acquire_lock`; `Reads` is
`load_config` with its decision to write back; `Writes` and `Renames` are `save_to_path`; `Applies` is
`persist_config_and_apply` after the core has persisted. A field stands for its kind: `purpose` for
those chosen from words, `duration` for those clamped to a range, `prompt` for the migrated ones.
Between a waiter's look and its removal of the lock everything may happen, as in the code.

## 3. Runs

| run | question | bounds | states |
|---|---|---|---|
| `supervisor_stops` | can two stops, a cancelled token, a repeated start, a monitor and a fault lose a worker, or leave one behind a completed stop? is the invariant of the proofs true, the lease implemented? | 2 starts, 1 fault, 2 stoppers (symmetric), ceiling 2 | 1.02 M |
| `supervisor_liveness` | do hung workers die, crashes get handled, calls return? is Failed final and quiet? | 2 calls, 2 faults, 1 stopper, ceiling 2, `restart_child` without a monitor; fairness | 102 K |
| `server_delivery` | does a slow, leaving or stopped client see order, exact counts, no gap and no paced duplicate? | 1 client, 2 senders, 3 payloads, channel 1, retry queue 1, history 2 | 1.7 M |
| `server_liveness` | does stop return with a peer that never reads, do connections end, is every paced cue taken? | 1 client, 1 sender, 2 payloads, policy auto; fairness | 120 K |
| `capture` | are samples lost silently or out of order, a stream left open, does capture come back? | 6 samples, chunks of 3, frames and reads of 2, queues of 1, 1 fault; fairness | 133 K |
| `speech` | is every frame of speech sent once, do events pair, cues start with their speech or within a known delay, numbers increase? | 6 frames, phrases of at most 4, sent from 3 on, pre-roll 1, delay 1, tracker 1, broadcast 1, 2 runs, 1 fault | 2.4 M |
| `service` | can two programs run the pipeline at once (but for what a process leaves when `run_service` is over), a call leave something behind, monitor mode or a call last for ever? | 2 commands, 1 launch of the CLI, 1 failing step; fairness | 783 K |
| `config_store` | does what was saved last, does the desktop agree with the file, do calls return? | 2 savers, 2 saves, 2 loads, 1 fault; fairness | 246 K |
| `stop_returns_early` | violated: stop returns Ok before a stalled worker has died | 1 start, 2 faults | |
| `resampler_batches` | violated: the output depends on how the input was cut | 3 input samples per output sample, 8 samples | |
| `session_stop` | violated: a stop misses a failed write | 1 run, 2 frames, 1 fault | |
| `config_lock` | violated: a lock that cannot be removed is waited for for ever | 1 load, no fault | |

Why these bounds are enough to reach the cases: a crash and then a failed respawn meet the
ceiling of 2, and a hang can follow a crash; two stoppers meet each other and a third would
repeat the second; queues of one are full after one payload, so that three payloads overflow
the channel, the retry queue and the count; sizes 3 and 2 do not divide one another, and six
samples fill two chunks; six frames hold two phrases that are sent, so that a phrase may end by silence or by length with the
next right behind it, and a tracker of one displaces its entry; a delay of one frame makes starts
differ from the frames they stand for; two runs resume the files once; two commands with one failure hold every start that fails
half-way followed by any other call; two waiters and a crash are what two owners of one lock
need. Clients do not interact except over the history and the counters, which one client and two
senders exercise. Deadlock checking is off where a system that was stopped, or has used up its
bounds, has nothing left to do; the two supervisor runs keep it on.

**Fairness.** The runtime polls every task that can go on, threads run and timers expire: weak
fairness for the steps of tasks. Nobody has to call, connect, broadcast, launch or plug in, and no
fault has to happen. Beyond that:

- `Supervisor`: a kill works; a worker that is neither hung nor dead becomes ready and obeys a
  shutdown; a hung worker's silence is noticed.
- `SubtitleServer`: a peer that is not `frozen` reads. Payloads being bounded, no `select!` can be
  kept busy for ever.
- `Capture`: strong fairness for the stop arms, since `select!` picks at random among the branches
  that are ready and comes back to them again and again.
- `Service`: uv, the handshake and the deadlines end. The exit's own deadline is over-approximated
  as any time.
- `ConfigStore`: every call is a thread of its own; the file of a dead process grows old.

**Findings** (details and quotes in `PROJECT.json`):

1. `stop_returns_early`: a handshake that stalls tells its worker to die and does not wait; a stop
   in the backoff that follows finds no child and returns Ok.
2. `resampler_batches`: `resample_linear` forgets at the end of a batch how far it has overshot.
3. `session_stop`: a writer lowers `pending` before it counts the write as failed.
4. `config_lock`: `acquire_lock` removes a stale lock and continues without looking whether it
   could, or at its timeout.

Seen while modelling, without a run of their own: two save commands that overlap may leave memory
and file apart; one crash and two waiters may put two writers into `config.json` (the file stays
whole); `run_service` frees the lock while its server still listens, and after an error while its
worker and capture may run, although `cli/main.rs:750` has it "Held for the whole service lifetime:
one pipeline per data home", so that for a moment a desktop's pipeline runs beside them; a failure to move the
old runtime back is ignored (`runtime.rs:394`), and it stays in a directory nothing looks at again; a cue
starts later than its speech when the audio task is behind, or a VAD failure falls into the pre-roll; the watch may take the desktop's own lock for a foreign one until its next poll
(`commands.rs:596`); a CLI that meets the desktop's probe exits; an exit in the middle of a repair
leaves the staging directory; a load that fails falls back to the defaults, which a later save then
writes.

## 4. Proofs

### The supervisor

`SupervisorProofs` proves, for every number of calls, faults, stoppers and every ceiling, and
under the assumption that callers do not use `restart_child` (beside a monitor it does leave two
workers, and no production caller uses it):

- `Inductive`: `IInv` holds in every reachable state;
- `TypeCorrect`, `NoOrphanEver`, `OneNewestWorker`: the parts of it a reader asks for;
- `Implements`: the supervisor implements `WorkerLease`, with the window between the monitor's look at
  `is_shutting_down` and its spawn.

`NoOrphan` alone is not inductive: a step that overwrites `active_child` would lose a worker
if another were registered. What rules that out is that only one task at a time starts or
supervises workers (`OneSpawner`), that the registered child is nobody's business but the
monitor's that watches it (`OneRegistration`), that what a spawner holds is the newest worker
(`StartsTheNewest`), that beside a task that starts or watches workers only its own worker runs (`OwnWorkerOnly`),
that no stop is past its announcement without the flag being set (`StopsAreAnnounced`), and that a
reaped worker is dead (`ReapedIsDead`). Each action has a
lemma saying it preserves the conjunction. The lease then follows: when a worker is spawned
nobody holds or registers one (`NothingLeft`), so the grant is allowed, a monitor that has looked is
the only one (`OneSpawner`), so what it was admitted for is its own, and every other step can only
take the holder away (`RevokesAtMost`).

`SupervisorStopProofs` goes on, under the same assumption, to how a supervisor ends:

- `StopEnds`: a completed stop has stopped (`StoppedMeansStopped`), however many stops run at once;
- `FailedIsQuiet`, `FailedStays`: `Failed` leaves no worker behind, and only a new start or a stop
  replaces it (`FailedMeansQuiet`, `FailedIsFinal`).

What they need beside `IInv` is where a monitor at work can be found: in the slot a stop empties, or
already awaited by the stop that emptied it (`MonitorsAreJoined`). Once a stop has taken the child, a
monitor that registers another looks at the token next and unregisters it (`LateChildIsSeen`); whatever
a monitor reports over `Stopped` a stop to come overwrites (`StoppedIsTheLastWord`); and whoever
records a failure has no worker, nor has a stop taken one from it (`FailedLeavesNothing`).

### The configuration

`ConfigStoreProofs` proves, for every number of save commands, loads and faults, and whether or
not a dead lock can be removed:

- `SavedStays`: unless a live holder has lost its lock to a waiter, `config.json` holds what the last
  save published (`SavedLasts`);
- `LockIsExclusive`: under the same condition one call at a time holds the lock, and whoever writes
  holds it;
- `Inductive`: the invariant both follow from.

`SavedLasts` alone is not inductive: a load on its way to write would undo the save. The invariant
says that the lock file is its holder's (`OneHolder`), that waiters hold nothing and writers do
(`WaitersHoldNothing`, `WritersHold`), that a load which will write has read while nothing was saved
(`LoadsWriteFirst`), and that what was saved is a normalised request (`SaversSave`, `SavedIsNormal`).
The last is what stops a later load from writing at all: `RequestedIsNormal` shows that `normalize`
and the defaults of `load_from_path` leave such a configuration alone, and `SavedNeedsNoWrite` that
the load then goes straight to the release.

On top of that:

- `DesktopAgrees`: a desktop at rest has the settings its next launch would load, or the defaults it
  fell back to, if its saves came one by one and no live holder lost its lock (`AgreesWithDisk`);
- `MemoryFollowsDisk`: the invariant it follows from.

Three programs write `config.json`, and only the desktop's memory is in question. It stays right
because `normalize` is idempotent: `LoadIsIdempotent` shows, for every purpose, duration and prompt a
file may hold, that what a load writes back loads as what it read (`LoadIsNormal`, `NormalStays`).
So only a save changes what the file loads as. A save is alone past `acquire_lock`, starts after the
load of the launch is back (`LaunchFirst`), meets no other save (`OneSaver`), and has the new
settings in hand until they are applied (`SaversAgree`, `MemoryAgrees`); a load that will write has in
hand what the file still loads as (`LoadsAgree`).

### The service

`ServiceProofs` proves, for every number of commands, launches and faults, with the exit, the watch, the
cancellations and the death of either process wherever they fall:

- `PipelinesNeverOverlap`: the desktop's server, worker and microphone never run beside those of a
  headless process that is in `run_service`, unless the lock could not be opened; beside one that has
  left it without failing, only its server does (`OnePipeline`);
- `CallsCleanUp`: when no call has the turn and the service does not run, nothing of one is left, and
  the managed runtime is in its place unless moving it back has itself failed (`NothingLeftBehind`);
- `Inductive`: the invariant both follow from.

Neither property is inductive: both speak of the end of a call, and what a call may undo depends on how
far it came. The invariant says who holds byte 0, and that the desktop does (or found no lock to hold)
exactly when it is not at rest (`LockInv`); which parts can be there at which step, and that a start
undoes only a server it made itself (`PartsInv`); that a runtime is staged or moved aside only while
one is being put in place, or stays aside because the way back failed (`RuntimeInv`); what headless
processes have left at work (`HeadlessInv`); and that no step, token or question outlives its call
(`OneCall`). The steps are proved in the groups a reader of `commands.rs` knows: up to the lock, the
runtime, the start under the lock, the stop, the tasks, and what happens meanwhile.

### The WebSocket server

`SubtitleServerProofs` proves, for every set of clients, all capacities and policies, any number of
senders and payloads, and however the peers read, freeze and leave:

- `DeliveryInOrder`: what a client receives is in the order of the broadcasts and comes once
  (`InOrderOnce`);
- `NothingDroppedSilently`: what it misses is in a counter (`EveryDropCounted`);
- `JoinMissesNothing`, `PacedComesOnce`: a client that joins in the middle of broadcasts has no gap
  behind its burst (`NoGapAtJoin`) and sees no paced cue twice (`PacedOnce`);
- `ConnectionsLeaveNothing`: a connection that is over leaves nothing behind (`NothingLeft`);
- `ServerInvariant`: the invariant all of them follow from.

The argument looks at one sequence per client, `Given`: what it received, has in hand, in its channel
and in its retry queue. A broadcast appends to its end, or drops one of its elements and counts it,
or both; the connection only moves the boundaries inside it. So it stays in the order of `log`,
without repetition (`OrderInv`), and the count makes up for what is not in it (`DropInv`). A payload
still to be broadcast is in one place only, with a sender, in the paced queue or with the replay loop,
and in nobody's sequence (`PendingInv`, `Fresh`), so its broadcast cannot repeat it. What was
broadcast, or is being broadcast, is in the history unless that is full (`HistoryInv`): hence no gap.

### Capture

`CaptureProofs` proves, for all sizes of chunk, frame, ring, read and channel, with or without noise
suppression, and however task, worker thread, hardware, consumer and owner interleave:

- `SamplesComeInOrder`: samples reach the consumer in the order of their capture, and none comes
  twice, across reconnects (`InOrderOnce`);
- `NoSampleIsLost`: while a stream is healthy and nothing was full, every sample it captured is in a
  chunk or on its way into one (`NothingLostSilently`);
- `DeviceIsReleased`, `SuppressorHoldsChunks`: `ReleasedWhenIdle`, `WholeChunksHeld`;
- `CaptureInvariant`: the invariant they follow from.

`Chunks` followed by `Loose` is one sequence of samples, cut into chunks from its front (`FlowInv`).
Re-cutting into frames and back, where a remainder could be lost or doubled, only moves the cut
(`FlowCut`, `FedIs`, `Treated`): for any two block sizes, what goes into the suppressor is what it
holds plus what it gives back. A full ring, a full channel and the end of a stream only take samples
out (`FlowPicked`, `FlowPrefix`, `FlowWithout`), and a callback adds a number greater than all before
it. `HeldInv` has what the flush needs: the suppressor is empty when it is not in use and holds whole
chunks when it is, and an unfinished chunk is shorter than a chunk.

### From speech to subtitles

`SpeechProofs` proves, for all parameters of VAD, tracker and bus, in both programs, and however
worker, disk and stop interleave:

- `SpeechIsSentInOrder`: every frame of speech is in one utterance, in the order of capture
  (`SpeechInOrderOnce`);
- `DurationsAgree`: the duration the VAD reports is that of the audio sent
  (`DurationIsThatOfTheAudio`);
- `AcousticEventsPair`, `CueNumbersIncrease`: `AcousticPaired`, `NumbersIncrease`;
- `CuesStartAtSpeech`: a cue of the desktop never starts before its speech, and later by no more than the
  time the frame that began the utterance waited and the frames that were lost on the way
  (`CueAtItsSpeech`);
- `SpeechInvariant`: the invariant they follow from.

It has five parts that share little. The voice (`VoiceInv`): what was sent, what is being recorded
and what is held back follow each other in the stream of frames, and the counters of the VAD are
the lengths of the audio task's buffers, although the two belong to different objects. The
start (`StartInv`): the moment of the task's look less what it has buffered is no moment before the first
frame of the utterance, and no later than that by more than the wait and the frames missing between
(`Within`). The acoustic events (`AcousticInv`): the open one is the last of an odd number. The cues (`CueInv`): an
utterance that may still be answered is in exactly one place, with the audio task, in the worker's
queue, in its output or on the bus (`WayInv`), and is tracked unless `TrackerCap` later ones have
displaced it (`TrackerInv`), so that a late answer finds its own entry or none. The numbers
(`NumbersInv`): a file, and then what its writer has queued, increase up to the counter, as long as
no drain timed out.

### Assumptions and limits

The assumptions are those on the constants: `MaxFaultsAssumption`, `SupervisorAssumption`,
`StoreAssumption`, `ServiceAssumption`, `ServerAssumption`, `SuppressorAssumption`, `CaptureAssumption`,
`VadAssumption`, `SinkAssumption`, `SpeechAssumption`: bounds are numbers, sizes and limits are
positive where the code divides by them or needs room for one, and names of tasks are apart. The
theorems about the supervisor also assume that nobody calls `restart_child`.

Every invariant of the passing runs, their only action property and the refinement of `WorkerLease` are
stated by theorems. Model-checked only: what happens with `restart_child`; liveness
(`HungWorkerDies`, `CrashIsHandled`, `RecoveryConcludes`, `CallsReturn`, `StopReturns`,
`ConnectionsEnd`, `PacedIsTaken`, `CaptureResumes`, `StallIsNoticed`, `HangUpEnds`, `MonitorEnds`), since
the prover has neither fairness nor `ENABLED`; and the disagreements that the four other runs find.

## 5. Not modelled

- Wire format and origin filter: stateless; a handshake is accepted or rejected, and nothing else
  of it is visible to the tasks.
- Numbers: the VAD's network, RNNoise, sample values, channel mixing.
- The clock of the respawn window and of the back-off; pruning forgets any number of failures.
- The command queue of `send_command` and the watchdog's ping in it: 128 slots that only a worker that
  stopped reading could fill, and such a worker is killed first.
- Monitor-only capture, status, download and test commands of the desktop; the pid and port in the
  lock file; the CLI's commands on stdin and its parent watchdog; the health file.
- The decode loop of the Python worker, which the Rust side sees as a queue.
- The legacy Python engine the Rust crates replace, packaging, the front end and the overlay.

## 6. Plan

Done, in this order: `Supervisor`, `SubtitleServer`, `Capture`, `Speech`, `Service`, `ConfigStore`.

Left, by weight:

1. Proofs of what the liveness properties rest on: that a stop, a reconnect and a wait for the lock
   have a step to take in every state.
2. The clocked `RespawnTracker`, and the metadata of the service lock, as refinements of what
   `Supervisor` and `Service` have in their place.
3. The worker's protocol as a module of its own, implementing the queue `Speech` assumes.
