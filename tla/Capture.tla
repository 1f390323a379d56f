-------------------------------- MODULE Capture --------------------------------
(***************************************************************************)
(* ResilientCapture (resilient.rs) over CpalAudioSource (cpal_source.rs,   *)
(* ring_buffer.rs, the framing of resampler.rs), in                        *)
(* crates/liveaudio-audio/src.                                             *)
(*                                                                         *)
(* The actors are the supervising task, the worker thread of the open      *)
(* stream, the audio hardware with its callbacks, the consumer of the      *)
(* chunks and the owner of the handle.  Samples are numbered in the order  *)
(* the hardware delivers them, 0 is padding.  Down-mixing and a change of  *)
(* rate are left out here (see Resampler): one input sample is one sample. *)
(***************************************************************************)
EXTENDS NoiseSuppressor, SequencesExt

CONSTANTS
    RingSize,   \* samples the ring buffer holds
    ReadSize,   \* samples the worker reads at a time
    QueueSize,  \* ring_buffer_capacity: chunks in either channel
    Limit,      \* WATCHDOG_LIMIT in WATCHDOG_TICKs
    MaxSamples, \* bound: samples the hardware delivers
    MaxFaults   \* bound: failed opens, stream errors, unplugged devices

ASSUME CaptureAssumption ==
    /\ {RingSize, ReadSize, QueueSize, Limit} \subseteq Nat \ {0}
    /\ {MaxSamples, MaxFaults} \subseteq Nat

VARIABLES
    isLoopback, denoise,  \* what the configuration says
    inputs,      \* an input device is present
    pc,          \* where the supervising task is
    then,        \* where it goes when the source has stopped
    state,       \* the watched state
    source,      \* CpalAudioSource.status
    stream,      \* active_stream: callbacks may come
    worker,      \* the worker thread
    stopSignal,  \* stop_signal of that thread
    failed,      \* capture_failed
    ring, accumulated, denoiser,   \* samples on their way
    inner,       \* the source's channel: chunks
    outer,       \* the channel that survives reconnects
    quiet,       \* ticks since the last chunk, as far as the watchdog cares
    listening,   \* the consumer holds its receiver
    stopping,    \* the call of ResilientCapture::stop
    captured, faults,
    \* What happened, for the properties:
    delivered,   \* chunks the consumer took
    base,        \* captured when the stream was opened
    dropped      \* a full ring or channel dropped samples of this stream

owner     == <<isLoopback, denoise, stopping, listening>>
hardware  == <<inputs, captured, faults>>
task      == <<pc, then, state, quiet>>
device    == <<source, stream, worker, stopSignal, failed>>
samples   == <<ring, accumulated, denoiser, inner, dropped>>
downstream == <<outer, delivered>>
vars == <<owner, hardware, task, device, samples, downstream, base>>

Init ==
    /\ isLoopback \in BOOLEAN /\ denoise \in BOOLEAN /\ inputs \in BOOLEAN
    /\ pc = "start" /\ then = "lost" /\ state = "initializing"
    /\ source = "stopped" /\ stream = FALSE /\ worker = "none"
    /\ stopSignal = FALSE /\ failed = FALSE
    /\ ring = <<>> /\ accumulated = <<>> /\ denoiser = Fresh
    /\ inner = <<>> /\ outer = <<>> /\ delivered = <<>>
    /\ quiet = 0 /\ listening = TRUE /\ stopping = "no"
    /\ captured = 0 /\ faults = 0 /\ base = 0 /\ dropped = FALSE

-----------------------------------------------------------------------------
(* The supervising task                                                      *)

InputMissing == ~isLoopback /\ ~inputs

Attempting == pc \in {"start", "wait"}

(* attempt without an input device ... *)
AttemptStandby ==
    /\ Attempting /\ InputMissing
    /\ pc' = "wait" /\ state' = "standby"
    /\ UNCHANGED <<owner, hardware, then, quiet, device, samples, downstream, base>>

(* ... that opens the stream: every buffer is new ... *)
AttemptOpens ==
    /\ Attempting /\ ~InputMissing /\ source # "capturing"
    /\ pc' = "forward" /\ state' = "capturing" /\ quiet' = 0
    /\ source' = "capturing" /\ stream' = TRUE /\ worker' = "running"
    /\ stopSignal' = FALSE /\ failed' = FALSE
    /\ ring' = <<>> /\ accumulated' = <<>> /\ denoiser' = Fresh /\ inner' = <<>>
    /\ base' = captured /\ dropped' = FALSE
    /\ UNCHANGED <<owner, hardware, then, downstream>>

(* ... or that fails, leaving the source where, with its new worker there or not. *)
AttemptFails(where, left) ==
    /\ Attempting /\ ~InputMissing /\ source # "capturing"
    /\ faults < MaxFaults /\ faults' = faults + 1
    /\ source' = where /\ worker' = left
    /\ pc' = "lost"
    /\ UNCHANGED <<owner, inputs, captured, then, state, quiet, stream, stopSignal,
                   failed, samples, downstream, base>>

NoSuchDevice == AttemptFails("standby", "none")

StreamNotBuilt == AttemptFails("initializing", "none")

(* Mutant: a stream that does not play leaves its worker running. *)
PlayFailsKeepsWorker == AttemptFails("standby", "running")

(* A stream that does not play: its worker, already spawned, is stopped and joined. *)
PlayFails == AttemptFails("standby", "none")

(* Parameters no retry can fix: start returns the error; a reopen retries all the same. *)
AttemptRefused ==
    /\ Attempting /\ ~InputMissing
    /\ faults < MaxFaults /\ faults' = faults + 1
    /\ source' \in {source, "initializing"}
    /\ pc' = IF pc = "start" THEN "refused" ELSE "lost"
    /\ UNCHANGED <<owner, inputs, captured, then, state, quiet, stream, worker,
                   stopSignal, failed, samples, downstream, base>>

(* Mutant: the missing device is taken for good. *)
AfterLossGivesUp ==
    /\ pc = "lost"
    /\ state' = IF InputMissing THEN "standby" ELSE "reconnecting"
    /\ pc' = IF InputMissing THEN "done" ELSE "wait"
    /\ UNCHANGED <<owner, hardware, then, quiet, device, samples, downstream, base>>

AfterLoss ==
    /\ pc = "lost"
    /\ state' = IF InputMissing THEN "standby" ELSE "reconnecting"
    /\ pc' = "wait"
    /\ UNCHANGED <<owner, hardware, then, quiet, device, samples, downstream, base>>

(* Mutant: only a closed receiver ends a wait. *)
WaitEndsOnHangup ==
    /\ pc = "wait" /\ ~listening
    /\ pc' = "done" /\ state' = "stopped"
    /\ UNCHANGED <<owner, hardware, then, quiet, device, samples, downstream, base>>

WaitEnds ==
    /\ pc = "wait" /\ (stopping = "asked" \/ ~listening)
    /\ pc' = "done" /\ state' = "stopped"
    /\ UNCHANGED <<owner, hardware, then, quiet, device, samples, downstream, base>>

(* Mutant: the stream is released and its worker is not told to stop. *)
LeaveForwardSilently(place) ==
    /\ pc' = "closing" /\ then' = place
    /\ stream' = FALSE
    /\ UNCHANGED stopSignal

(* forward returns and the source is stopped: the worker is told, the stream *)
(* is dropped, the worker is joined.                                         *)
LeaveForward(place) ==
    /\ pc' = "closing" /\ then' = place
    /\ stopSignal' = TRUE /\ stream' = FALSE

ForwardStops ==
    /\ pc = "forward" /\ stopping = "asked"
    /\ LeaveForward("done")
    /\ UNCHANGED <<owner, hardware, state, quiet, source, worker, failed, samples,
                   downstream, base>>

ForwardChunk ==
    /\ pc = "forward" /\ inner # <<>> /\ ~failed /\ listening
    /\ inner' = Tail(inner) /\ quiet' = 0
    /\ outer' = IF Len(outer) < QueueSize THEN Append(outer, Head(inner)) ELSE outer
    /\ dropped' = (dropped \/ Len(outer) = QueueSize)
    /\ UNCHANGED <<owner, hardware, pc, then, state, device, ring, accumulated,
                   denoiser, delivered, base>>

(* A chunk, or the end of the channel, after the stream has failed. *)
ForwardFails ==
    /\ pc = "forward"
    /\ (inner # <<>> /\ failed) \/ (inner = <<>> /\ worker = "ended")
    /\ LeaveForward("lost")
    /\ UNCHANGED <<owner, hardware, state, quiet, source, worker, failed, samples,
                   downstream, base>>

(* A chunk nobody downstream wants any more ends the capture. *)
ForwardUnwanted ==
    /\ pc = "forward" /\ inner # <<>> /\ ~failed /\ ~listening
    /\ LeaveForward("done")
    /\ UNCHANGED <<owner, hardware, state, quiet, source, worker, failed, samples,
                   downstream, base>>

(* Mutant: the watchdog counts on for ever. *)
WatchdogNeverFires ==
    /\ pc = "forward" /\ ~isLoopback
    /\ quiet <= Limit /\ quiet' = quiet + 1
    /\ UNCHANGED <<owner, hardware, pc, then, state, device, samples, downstream, base>>

(* The watchdog; an age above WATCHDOG_GRACE follows from its limit. *)
WatchdogTick ==
    /\ pc = "forward" /\ ~isLoopback
    /\ IF quiet <= Limit
       THEN quiet' = quiet + 1 /\ UNCHANGED <<pc, then, stopSignal, stream>>
       ELSE LeaveForward("lost") /\ UNCHANGED quiet
    /\ UNCHANGED <<owner, hardware, state, source, worker, failed, samples,
                   downstream, base>>

(* The worker is joined; what it flushed goes with the receiver of its channel. *)
SourceStopped ==
    /\ pc = "closing" /\ worker = "ended"
    /\ worker' = "none" /\ source' = "stopped"
    /\ ring' = <<>> /\ accumulated' = <<>> /\ denoiser' = Fresh /\ inner' = <<>>
    /\ pc' = then
    /\ state' = IF then = "done" THEN "stopped" ELSE state
    /\ UNCHANGED <<owner, hardware, then, quiet, stream, stopSignal, failed,
                   dropped, downstream, base>>

-----------------------------------------------------------------------------
(* The worker thread                                                         *)

Fits(chunks) == SubSeq(chunks, 1, IF Len(chunks) < QueueSize - Len(inner)
                                  THEN Len(chunks) ELSE QueueSize - Len(inner))

(* try_send of each chunk; one that finds the channel full is dropped. *)
SendChunks(chunks) ==
    /\ inner' = inner \o Fits(chunks)
    /\ dropped' = (dropped \/ Len(Fits(chunks)) < Len(chunks))

(* Mutant: what does not fill a chunk is forgotten. *)
DrainReadyForgets(s) == <<>>

(* drain_ready_chunks: what stays behind. *)
DrainReady(s) == Rest(s)

Unread == SubSeq(ring, 1, IF Len(ring) < ReadSize THEN Len(ring) ELSE ReadSize)

WorkerReads ==
    /\ worker = "running" /\ ~stopSignal /\ ~failed /\ ring # <<>>
    /\ ring' = SubSeq(ring, Len(Unread) + 1, Len(ring))
    /\ LET framed == accumulated \o Unread
           ready  == SubSeq(framed, 1, InBlocks(framed))
       IN  /\ accumulated' = DrainReady(framed)
           /\ denoiser' = IF denoise THEN Process(denoiser, ready) ELSE denoiser
           /\ SendChunks(IF denoise THEN Processed(denoiser, ready) ELSE Blocks(ready))
    /\ UNCHANGED <<owner, hardware, task, device, downstream, base>>

(* RNNoise refuses a chunk: the stream counts as failed, nothing is flushed. *)
WorkerBreaks ==
    /\ worker = "running" /\ ~stopSignal /\ ~failed /\ denoise
    /\ Len(accumulated \o Unread) >= ChunkSize
    /\ faults < MaxFaults /\ faults' = faults + 1
    /\ failed' = TRUE /\ worker' = "broken"
    /\ UNCHANGED <<owner, inputs, captured, task, source, stream, stopSignal, samples,
                   downstream, base>>

(* The thread sees its signal or the failure: flush, then the end of its channel. *)
WorkerEnds ==
    /\ worker \in {"running", "broken"} /\ (stopSignal \/ failed)
    /\ worker' = "ended"
    /\ LET last == IF accumulated = <<>> THEN <<>> ELSE Padded(accumulated)
           tail == IF denoise THEN Processed(denoiser, last) \o Flushed(Process(denoiser, last))
                   ELSE Blocks(last)
       IN  IF worker = "broken" THEN UNCHANGED <<inner, dropped>> ELSE SendChunks(tail)
    /\ accumulated' = <<>> /\ denoiser' = Fresh
    /\ UNCHANGED <<owner, hardware, task, source, stream, stopSignal, failed, ring,
                   downstream, base>>

-----------------------------------------------------------------------------
(* The hardware, the consumer and the owner                                  *)

(* A callback: the newest sample is dropped when the ring is full. *)
Callback ==
    /\ stream /\ captured < MaxSamples
    /\ captured' = captured + 1
    /\ ring' = IF Len(ring) < RingSize THEN Append(ring, captured') ELSE ring
    /\ dropped' = (dropped \/ Len(ring) = RingSize)
    /\ UNCHANGED <<owner, inputs, faults, task, device, accumulated, denoiser, inner,
                   downstream, base>>

(* The error callback, for anything but an overrun. *)
StreamError ==
    /\ stream /\ ~failed /\ faults < MaxFaults
    /\ failed' = TRUE /\ faults' = faults + 1
    /\ UNCHANGED <<owner, inputs, captured, task, source, stream, worker, stopSignal,
                   samples, downstream, base>>

Unplug ==
    /\ inputs /\ faults < MaxFaults
    /\ inputs' = FALSE /\ faults' = faults + 1
    /\ UNCHANGED <<owner, captured, task, device, samples, downstream, base>>

Plug ==
    /\ ~inputs /\ inputs' = TRUE
    /\ UNCHANGED <<owner, captured, faults, task, device, samples, downstream, base>>

Consume ==
    /\ listening /\ outer # <<>>
    /\ delivered' = Append(delivered, Head(outer)) /\ outer' = Tail(outer)
    /\ UNCHANGED <<owner, hardware, task, device, samples, base>>

HangUp ==
    /\ listening /\ pc \notin {"start", "refused"}
    /\ listening' = FALSE
    /\ UNCHANGED <<isLoopback, denoise, stopping, hardware, task, device, samples,
                   downstream, base>>

(* stop, or the handle is dropped, which closes the same channel. *)
StopCall ==
    /\ stopping = "no" /\ pc \notin {"start", "refused"}
    /\ stopping' = "asked"
    /\ UNCHANGED <<isLoopback, denoise, listening, hardware, task, device, samples,
                   downstream, base>>

StopReturn ==
    /\ stopping = "asked" /\ pc = "done"
    /\ stopping' = "returned"
    /\ UNCHANGED <<isLoopback, denoise, listening, hardware, task, device, samples,
                   downstream, base>>

-----------------------------------------------------------------------------
Attempt == \/ AttemptStandby \/ AttemptOpens \/ AttemptRefused
           \/ NoSuchDevice \/ StreamNotBuilt \/ PlayFails
Forward == ForwardChunk \/ ForwardFails \/ ForwardUnwanted
Worker  == WorkerReads \/ WorkerBreaks \/ WorkerEnds

Next ==
    \/ Attempt \/ AfterLoss \/ WaitEnds
    \/ Forward \/ ForwardStops \/ WatchdogTick \/ SourceStopped
    \/ Worker
    \/ Callback \/ StreamError \/ Unplug \/ Plug
    \/ Consume \/ HangUp \/ StopCall \/ StopReturn

Spec == Init /\ [][Next]_vars

(* The runtime polls the task and its timers expire; the thread runs.  Stop  *)
(* and a closed receiver are ready again in every select the task comes to,  *)
(* and select! picks among ready branches at random, hence SF.  Nothing is   *)
(* assumed of the hardware, the consumer or the owner.                       *)
Fairness ==
    /\ WF_vars(Attempt) /\ WF_vars(AfterLoss) /\ WF_vars(Forward)
    /\ WF_vars(WatchdogTick) /\ WF_vars(SourceStopped) /\ WF_vars(Worker)
    /\ SF_vars(WaitEnds) /\ SF_vars(ForwardStops) /\ WF_vars(StopReturn)

FairSpec == Spec /\ Fairness

-----------------------------------------------------------------------------
(* Properties                                                                *)

(* What was consumed or is in a channel, and what is not yet in a chunk. *)
Chunks == delivered \o outer \o inner
Loose  == Held(denoiser) \o accumulated \o ring

Precedes(s, t) ==
    \A i \in 1 .. Len(s), j \in 1 .. Len(t) : s[i] # 0 /\ t[j] # 0 => s[i] < t[j]

Rises(s) ==
    \A i, j \in 1 .. Len(s) : i < j /\ s[i] # 0 /\ s[j] # 0 => s[i] < s[j]

(* In these chunks and then in l, samples rise, padding aside. *)
InOrder(chunks, l) ==
    /\ \A i \in 1 .. Len(chunks) : Rises(chunks[i]) /\ Precedes(chunks[i], l)
    /\ \A i, j \in 1 .. Len(chunks) : i < j => Precedes(chunks[i], chunks[j])
    /\ Rises(l)

(* Samples reach the consumer in the order they were captured and at most once, *)
(* across reconnects too: nothing of an old stream comes after a newer one.     *)
InOrderOnce == InOrder(Chunks, Loose)

Has(chunks, l, n) ==
    Contains(l, n) \/ \E i \in 1 .. Len(chunks) : Contains(chunks[i], n)

(* While a stream is healthy and neither the ring nor a channel was full, every *)
(* sample it captured is on its way: framing and noise suppression lose none.   *)
NothingLostSilently ==
    pc = "forward" /\ worker = "running" /\ ~dropped =>
        \A n \in base + 1 .. captured : Has(Chunks, Loose, n)

(* Between streams, and once capture has ended or was refused, no stream is open *)
(* and no worker thread runs: a reopen never finds the old one.                  *)
ReleasedWhenIdle ==
    pc \notin {"forward", "closing"} => ~stream /\ worker = "none" /\ source # "capturing"

(* The noise suppressor holds whole chunks between two chunks, so that its flush *)
(* never comes to the padding branch, whose sample position would be wrong.      *)
WholeChunksHeld == Len(Held(denoiser)) % ChunkSize = 0

(* stop returns from any state: capturing, standby, waiting to reconnect. *)
StopReturns == (stopping = "asked") ~> (stopping = "returned")

(* With a device there, a consumer and no stop, capture comes back after every fault. *)
CaptureResumes ==
    <>[](inputs /\ listening /\ stopping = "no") => []<>(pc \in {"forward", "refused"})

(* A microphone that delivers nothing more is given up, its stream is reopened. *)
StallIsNoticed ==
    (~isLoopback /\ pc = "forward" /\ captured = MaxSamples) ~> (pc # "forward")

(* When the consumer is gone a microphone is released for good. *)
HangUpEnds == (~isLoopback /\ ~listening) ~> (pc = "done" /\ ~stream)
================================================================================
