--------------------------------- MODULE Speech ---------------------------------
(***************************************************************************)
(* From frames to cues: the audio task and the event task of the desktop   *)
(* (commands.rs) or of the headless service (main.rs of the CLI), the      *)
(* PendingUtteranceTracker they share, and the session files, which only   *)
(* the desktop has.  The ASR worker is what the tasks see of it: it takes  *)
(* commands in order, answers them, may die and be respawned, and what it  *)
(* wrote before may be read after its successor was announced.             *)
(*                                                                         *)
(* Frames are named by the moment their capture is over, and all times are *)
(* in frames.  The task takes a frame when it comes to it: behind a send,  *)
(* a busy runtime or the rest of its chunk, later than it was captured.    *)
(* A look at the clock shows any moment from the last frame on: one look   *)
(* is not related to another, which only allows more.                      *)
(***************************************************************************)
EXTENDS Vad, SessionFiles, SequencesExt

CONSTANTS
    MinFrames,   \* frames in 4800 samples: a shorter utterance is not sent
    TrackerCap,  \* PENDING_UTTERANCES_MAX
    BusSize,     \* capacity of the worker event broadcast
    Policy,      \* subtitle_backlog_policy
    MaxFrames,   \* bound: frames captured
    MaxRuns,     \* bound: starts of the service
    MaxWait      \* bound: how much later than possible a step looks at the clock

ASSUME SpeechAssumption ==
    /\ {MinFrames, TrackerCap, BusSize, MaxFrames, MaxRuns} \subseteq Nat \ {0}
    /\ MaxWait \in Nat
    /\ Policy \in {"auto", "live_only", "send_all"}

VARIABLES
    program,     \* "desktop" or "headless"
    origin,      \* session_origin
    frame,       \* the last captured frame that came to the audio task
    vad,
    preRoll,     \* pre_roll_chunks
    speaking,    \* is_in_utterance
    utterance,   \* utterance_samples
    startedAt,   \* utterance_started_at, of the desktop
    sequence,    \* utterance_seq
    active,      \* AcousticEventLifecycle: the open utterance or 0
    audio,       \* the audio task: "listening", "sending" or "ended"
    tracked,     \* PendingUtteranceTracker.pending: utterance -> capture_offset_sec
    order,       \* PendingUtteranceTracker.order
    inbox,       \* worker: commands accepted and not answered
    unread,      \* answers on the stdout of a worker, as <<attempt, utterance>>
    attempt,     \* worker attempts so far
    bus,         \* the broadcast channel, as the event task sees it
    latest,      \* latest_attempt
    events,      \* the event task: "running" or "ended"
    cancelled,   \* cancel_token
    counter,     \* session_cue_counter
    run,         \* starts so far
    judged,      \* history: the frames of this run judged speech
    taken,       \* history: the frames of the finished utterances, in order
    waited,      \* history: how long the frame that began the utterance waited
    sent,        \* history: utterance -> its frames, the duration sent with it, waited
    acoustic,    \* history: published acoustic events
    cues         \* history: cues of this run, as <<utterance, start>>

startVars == <<startedAt, waited>>
voiceVars == <<frame, vad, preRoll, speaking, utterance, startVars, sequence, judged, taken, sent>>
lifeVars == <<active, acoustic>>
trackVars == <<tracked, order>>
workerVars == <<inbox, unread, attempt>>
eventVars == <<bus, latest, events, counter, cues>>
vars == <<origin, voiceVars, lifeVars, audio, trackVars, workerVars, eventVars,
          cancelled, run, program, fileVars>>

Empty == [u \in {} |-> <<>>]

(* What a look at the clock may show once the frames up to k are captured. *)
Moments(k) == k .. k + MaxWait

(* saturating_duration_since. *)
Since(o, t) == IF t > o THEN t - o ELSE 0

Init ==
    /\ program \in {"desktop", "headless"}
    /\ frame = 0 /\ vad = Silent /\ preRoll = <<>> /\ speaking = FALSE /\ utterance = <<>>
    /\ origin \in IF program = "desktop" THEN Moments(0) ELSE {0}
    /\ startedAt = 0 /\ waited = 0
    /\ sequence = 0 /\ judged = {} /\ taken = <<>> /\ sent = Empty
    /\ active = 0 /\ acoustic = <<>> /\ audio = "listening"
    /\ tracked = Empty /\ order = <<>>
    /\ inbox = <<>> /\ unread = <<>> /\ attempt = 1
    /\ bus = <<>> /\ latest = 1 /\ events = "running" /\ counter = 0 /\ cues = <<>>
    /\ cancelled = FALSE /\ run = 1
    /\ FilesInit

(***************************************************************************)
(* The tracker.                                                            *)
(***************************************************************************)

(* track_at: the oldest entry makes room. *)
Track(u, offset) ==
    LET full == Cardinality(DOMAIN tracked) >= TrackerCap
        kept == DOMAIN tracked \ (IF full THEN {Head(order)} ELSE {})
    IN  /\ order' = Append(IF full THEN Tail(order) ELSE order, u)
        /\ tracked' = [v \in kept \cup {u} |-> IF v = u THEN offset ELSE tracked[v]]

(* remove, and what complete removes; order names an utterance once. *)
Untrack(u) ==
    /\ order' = RemoveFirst(order, u)
    /\ tracked' = [v \in DOMAIN tracked \ {u} |-> tracked[v]]

(***************************************************************************)
(* The audio task.                                                         *)
(***************************************************************************)

(* observe_vad_transition and close_attempt. *)
Observe(transition) ==
    CASE transition = "start" /\ active = 0 ->
             /\ active' = Len(acoustic) + 1
             /\ acoustic' = Append(acoustic, <<"start", Len(acoustic) + 1>>)
      [] transition \in {"silence", "limit", "closed"} /\ active # 0 ->
             /\ active' = 0
             /\ acoustic' = Append(acoustic, <<"end", active>>)
      [] OTHER -> UNCHANGED lifeVars

Hears ==
    /\ audio = "listening" /\ frame < MaxFrames /\ closing = "no"
    /\ frame' = frame + 1

(* A frame the model fails on goes nowhere, and one lost before it came here with it. *)
VadFails ==
    /\ Hears
    /\ faults < MaxFaults /\ faults' = faults + 1
    /\ UNCHANGED <<origin, vad, preRoll, speaking, utterance, startVars, sequence, judged, taken,
                   sent, lifeVars, audio, trackVars, workerVars, eventVars, cancelled, run,
                   sinkVars, closeVars, overran>>

(* What evaluating the frame does before the task looks at the transition. *)
Judged(speech) ==
    /\ Hears
    /\ vad' = Evaluated(vad, speech)
    /\ judged' = IF speech THEN judged \cup {frame + 1} ELSE judged
    /\ Observe(Transition(vad, speech))
    /\ UNCHANGED <<workerVars, eventVars, cancelled, run, fileVars>>

(* utterance_started_at goes back from now by what is buffered; the headless *)
(* service keeps no such time.                                               *)
StartNoted(buffered) ==
    \/ /\ program = "desktop"
       /\ \E now \in Moments(frame + 1) :
              /\ startedAt' = now - buffered
              /\ waited' = now - (frame + 1)
    \/ program = "headless" /\ UNCHANGED startVars

(* Mutant: the frame that starts the utterance does not make it into it. *)
StartsWithPreRoll ==
    /\ Transition(vad, TRUE) = "start" /\ Judged(TRUE)
    /\ speaking' = TRUE
    /\ utterance' = preRoll
    /\ StartNoted(Len(preRoll))
    /\ preRoll' = <<>>
    /\ UNCHANGED <<origin, sequence, taken, sent, audio, trackVars>>

SpeechStarts ==
    /\ Transition(vad, TRUE) = "start" /\ Judged(TRUE)
    /\ speaking' = TRUE
    /\ utterance' = Append(preRoll, frame + 1)
    /\ StartNoted(Len(preRoll) + 1)
    /\ preRoll' = <<>>
    /\ UNCHANGED <<origin, sequence, taken, sent, audio, trackVars>>

Listens(speech) ==
    /\ Transition(vad, speech) = "none" /\ Judged(speech)
    /\ IF speaking THEN /\ utterance' = Append(utterance, frame + 1)
                        /\ UNCHANGED preRoll
       ELSE /\ preRoll' = Append(IF Len(preRoll) >= PreRollSize THEN Tail(preRoll)
                                 ELSE preRoll, frame + 1)
            /\ UNCHANGED utterance
    /\ UNCHANGED <<origin, speaking, startVars, sequence, taken, sent, audio, trackVars>>

(* What the entry is tracked with: the desktop's is on the session's timeline, *)
(* the headless service tells none.                                            *)
CaptureOffset == IF program = "desktop" THEN Since(origin, startedAt) ELSE 0

(* The utterance ends; it is tracked before it is sent, and not sent when short. *)
SpeechEnds(speech) ==
    LET whole == Append(utterance, frame + 1)
        told == [frames |-> whole, duration |-> Duration(vad), waited |-> waited]
    IN  /\ Transition(vad, speech) \in {"silence", "limit"} /\ Judged(speech)
        /\ speaking /\ speaking' = FALSE
        /\ utterance' = <<>>
        /\ taken' = taken \o whole
        /\ IF Len(whole) >= MinFrames
           THEN /\ sequence' = sequence + 1
                /\ sent' = [u \in DOMAIN sent \cup {sequence + 1} |->
                                IF u = sequence + 1 THEN told ELSE sent[u]]
                /\ Track(sequence + 1, CaptureOffset)
                /\ audio' = "sending"
           ELSE UNCHANGED <<sequence, sent, audio, trackVars>>
        /\ UNCHANGED <<origin, startVars, preRoll>>

(* send_audio_command_until_cancelled: a cancelled send is given up ... *)
SendGivenUp ==
    /\ audio = "sending" /\ cancelled
    /\ audio' = "listening"
    /\ UNCHANGED <<origin, voiceVars, lifeVars, trackVars, workerVars, eventVars, cancelled, run, fileVars>>

(* ... a command the worker takes is on its way ... *)
Sends ==
    /\ audio = "sending" /\ ~cancelled
    /\ inbox' = Append(inbox, sequence)
    /\ audio' = "listening"
    /\ UNCHANGED <<origin, voiceVars, lifeVars, trackVars, unread, attempt, eventVars, cancelled, run,
                   fileVars>>

(* ... and one it cannot be given is forgotten. *)
SendFails ==
    /\ audio = "sending" /\ ~cancelled
    /\ faults < MaxFaults /\ faults' = faults + 1
    /\ Untrack(sequence)
    /\ audio' = "listening"
    /\ UNCHANGED <<origin, voiceVars, lifeVars, workerVars, eventVars, cancelled, run, sinkVars,
                   closeVars, overran>>

(* Mutant: the task ends without closing the acoustic attempt. *)
AudioEndsOpen ==
    /\ audio = "listening"
    /\ audio' = "ended"
    /\ UNCHANGED <<origin, voiceVars, lifeVars, trackVars, workerVars, eventVars, cancelled, run, fileVars>>

(* The task ends when it is cancelled, and at any time because capture is over. *)
AudioEnds ==
    /\ audio = "listening"
    /\ audio' = "ended"
    /\ Observe("closed")
    /\ UNCHANGED <<origin, voiceVars, trackVars, workerVars, eventVars, cancelled, run, fileVars>>

(***************************************************************************)
(* The worker and the channel its events come through.                     *)
(***************************************************************************)

(* A broadcast channel that is full loses its oldest event: the task is told it lagged. *)
Broadcast(e) == bus' = Append(IF Len(bus) >= BusSize THEN Tail(bus) ELSE bus, e)

WorkerAnswers ==
    /\ inbox # <<>>
    /\ unread' = Append(unread, <<attempt, Head(inbox)>>)
    /\ inbox' = Tail(inbox)
    /\ UNCHANGED <<origin, voiceVars, lifeVars, audio, trackVars, attempt, eventVars, cancelled, run,
                   fileVars>>

(* The worker dies with what it was given; its successor is announced. *)
WorkerRespawns ==
    /\ closing = "no"
    /\ faults < MaxFaults /\ faults' = faults + 1
    /\ inbox' = <<>>
    /\ attempt' = attempt + 1
    /\ Broadcast(<<"started", attempt + 1, 0>>)
    /\ UNCHANGED <<origin, voiceVars, lifeVars, audio, trackVars, unread, latest, events, counter, cues,
                   cancelled, run, sinkVars, closeVars, overran>>

(* The reader of one worker's stdout broadcasts its next line. *)
AnswerRead ==
    /\ \E i \in DOMAIN unread :
           /\ \A j \in 1 .. i - 1 : unread[j][1] # unread[i][1]
           /\ Broadcast(<<"result", unread[i][1], unread[i][2]>>)
           /\ unread' = RemoveAt(unread, i)
    /\ UNCHANGED <<origin, voiceVars, lifeVars, audio, trackVars, inbox, attempt, latest, events, counter,
                   cues, cancelled, run, fileVars>>

(***************************************************************************)
(* The event task.                                                         *)
(***************************************************************************)

Receives ==
    /\ events = "running" /\ bus # <<>>
    /\ bus' = Tail(bus)
    /\ UNCHANGED <<voiceVars, lifeVars, audio, workerVars, events, cancelled, run>>

(* admit_worker_event_generation: an announcement is noted, an older attempt ignored. *)
EventNotAdmitted ==
    /\ program = "desktop" /\ Receives
    /\ \/ Head(bus)[1] = "started"
       \/ Head(bus)[2] < latest
    /\ latest' = IF Head(bus)[2] > latest THEN Head(bus)[2] ELSE latest
    /\ UNCHANGED <<origin, trackVars, counter, cues, fileVars>>

(* An answer is matched with its utterance ... *)
Completes ==
    /\ program = "desktop" /\ Receives
    /\ Head(bus)[1] = "result" /\ Head(bus)[2] >= latest
    /\ latest' = Head(bus)[2]
    /\ Untrack(Head(bus)[3])

(* ... and dropped when it has no text, is blacklisted or repeats the last one ... *)
ResultDropped ==
    /\ Completes
    /\ UNCHANGED <<origin, counter, cues, fileVars>>

(* What the clock shows when the cue is made: it is looked at only for an *)
(* utterance without an entry.                                             *)
MomentOf(u) == IF u \in DOMAIN tracked THEN {frame} ELSE Moments(frame)

(* Mutant: the entry is looked up after complete has removed it. *)
StartAfterComplete(u, now) == Since(origin, now - Len(sent[u].frames))

(* capture_offset_sec, read before complete; or else the arrival, less the duration. *)
StartOf(u, now) ==
    IF u \in DOMAIN tracked THEN tracked[u] ELSE Since(origin, now - Len(sent[u].frames))

(* ... or becomes the next cue of the session files. *)
ResultEmitted ==
    LET u == Head(bus)[3]
    IN  /\ Completes
        /\ counter' = counter + 1
        /\ \E now \in MomentOf(u) : cues' = Append(cues, <<u, StartOf(u, now)>>)
        /\ Emit(counter + 1)
        /\ UNCHANGED origin

(* The headless service does not look at attempts: it passes an announcement   *)
(* over and takes every answer, late ones of a dead worker with the rest ...   *)
HeadlessIgnores ==
    /\ program = "headless" /\ Receives
    /\ Head(bus)[1] = "started"
    /\ UNCHANGED <<origin, latest, trackVars, counter, cues, fileVars>>

HeadlessCompletes ==
    /\ program = "headless" /\ Receives
    /\ Head(bus)[1] = "result"
    /\ Untrack(Head(bus)[3])
    /\ UNCHANGED <<origin, latest, counter, fileVars>>

(* The age of a result: within a second, within subtitle_max_live_delay_sec, older. *)
Ages == {"fresh", "late", "stale"}

(* decide_obs_emit: live, paced as a replay, or not at all. *)
Decision(policy, age) ==
    CASE policy = "send_all" -> IF age = "fresh" THEN "live" ELSE "paced"
      [] policy = "live_only" -> IF age = "stale" THEN "none" ELSE "live"
      [] policy = "auto" -> IF age = "fresh" THEN "live"
                            ELSE IF age = "late" THEN "paced" ELSE "none"

(* subtitle_from_worker_result: of unknown age, an answer counts as fresh or not at all. *)
Emission(u, age) ==
    IF u \in DOMAIN tracked THEN Decision(Policy, age)
    ELSE IF Policy = "send_all" THEN "live" ELSE "none"

(* ... says nothing of one without text or too late, and broadcasts the others: *)
(* it numbers no cues, gives them no start and keeps no files.                  *)
HeadlessDrops == HeadlessCompletes /\ UNCHANGED cues

HeadlessEmits ==
    /\ HeadlessCompletes
    /\ \E age \in Ages : Emission(Head(bus)[3], age) # "none"
    /\ cues' = Append(cues, <<Head(bus)[3], 0>>)

EventsEnd ==
    /\ events = "running" /\ cancelled
    /\ events' = "ended"
    /\ UNCHANGED <<origin, voiceVars, lifeVars, audio, trackVars, workerVars, bus, latest, counter, cues,
                   cancelled, run, fileVars>>

(***************************************************************************)
(* Stop and restart.                                                       *)
(***************************************************************************)

Cancel ==
    /\ ~cancelled /\ cancelled' = TRUE
    /\ UNCHANGED <<origin, voiceVars, lifeVars, audio, trackVars, workerVars, eventVars, run, fileVars>>

(* The files are closed when both tasks have been joined. *)
Close ==
    /\ program = "desktop"
    /\ cancelled /\ audio = "ended" /\ events = "ended"
    /\ CloseBegins
    /\ UNCHANGED <<origin, voiceVars, lifeVars, audio, trackVars, workerVars, eventVars, cancelled, run>>

Closing ==
    /\ CloseStep
    /\ UNCHANGED <<origin, voiceVars, lifeVars, audio, trackVars, workerVars, eventVars, cancelled, run>>

Files ==
    /\ FileStep
    /\ UNCHANGED <<origin, voiceVars, lifeVars, audio, trackVars, workerVars, eventVars, cancelled, run>>

(* A new run has a new supervisor, tracker, lifecycle and capture, which is at    *)
(* work before the session's origin is noted.  A restart goes on with the files   *)
(* and the origin of the last session, also when closing them had failed.         *)
StartAgain(resumed) ==
    /\ closing = "done" /\ run < MaxRuns
    /\ run' = run + 1
    /\ SinksReopened(resumed)
    /\ counter' = IF resumed THEN LastCue(file) ELSE 0
    /\ vad' = Silent /\ preRoll' = <<>> /\ speaking' = FALSE /\ utterance' = <<>>
    /\ sequence' = 0 /\ judged' = {} /\ taken' = <<>> /\ sent' = Empty
    /\ active' = 0 /\ acoustic' = <<>> /\ audio' = "listening"
    /\ tracked' = Empty /\ order' = <<>>
    /\ inbox' = <<>> /\ unread' = <<>> /\ attempt' = 1
    /\ bus' = <<>> /\ latest' = 1 /\ events' = "running" /\ cues' = <<>>
    /\ cancelled' = FALSE
    /\ origin' \in IF resumed THEN {origin} ELSE Moments(frame)
    /\ startedAt' = 0 /\ waited' = 0
    /\ UNCHANGED frame

Step ==
    \/ VadFails \/ SpeechStarts
    \/ \E speech \in BOOLEAN : Listens(speech) \/ SpeechEnds(speech)
    \/ SendGivenUp \/ Sends \/ SendFails \/ AudioEnds
    \/ WorkerAnswers \/ WorkerRespawns \/ AnswerRead
    \/ EventNotAdmitted \/ ResultDropped \/ ResultEmitted
    \/ HeadlessIgnores \/ HeadlessDrops \/ HeadlessEmits \/ EventsEnd
    \/ Cancel \/ Close \/ Closing \/ Files
    \/ \E resumed \in BOOLEAN : StartAgain(resumed)

Next == Step /\ UNCHANGED program

Spec == Init /\ [][Next]_vars

(***************************************************************************)
(* Properties.                                                             *)
(***************************************************************************)

Increasing(s) == \A i \in 1 .. Len(s) - 1 : s[i] < s[i + 1]

(* Every frame judged speech is in one utterance, in the order of capture and no  *)
(* frame twice, however phrases are cut by silence or by their length: what the   *)
(* VAD and the audio task count as a phrase never comes apart.                    *)
SpeechInOrderOnce ==
    /\ judged \subseteq Range(taken \o utterance)
    /\ Increasing(taken \o utterance \o preRoll)

(* The duration the VAD reports is that of the audio the task sends: the VAD's *)
(* pre-buffer and the task's pre-roll stay in step.                            *)
DurationIsThatOfTheAudio ==
    \A u \in DOMAIN sent : sent[u].duration = Len(sent[u].frames)

(* On the wire every speech start is followed by its own end, and by nothing else; *)
(* when the audio task is gone nothing is left open.                               *)
AcousticPaired ==
    /\ \A i \in 1 .. Len(acoustic) :
           IF i % 2 = 1 THEN acoustic[i][1] = "start"
           ELSE acoustic[i] = <<"end", acoustic[i - 1][2]>>
    /\ audio = "ended" => Len(acoustic) % 2 = 0

(* Frames captured between the first and the last and not among them. *)
Missing(frames) == frames[Len(frames)] - frames[1] + 1 - Len(frames)

(* Where the speech of a recording begins on a session's timeline. *)
Begins(o, recording) == Since(o, recording.frames[1] - 1)

(* A cue in the session files is never before the speech it transcribes, whatever *)
(* came of the worker in between.  It is later by no more than the time the frame *)
(* that began the utterance waited for the task and the frames that were lost on  *)
(* the way, unless TrackerCap later utterances have displaced its entry.          *)
CueAtItsSpeech ==
    program = "desktop" =>
        \A i \in DOMAIN cues :
            LET u == cues[i][1]
            IN  /\ Begins(origin, sent[u]) <= cues[i][2]
                /\ \/ cues[i][2] <= Begins(origin, sent[u]) + sent[u].waited
                                        + Missing(sent[u].frames)
                   \/ sequence >= u + TrackerCap

(* Unless a drain timed out, the numbers in subtitles.vtt increase, over failed and *)
(* rejected cues and over restarts that go on with the file.                        *)
NumbersIncrease == ~overran => Increasing(file["vtt"])

(* stop reports what the disk did not take: it succeeds only when every cue the *)
(* sinks were given is in both files.                                           *)
StopReportsFailures ==
    closing = "done" /\ stopError = "" =>
        \A s \in Sinks : failed[s] = 0 /\ owed[s] # "failed"
================================================================================
