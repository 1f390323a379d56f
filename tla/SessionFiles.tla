------------------------------ MODULE SessionFiles ------------------------------
(***************************************************************************)
(* The files of a session: JsonlSink, WebVttSink and the CompositeSink over *)
(* them (crates/liveaudio-core/src/sink/).  A cue is its number.  Each sink *)
(* has a bounded queue and a writer task; its counters are atomics that the *)
(* writer and the caller of stop read and write without a lock.             *)
(***************************************************************************)
EXTENDS Naturals, Sequences

CONSTANTS
    QueueSize,  \* capacity of a sink (32)
    MaxFaults   \* bound: failed writes, and what else Speech lets fail

ASSUME SinkAssumption == QueueSize \in Nat \ {0} /\ MaxFaults \in Nat

Order == <<"jsonl", "vtt">>   \* the order in which create_session_sinks adds them
Sinks == {"jsonl", "vtt"}

VARIABLES
    queue,     \* what a writer has yet to receive
    pending, failed, rejected, \* the counters; saved is left out
    owed,      \* a writer between its fetch_sub and its fetch_add: what it will count
    leftover,  \* what the writer of a session whose drain timed out still has to write
    file,      \* the numbers in the file
    closing,   \* CompositeSink::stop: "no", "drain" or "stats" of sink number `at`, "done"
    at,
    stopError, \* first_error: "" or what it is
    faults,
    overran    \* history: a drain of these files timed out

sinkVars == <<queue, pending, failed, rejected, owed, leftover, file>>
closeVars == <<closing, at, stopError>>
fileVars == <<sinkVars, closeVars, faults, overran>>

NoCue == [s \in Sinks |-> <<>>]
Zero == [s \in Sinks |-> 0]

SinksNew ==
    /\ queue = NoCue /\ pending = Zero /\ failed = Zero /\ rejected = Zero
    /\ owed = [s \in Sinks |-> "nothing"]
    /\ closing = "no" /\ at = 1 /\ stopError = ""

FilesInit == SinksNew /\ leftover = NoCue /\ file = NoCue /\ faults = 0 /\ overran = FALSE

(* CompositeSink::emit: every sink is offered the cue; a full one rejects it. *)
Emit(cue) ==
    LET full == {s \in Sinks : Len(queue[s]) >= QueueSize}
        More(f, set) == [s \in Sinks |-> IF s \in set THEN f[s] + 1 ELSE f[s]]
    IN  /\ queue' = [s \in Sinks |-> IF s \in full THEN queue[s] ELSE Append(queue[s], cue)]
        /\ pending' = More(pending, Sinks \ full)
        /\ rejected' = More(rejected, full)
        /\ UNCHANGED <<failed, owed, leftover, file, closeVars, faults, overran>>

(* The writer receives a cue, appends it to the file and lowers pending ... *)
Writes(s) ==
    /\ queue[s] # <<>> /\ owed[s] = "nothing"
    /\ queue' = [queue EXCEPT ![s] = Tail(@)]
    /\ pending' = [pending EXCEPT ![s] = @ - 1]
    /\ \/ /\ file' = [file EXCEPT ![s] = Append(@, Head(queue[s]))]
          /\ owed' = [owed EXCEPT ![s] = "saved"]
          /\ UNCHANGED faults
       \/ /\ faults < MaxFaults /\ faults' = faults + 1
          /\ owed' = [owed EXCEPT ![s] = "failed"]
          /\ UNCHANGED file
    /\ UNCHANGED <<failed, rejected, leftover, closeVars, overran>>

(* ... and only then says whether the write succeeded. *)
Counts(s) ==
    /\ owed[s] # "nothing"
    /\ failed' = [failed EXCEPT ![s] = IF owed[s] = "failed" THEN @ + 1 ELSE @]
    /\ owed' = [owed EXCEPT ![s] = "nothing"]
    /\ UNCHANGED <<queue, pending, rejected, leftover, file, closeVars, faults, overran>>

(* A writer whose sink was dropped goes on with what is in its channel. *)
WritesLeftover(s) ==
    /\ leftover[s] # <<>>
    /\ file' = [file EXCEPT ![s] = Append(@, Head(leftover[s]))]
    /\ leftover' = [leftover EXCEPT ![s] = Tail(@)]
    /\ UNCHANGED <<queue, pending, failed, rejected, owed, closeVars, faults, overran>>

(* CompositeSink::stop goes to the next sink, keeping the first error. *)
NextSink(error) ==
    /\ stopError' = IF stopError = "" THEN error ELSE stopError
    /\ at' = IF at < Len(Order) THEN at + 1 ELSE at
    /\ closing' = IF at < Len(Order) THEN "drain" ELSE "done"

CloseBegins ==
    /\ closing = "no" /\ closing' = "drain"
    /\ UNCHANGED <<at, stopError, sinkVars, faults, overran>>

Drained ==
    /\ closing = "drain" /\ pending[Order[at]] = 0
    /\ closing' = "stats"
    /\ UNCHANGED <<at, stopError, sinkVars, faults, overran>>

DrainTimesOut ==
    /\ closing = "drain" /\ pending[Order[at]] > 0
    /\ NextSink("timeout")
    /\ overran' = TRUE
    /\ UNCHANGED <<sinkVars, faults>>

StatsRead ==
    /\ closing = "stats"
    /\ NextSink(IF failed[Order[at]] > 0 \/ rejected[Order[at]] > 0 THEN "storage" ELSE "")
    /\ UNCHANGED <<sinkVars, faults, overran>>

(* create_session_sinks: new sinks, over the files of the last session or new ones. *)
SinksReopened(resumed) ==
    /\ queue' = NoCue /\ pending' = Zero /\ failed' = Zero /\ rejected' = Zero
    /\ owed' = [s \in Sinks |-> "nothing"]
    /\ closing' = "no" /\ at' = 1 /\ stopError' = ""
    /\ leftover' = IF resumed THEN queue ELSE NoCue
    /\ file' = IF resumed THEN file ELSE NoCue
    /\ overran' = (resumed /\ overran)
    /\ UNCHANGED faults

(* Mutant: a resumed session numbers from one. *)
NumbersFromOne(f) == 0

(* last_cue_counter: the marker of the last cue. *)
LastCue(f) == IF f["vtt"] = <<>> THEN 0 ELSE f["vtt"][Len(f["vtt"])]

FileStep == \E s \in Sinks : Writes(s) \/ Counts(s) \/ WritesLeftover(s)

CloseStep == Drained \/ DrainTimesOut \/ StatsRead
================================================================================
