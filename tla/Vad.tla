---------------------------------- MODULE Vad ----------------------------------
(***************************************************************************)
(* SileroVad after the model: crates/liveaudio-vad/src/silero.rs.  A frame *)
(* is speech or it is not; what is kept is the hysteresis that makes       *)
(* phrases of frames.                                                      *)
(***************************************************************************)
EXTENDS Naturals

CONSTANTS
    SilenceLimit,  \* silence_limit_chunks
    MaxChunks,     \* max_chunks_limit
    PreRollSize    \* pre_buffer_chunks, of the VAD and of the audio task alike

ASSUME VadAssumption == SilenceLimit \in Nat /\ {MaxChunks, PreRollSize} \subseteq Nat \ {0}

(* lead: how many chunks pre_buffer holds. *)
Silent == [speaking |-> FALSE, silence |-> 0, chunks |-> 0, lead |-> 0]

Vads == [speaking : BOOLEAN, silence : 0 .. SilenceLimit, chunks : Nat, lead : 0 .. PreRollSize]

Transition(v, speech) ==
    CASE ~v.speaking /\ speech -> "start"
      [] v.speaking /\ v.chunks + 1 >= MaxChunks -> "limit"
      [] /\ v.speaking /\ v.chunks + 1 < MaxChunks
         /\ ~speech /\ v.silence + 1 > SilenceLimit -> "silence"
      [] OTHER -> "none"

(* Mutant: the chunks of the lead-in are not counted. *)
ForgetsLead(v, speech) ==
    CASE Transition(v, speech) = "start" ->
             [speaking |-> TRUE, silence |-> 0, chunks |-> 1, lead |-> 0]
      [] Transition(v, speech) \in {"limit", "silence"} -> Silent
      [] v.speaking /\ Transition(v, speech) = "none" ->
             [v EXCEPT !.silence = IF speech THEN 0 ELSE @ + 1, !.chunks = @ + 1]
      [] OTHER -> [v EXCEPT !.lead = IF @ < PreRollSize THEN @ + 1 ELSE @]

(* The VAD after the frame. *)
Evaluated(v, speech) ==
    CASE Transition(v, speech) = "start" ->
             [speaking |-> TRUE, silence |-> 0, chunks |-> v.lead + 1, lead |-> 0]
      [] Transition(v, speech) \in {"limit", "silence"} -> Silent
      [] v.speaking /\ Transition(v, speech) = "none" ->
             [v EXCEPT !.silence = IF speech THEN 0 ELSE @ + 1, !.chunks = @ + 1]
      [] OTHER -> [v EXCEPT !.lead = IF @ < PreRollSize THEN @ + 1 ELSE @]

(* duration_ms, in frames, of the phrase the frame ends. *)
Duration(v) == v.chunks + 1
================================================================================
