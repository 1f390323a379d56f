---------------------------- MODULE NoiseSuppressor ----------------------------
(***************************************************************************)
(* RnnoiseProcessor: crates/liveaudio-audio/src/rnnoise.rs.  Chunks come   *)
(* in, RNNoise works on frames of another size and one frame late, chunks  *)
(* go out.  A sample is the number it was captured under; what RNNoise     *)
(* makes of its value is left out, and so are timestamps.                  *)
(***************************************************************************)
EXTENDS Naturals, Sequences

CONSTANTS
    ChunkSize,  \* DEFAULT_CHUNK_SIZE (512)
    FrameSize   \* INPUT_SAMPLES_PER_FRAME (160)

ASSUME SuppressorAssumption == {ChunkSize, FrameSize} \subseteq Nat \ {0}

(* How many samples of s are in full chunks. *)
InBlocks(s) == (Len(s) \div ChunkSize) * ChunkSize

Blocks(s) == [i \in 1 .. Len(s) \div ChunkSize |->
                  SubSeq(s, (i - 1) * ChunkSize + 1, i * ChunkSize)]

(* What does not fill a chunk. *)
Rest(s) == SubSeq(s, InBlocks(s) + 1, Len(s))

(* frame: input of the frame being filled; pending: input whose output comes *)
(* with the next frame; staging: output that does not make a chunk yet.      *)
Fresh == [frame |-> <<>>, pending |-> <<>>, staging |-> <<>>]

Held(d) == d.staging \o d.pending \o d.frame

(* How many samples are in the frames that s completes. *)
InFrames(d, s) == (Len(d.frame \o s) \div FrameSize) * FrameSize

(* Mutant: the frame that s completes releases itself and not the one before. *)
ReleasedAtOnce(d, s) == SubSeq(d.frame \o s, 1, InFrames(d, s))

(* What comes out when s is fed: every frame releases the one before it. *)
Released(d, s) ==
    LET late == d.pending \o SubSeq(d.frame \o s, 1, InFrames(d, s))
    IN  IF InFrames(d, s) = 0 THEN <<>> ELSE SubSeq(late, 1, Len(late) - FrameSize)

(* process, for one chunk or several after one another. *)
Process(d, s) ==
    LET fed == d.frame \o s
        n   == InFrames(d, s)
    IN  [frame   |-> SubSeq(fed, n + 1, Len(fed)),
         pending |-> IF n = 0 THEN d.pending ELSE SubSeq(fed, n - FrameSize + 1, n),
         staging |-> Rest(d.staging \o Released(d, s))]

Processed(d, s) == Blocks(d.staging \o Released(d, s))

Padded(s) == [i \in 1 .. ChunkSize |-> IF i <= Len(s) THEN s[i] ELSE 0]

WithTail(s) == IF Rest(s) = <<>> THEN Blocks(s) ELSE Append(Blocks(s), Padded(Rest(s)))

(* flush: the partial frame releases the pending one, a silent frame releases *)
(* the partial one, and a tail that is not a chunk would be padded.           *)
Flushed(d) == WithTail(Held(d))
================================================================================
