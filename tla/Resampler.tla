------------------------------- MODULE Resampler -------------------------------
(***************************************************************************)
(* AudioResampler::resample_linear: crates/liveaudio-audio/src/            *)
(* resampler.rs.  Batches of input samples come in; which positions of the *)
(* input the output samples are taken at is all that is modelled of the    *)
(* values.  The phase is counted in 1/TargetRate of an input sample, where *)
(* ratio is exactly InputRate.  Chunks are cut by NoiseSuppressor!Blocks.  *)
(***************************************************************************)
EXTENDS Naturals

CONSTANTS
    InputRate,   \* input_sample_rate, any common factor taken out
    TargetRate,  \* target_sample_rate, likewise
    MaxInput     \* bound: samples fed in all

VARIABLES
    phase,   \* phase * TargetRate
    idx,     \* position in the current batch
    batch,   \* input.len() of the current batch
    before,  \* samples of the batches before it
    output   \* samples produced so far

vars == <<phase, idx, batch, before, output>>

Init == phase = 0 /\ idx = 0 /\ batch = 0 /\ before = 0 /\ output = 0

BatchDone == idx >= batch /\ phase < TargetRate

(* resample_linear is called with n more samples. *)
NextBatch(n) ==
    /\ BatchDone
    /\ before' = before + batch /\ batch' = n
    /\ before' + n <= MaxInput
    /\ idx' = 0
    /\ UNCHANGED <<phase, output>>

(* The first inner loop: a sample between input[idx - 1] and input[idx]. *)
Interpolate ==
    /\ idx < batch /\ phase < TargetRate
    /\ output' = output + 1
    /\ phase' = phase + InputRate
    /\ UNCHANGED <<idx, batch, before>>

(* The second inner loop; it does not look at the end of the batch. *)
Advance ==
    /\ phase >= TargetRate
    /\ phase' = phase - TargetRate
    /\ idx' = idx + 1
    /\ UNCHANGED <<batch, before, output>>

Next == Interpolate \/ Advance \/ \E n \in 1 .. MaxInput : NextBatch(n)

Spec == Init /\ [][Next]_vars

(* What comes out does not depend on how the input was cut into batches: after n *)
(* samples there are n * TargetRate / InputRate, rounded up.  resampler.rs says  *)
(* the resampler "Maintains fractional phase and boundary state across calls to  *)
(* ensure click-free, continuous streaming without phase distortion".            *)
ContinuousAcrossBatches ==
    BatchDone =>
        output = ((before + batch) * TargetRate + InputRate - 1) \div InputRate
================================================================================
