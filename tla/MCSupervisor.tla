---------------------------- MODULE MCSupervisor ----------------------------
(* Small instances of Supervisor for TLC. *)
EXTENDS Supervisor, TLC

StopperSymmetry == Permutations(Stoppers)
=============================================================================
