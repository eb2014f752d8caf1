-------------------------- MODULE MCCaptureSession --------------------------
(* Small instances of CaptureSession for TLC.                               *)
EXTENDS CaptureSession, TLC

(* Intermediate buffers and streams are interchangeable, callers too; not  *)
(* used in the runs that check liveness.                                   *)
Symmetry == Permutations(Slots) \cup Permutations(Streams) \cup Permutations(Callers)
=============================================================================
