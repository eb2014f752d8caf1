---------------------------- MODULE MCCameraService ----------------------------
(* Small instances of CameraService for TLC.                                *)
EXTENDS CameraService, TLC

MCThreads == Callers \cup {HotPlug}
Symmetry == Permutations(Callers) \cup Permutations(Devices) \cup Permutations(Sessions)
===============================================================================
