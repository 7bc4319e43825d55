-------------------------- MODULE MCCaptureRegistry --------------------------
(***************************************************************************)
(* Small instances of CaptureRegistry for TLC.                             *)
(***************************************************************************)
EXTENDS CaptureRegistry, TLC

\* Threads, paths and processes are interchangeable; used for safety runs only.
Symmetry == Permutations(Threads) \cup Permutations(Paths) \cup Permutations(Procs)

=============================================================================
