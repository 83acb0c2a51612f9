---------------------------- MODULE MCSemaphore ----------------------------
(***************************************************************************)
(* Small instances of Semaphore for TLC.                                   *)
(***************************************************************************)
EXTENDS Semaphore, TLC

CONSTANTS a, b, c, x

\* Tasks differ in nothing but their names.
Symmetry == Permutations(Tasks)
=============================================================================
