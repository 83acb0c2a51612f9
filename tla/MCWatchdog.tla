---------------------------- MODULE MCWatchdog ----------------------------
(***************************************************************************)
(* Small instances of Watchdog for TLC.                                    *)
(***************************************************************************)
EXTENDS Watchdog, TLC

CONSTANTS a, b, exc, w1, w2, w3, fn

\* Addresses differ in nothing but their names.
Symmetry == Permutations(Wdogs)
=============================================================================
