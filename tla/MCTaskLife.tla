---------------------------- MODULE MCTaskLife ----------------------------
(***************************************************************************)
(* Small instances of TaskLife for TLC.                                    *)
(***************************************************************************)
EXTENDS TaskLife

CONSTANTS r, a, b
=============================================================================
