----------------------------- MODULE MCMsgQueue -----------------------------
(***************************************************************************)
(* Small instances of MsgQueue for TLC.                                    *)
(***************************************************************************)
EXTENDS MsgQueue, TLC

CONSTANTS a, b, c, m1, m2

\* One task is more urgent than the others.
Ranks == [t \in Tasks |-> IF t = b THEN 2 ELSE 1]
=============================================================================
