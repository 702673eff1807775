----------------------------- MODULE MCRetention -----------------------------
(***************************************************************************)
(* Three tasks of one fingerprint, which may be exchanged.                 *)
(***************************************************************************)
EXTENDS Retention, TLC

CONSTANTS t1, t2, t3

Symmetric == Permutations({t1, t2, t3})
=============================================================================
