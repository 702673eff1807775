------------------------------ MODULE MCFrontend ------------------------------
(***************************************************************************)
(* A tab that submits a content at most twice, and the tasks the system    *)
(* makes of it.                                                            *)
(***************************************************************************)
EXTENDS Frontend, TLC

CONSTANTS t1, t2, c1, c2

Fingerprints == Content \X Style

SameContent == [t \in Task |-> <<c1, "bullet_points">>]
=============================================================================
