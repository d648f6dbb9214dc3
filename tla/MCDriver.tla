------------------------------- MODULE MCDriver -------------------------------
(***************************************************************************)
(* Instances of Driver for TLC.                                            *)
(***************************************************************************)
EXTENDS Driver, TLC

AllRequests == Requests
PositionSymmetry == Permutations(Positions)
=============================================================================
