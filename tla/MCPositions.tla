---------------------------- MODULE MCPositions ----------------------------
(***************************************************************************)
(* Positions instantiated for TLC.                                         *)
(***************************************************************************)
EXTENDS Positions
=============================================================================
