------------------------- MODULE MCHttpConnections -------------------------
(***************************************************************************)
(* HttpConnections instantiated for TLC with symmetric connections.        *)
(***************************************************************************)
EXTENDS HttpConnections, TLC

Symmetry == Permutations(Conns)
=============================================================================
