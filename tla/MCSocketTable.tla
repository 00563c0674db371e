--------------------------- MODULE MCSocketTable ---------------------------
(***************************************************************************)
(* Instances of SocketTable for TLC.  Connections are interchangeable.     *)
(***************************************************************************)
EXTENDS SocketTable, TLC

Symmetry == Permutations(Conns)
============================================================================
