--------------------------- MODULE MCProducerConn ---------------------------
(***************************************************************************)
(* Instances of ProducerConn for TLC.  The connections are interchangeable *)
(* where only safety is checked.                                           *)
(***************************************************************************)
EXTENDS ProducerConn, TLC

Symmetry == Permutations(Conns)
=============================================================================
