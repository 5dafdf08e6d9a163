--------------------------- MODULE MCRawSocketRing ---------------------------
(***************************************************************************)
(* Instances of RawSocketRing for TLC: three blocks of two frames wrap the *)
(* ring with four to seven arrivals; two blocks of one frame freeze it at  *)
(* once.                                                                   *)
(***************************************************************************)
EXTENDS RawSocketRing
=============================================================================
