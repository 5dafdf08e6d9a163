---------------------------- MODULE MCPacketQueue ----------------------------
(***************************************************************************)
(* Instances of PacketQueue for TLC: threads are model values.  No         *)
(* symmetry, because liveness is checked as well.                          *)
(***************************************************************************)
EXTENDS PacketQueue
=============================================================================
