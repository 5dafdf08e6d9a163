------------------------------ MODULE MCPipeline ------------------------------
(***************************************************************************)
(* Instances of Pipeline for TLC: more frames than the queue has room for, *)
(* so that the callback blocks.                                            *)
(***************************************************************************)
EXTENDS Pipeline
=============================================================================
