----------------------------- MODULE MCPacking ------------------------------
(* A TLC instance of Packing.                                              *)
EXTENDS Packing, Histories
=============================================================================
