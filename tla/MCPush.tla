------------------------------- MODULE MCPush -------------------------------
(* TLC instances of Push.                                                  *)
EXTENDS PushInvariant, Histories

HelperSymmetry == Permutations(Helpers)
=============================================================================
