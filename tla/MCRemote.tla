------------------------------ MODULE MCRemote ------------------------------
(* TLC instances of Remote.                                                *)
EXTENDS ReaderInvariant, Histories

Symmetry == Permutations(Helpers)
=============================================================================
