---------------------------- MODULE MCHelperLoop ----------------------------
(* A TLC instance of HelperLoop.                                           *)
EXTENDS HelperLoop

CONSTANTS h1, h2
MCMaxLines == [h \in {h1, h2} |-> IF h = h1 THEN 2 ELSE 0]
=============================================================================
