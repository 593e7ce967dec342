---------------------------- MODULE MCValidation ----------------------------
(* A TLC instance of Validation.                                           *)
EXTENDS Validation

CONSTANTS k1, k2, k3, c1, c2, good, rewrapped, retipped, r1, r2, t1, t2

\* The object of this push; the same Git data for other recipients; an object of
\* another push with the same range.
MCEnvelope == [v \in {good, rewrapped, retipped} |->
                   IF v = rewrapped THEN {r1, r2} ELSE {r1}]
MCPushTip == [v \in {good, rewrapped, retipped} |-> IF v = retipped THEN t2 ELSE t1]
\* One bundle reaches back to the start of history, two continue it.
MCBegins == [k \in {k1, k2, k3} |-> IF k = k1 THEN Zero ELSE c1]
MCEnds == [k \in {k1, k2, k3} |-> IF k = k1 THEN c1 ELSE c2]
MCPolicy == {r1}
=============================================================================
