--------------------------- MODULE PublishedBranch --------------------------
(***************************************************************************)
(* What a remote promises its users: per repository one branch head that   *)
(* only ever moves forward along ancestry, and a set of acknowledged       *)
(* commits that the head always contains.  Leases, manifests, bundles and  *)
(* every failure are below this level.                                     *)
(***************************************************************************)
CONSTANTS Repos, Commits, Zero, Ancestry

VARIABLES
    head,   \* [Repos -> Commits or Zero], the published commit
    acked   \* [Repos -> SUBSET Commits], commits whose push reported success

vars == <<head, acked>>

Contained(c, h) == h # Zero /\ c \in Ancestry[h]

Init ==
    /\ head \in [Repos -> Commits \cup {Zero}]
    /\ acked = [r \in Repos |-> {}]

\* The branch moves to a commit that contains the old head; the push may be
\* acknowledged in the same step, later, or never.
Advance(r, c) ==
    /\ head[r] = Zero \/ Contained(head[r], c)
    /\ head' = [head EXCEPT ![r] = c]
    /\ acked' \in {acked, [acked EXCEPT ![r] = @ \cup {c}]}

\* A push is acknowledged only for a commit the branch contains.
Acknowledge(r, c) ==
    /\ Contained(c, head[r])
    /\ acked' = [acked EXCEPT ![r] = @ \cup {c}]
    /\ UNCHANGED head

Next == \E r \in Repos, c \in Commits : Advance(r, c) \/ Acknowledge(r, c)

Spec == Init /\ [][Next]_vars
=============================================================================
