----------------------------- MODULE GitHistory -----------------------------
(***************************************************************************)
(* The immutable data every helper computes with: the commit graph as Git  *)
(* answers questions about it, and the recipient policy (.publickeys)      *)
(* committed at each commit.  Commits, hashes and keys are uninterpreted;  *)
(* only ancestry, the first-parent line and key-chain generations matter.  *)
(***************************************************************************)
EXTENDS Integers, Sequences, FiniteSets, SequencesExt

CONSTANTS
    Commits,        \* commit object ids
    Zero,           \* the all-zero object id: the base of a first bundle
    Ancestry,       \* Ancestry[c]: the commits reachable from c, c included
    FirstParents,   \* FirstParents[c]: git rev-list --first-parent --reverse c
    Policy          \* Policy[c]: chain name -> newest generation at commit c

ASSUME HistoryAssumption ==
    /\ Zero \notin Commits
    /\ Ancestry \in [Commits -> SUBSET Commits]
    /\ \A c \in Commits : c \in Ancestry[c]
    /\ \A c, d \in Commits : d \in Ancestry[c] => Ancestry[d] \subseteq Ancestry[c]
    /\ \A c, d \in Commits : d \in Ancestry[c] /\ c \in Ancestry[d] => c = d

\* A line of commits, oldest first: later ones properly contain earlier ones.
Rising(line) ==
    \A i, j \in DOMAIN line : i < j =>
        line[i] # line[j] /\ line[i] \in Ancestry[line[j]]

\* The line of c ends at c.
ASSUME FirstParentAssumption ==
    \A c \in Commits :
        /\ FirstParents[c] \in Seq(Commits) \ {<<>>}
        /\ Last(FirstParents[c]) = c
        /\ Rising(FirstParents[c])

\* Key generations count from 1.  A commit may carry no policy at all.
ASSUME PolicyAssumption ==
    \A c \in Commits :
        /\ IsFiniteSet(DOMAIN Policy[c])
        /\ \A k \in DOMAIN Policy[c] : Policy[c][k] \in Nat \ {0}

Hashes == Commits \cup {Zero}

\* git merge-base --is-ancestor: an unknown hash is simply not contained.
gitBranchContains(tip, c) == c \in Ancestry[tip]

\* git rev-list --count end..tip, the distance adoptBundles minimises.
CommitsBeyond(end, tip) == Cardinality(Ancestry[tip] \ Ancestry[end])

(***************************************************************************)
(* pushBundleCommits: the bundle boundaries of base..tip, as the set of    *)
(* answers (one, when tip properly contains base; none is the code's "no   *)
(* bundle boundary contains remote base").  The rev-list drops what base   *)
(* already contains and the binary search keeps the suffix of commits that *)
(* contain base: a base in side history joins the line above its bottom.   *)
(***************************************************************************)
Beyond(base, c) == c # base /\ gitBranchContains(c, base)

pushBundleCommits(base, tip) ==
    LET line == FirstParents[tip]
    IN  IF base = Zero
        THEN {line}
        ELSE {SubSeq(line, n, Len(line)) :
                 n \in {i \in 1..Len(line) :
                          /\ Beyond(base, line[i])
                          /\ i > 1 => ~Beyond(base, line[i-1])}}

----------------------------------------------------------------------------
(* Recipient policy.  A key is a generation of a named chain.              *)

KeyIds == (UNION {DOMAIN Policy[c] : c \in Commits}) \X (Nat \ {0})

\* KeyChains.Latest: the keys a push at this tip encrypts every new bundle to.
Recipients(tip) == {<<k, Policy[tip][k]>> : k \in DOMAIN Policy[tip]}

\* compatibleRecipients: exactly one ciphertext recipient per current chain,
\* of any generation the chain retains, and no extras.
compatibleRecipients(keys, tip) ==
    /\ Cardinality(keys) = Cardinality(DOMAIN Policy[tip])
    /\ \A k \in DOMAIN Policy[tip] : \E g \in 1..Policy[tip][k] : <<k, g>> \in keys

\* libsodium.ValidateKeyChainTransition: a chain that stays is never truncated.
KeyChainTransition(base, tip) ==
    \A k \in DOMAIN Policy[base] \cap DOMAIN Policy[tip] :
        Policy[base][k] <= Policy[tip][k]
=============================================================================
