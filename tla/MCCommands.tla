----------------------------- MODULE MCCommands -----------------------------
(* A TLC instance of Commands.                                             *)
EXTENDS CommandInvariant

CommandSymmetry == Permutations(Operators) \cup Permutations(Backups)

\* Records of old helpers with and without a payload, one whose lock was
\* never cleared, a migrated record, and one nobody knows.
Records ==
    {[branch |-> "main", bundles |-> "k1", uid |-> "", unix |-> "0"],
     [bundles |-> "", unix |-> "0"],
     [uid |-> "", unix |-> "0"],
     [branch |-> "main", bundles |-> "k1", uid |-> "held", unix |-> "now"],
     [data |-> [branch |-> "main", bundles |-> "k1"]],
     [data |-> [branch |-> "main", bundles |-> "k1"], other |-> "x"]}
InitialRecords ==
    [i \in Ids |-> IF i \in Busy THEN Records \cup {NoItem}
                   ELSE {[branch |-> "main", bundles |-> "k1", uid |-> ""]}]

\* Two pairs across two directories: each pair's public file lies beside the
\* other pair's secret file.
KeyPaths == {"p1", "s1", "p2", "s2"}
KeyDirOf == [p \in KeyPaths |-> IF p \in {"p1", "s2"} THEN 1 ELSE 2]
KeyPairs == {[public |-> "p1", secret |-> "s1"], [public |-> "p2", secret |-> "s2"]}
=============================================================================
