----------------------------- MODULE Histories ------------------------------
(***************************************************************************)
(* Small commit graphs and recipient policies for the TLC instances.       *)
(* A graph is its parent lists, first parent first.                        *)
(***************************************************************************)
EXTENDS Integers, Sequences, FiniteSets, TLC

\* Commits numbered so that parents come first; reach is computed upwards.
LOCAL Reach(parents, n) ==
    LET f[i \in 1..n] == {i} \cup UNION {f[p] : p \in {parents[i][j] : j \in DOMAIN parents[i]}}
    IN  f
LOCAL Line(parents, n) ==
    LET f[i \in 1..n] == IF parents[i] = <<>> THEN <<i>> ELSE Append(f[parents[i][1]], i)
    IN  f

\* 1 <- 2 <- 3 <- 4
LinearParents == <<<<>>, <<1>>, <<2>>, <<3>>>>
LinearAncestry2 == Reach(LinearParents, 2)
LinearAncestry3 == Reach(LinearParents, 3)
LinearAncestry4 == Reach(LinearParents, 4)
LinearFirstParents2 == Line(LinearParents, 2)
LinearFirstParents3 == Line(LinearParents, 3)
LinearFirstParents4 == Line(LinearParents, 4)

\* 2 and 3 both follow 1 and diverge; 4 merges 3 into 2.
MergeParents == <<<<>>, <<1>>, <<1>>, <<2, 3>>>>
ForkAncestry == Reach(MergeParents, 3)
ForkFirstParents == Line(MergeParents, 3)
MergeAncestry == Reach(MergeParents, 4)
MergeFirstParents == Line(MergeParents, 4)

\* 4 follows 3 in the fork and drops the policy file.
DropParents == <<<<>>, <<1>>, <<1>>, <<3>>>>
DropAncestry == Reach(DropParents, 4)
DropFirstParents == Line(DropParents, 4)
DropPolicy4 == [c \in 1..4 |-> IF c = 4 THEN <<>> ELSE [alice |-> 1]]

\* 4 merges 3, which followed 1, into 2; 5 and 6 follow it.
SideParents == <<<<>>, <<1>>, <<1>>, <<2, 3>>, <<4>>, <<5>>>>
SideAncestry == Reach(SideParents, 6)
SideFirstParents == Line(SideParents, 6)

\* One recipient; it rotates its key at 2; a second recipient joins at 3.
SteadyPolicy2 == [c \in 1..2 |-> [alice |-> 1]]
SteadyPolicy3 == [c \in 1..3 |-> [alice |-> 1]]
SteadyPolicy6 == [c \in 1..6 |-> [alice |-> 1]]
SteadyPolicy4 == [c \in 1..4 |-> [alice |-> 1]]
RotatePolicy3 == <<[alice |-> 1], [alice |-> 2], [alice |-> 2, bob |-> 1]>>
RotatePolicy4 == <<[alice |-> 1], [alice |-> 2], [alice |-> 1, bob |-> 1],
                   [alice |-> 2, bob |-> 1]>>
=============================================================================
