\* Every base and tip of a history with a merge, so that a base may lie in side
\* history and a range may be split three times; two writes by other processes.
CONSTANTS
    Commits = {1, 2, 3, 4, 5, 6}
    Zero = 0
    Ancestry <- SideAncestry
    FirstParents <- SideFirstParents
    Policy <- SteadyPolicy6
    MaxWrites = 2
SPECIFICATION PackingSpec
INVARIANT SearchFindsBoundaries
INVARIANT PackedRangesCover
PROPERTY ForeignRefsSurvive
CHECK_DEADLOCK FALSE
