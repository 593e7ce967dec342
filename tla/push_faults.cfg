\* Two pushes to one repository, with every fault, over a forked history
\* one side of which drops its recipient policy.
CONSTANTS
    Commits = {1, 2, 3, 4}
    Zero = 0
    Ancestry <- DropAncestry
    FirstParents <- DropFirstParents
    Policy <- DropPolicy4
    Repos = {r1}
    Helpers = {h1, h2}
    Branches = {main, dev}
    None = None
    Faults = {"error", "crash", "lapse", "unknown"}
    LegacyRepos = {}
SPECIFICATION Spec
SYMMETRY HelperSymmetry
INVARIANT TypeOK
INVARIANT PointerResolves
INVARIANT SnapshotsComplete
INVARIANT ValidationNeverFails
INVARIANT NoLostPush
PROPERTY DeletesOnlySuperseded
PROPERTY RefinesPublishedBranch
CHECK_DEADLOCK FALSE
