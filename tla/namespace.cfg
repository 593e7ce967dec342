\* Three pushes to two repositories of one namespace, one of them a legacy list,
\* with a merge and rotating recipients: adoption, resumption and promotion.
CONSTANTS
    Commits = {1, 2, 3, 4}
    Zero = 0
    Ancestry <- MergeAncestry
    FirstParents <- MergeFirstParents
    Policy <- RotatePolicy4
    Repos = {r1, r2}
    Helpers = {h1, h2, h3}
    Branches = {main}
    None = None
    Faults = {"crash"}
    LegacyRepos = {r1}
SPECIFICATION Spec
SYMMETRY HelperSymmetry
INVARIANT SnapshotsComplete
INVARIANT ValidationNeverFails
INVARIANT FirstPublicationReadable
CHECK_DEADLOCK FALSE
