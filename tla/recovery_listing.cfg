\* A recovery listing against two pushes that do not fail.
CONSTANTS
    Commits = {1, 2}
    Zero = 0
    Ancestry <- LinearAncestry2
    FirstParents <- LinearFirstParents2
    Policy <- SteadyPolicy2
    Repos = {r1}
    Helpers = {h1, h2}
    Branches = {main}
    None = None
    Faults = {}
    LegacyRepos = {}
    Readers = {c1}
    maximumAttempts = 3
SPECIFICATION RemoteSpec
SYMMETRY Symmetry
INVARIANT SupersededIsHarmless
CHECK_DEADLOCK FALSE
