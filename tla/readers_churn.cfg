\* One reader against four pushes, one more than it has attempts.
CONSTANTS
    Commits = {1, 2, 3, 4}
    Zero = 0
    Ancestry <- LinearAncestry4
    FirstParents <- LinearFirstParents4
    Policy <- SteadyPolicy4
    Repos = {r1}
    Helpers = {h1, h2, h3, h4}
    Branches = {main}
    None = None
    Faults = {}
    LegacyRepos = {}
    Readers = {c1}
    maximumAttempts = 3
SPECIFICATION RemoteSpec
SYMMETRY Symmetry
INVARIANT ExhaustionMeansChurn
CHECK_DEADLOCK FALSE
