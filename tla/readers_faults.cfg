\* One reader against two failing pushes to a repository with a legacy list.
CONSTANTS
    Commits = {1, 2, 3}
    Zero = 0
    Ancestry <- ForkAncestry
    FirstParents <- ForkFirstParents
    Policy <- SteadyPolicy3
    Repos = {r1}
    Helpers = {h1, h2}
    Branches = {main}
    None = None
    Faults = {"error", "crash", "lapse", "unknown"}
    LegacyRepos = {r1}
    Readers = {c1}
    maximumAttempts = 3
SPECIFICATION RemoteSpec
SYMMETRY Symmetry
INVARIANT RemoteInv
INVARIANT ReadsAreSound
INVARIANT FetchedContainsListed
CHECK_DEADLOCK FALSE
