\* Two pushes to two repositories, one of them a legacy list, with every fault,
\* under fairness.
CONSTANTS
    Commits = {1, 2}
    Zero = 0
    Ancestry <- LinearAncestry2
    FirstParents <- LinearFirstParents2
    Policy <- SteadyPolicy2
    Repos = {r1, r2}
    Helpers = {h1, h2}
    Branches = {main}
    None = None
    Faults = {"error", "crash", "lapse", "unknown"}
    LegacyRepos = {r2}
SPECIFICATION LiveSpec
PROPERTY PushesEnd
PROPERTY LeaseComesBack
CHECK_DEADLOCK FALSE
