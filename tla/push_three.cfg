\* Three pushes to one repository that fail, crash and lose sight of requests:
\* the inductive invariant of the proofs.
CONSTANTS
    Commits = {1, 2, 3}
    Zero = 0
    Ancestry <- ForkAncestry
    FirstParents <- ForkFirstParents
    Policy <- SteadyPolicy3
    Repos = {r1}
    Helpers = {h1, h2, h3}
    Branches = {main}
    None = None
    Faults = {"error", "crash", "unknown"}
    LegacyRepos = {}
SPECIFICATION Spec
SYMMETRY HelperSymmetry
INVARIANT PushInv
CHECK_DEADLOCK FALSE
