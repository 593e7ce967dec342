\* Two migrations beside helpers nobody stopped; two key generations on two pairs.
CONSTANTS
    Ids = {1, 2}
    Operators = {o1, o2}
    Values = {"k2"}
    Backups = {b1, b2}
    Initial <- InitialRecords
    Busy = {1}
    Unstopped = {{}, {"old"}, {"new"}}
    Runs = {r1, r2}
    Dirs = {1, 2}
    Paths <- KeyPaths
    DirOf <- KeyDirOf
    Pairs <- KeyPairs
    Old = Old
    Other = Other
    Nobody = Nobody
    Absent = Absent
SPECIFICATION CommandsSpec
SYMMETRY CommandSymmetry
INVARIANT CommandsInv
INVARIANT OriginalsBackedUp
INVARIANT SuccessMeansMigrated
INVARIANT PublicHasSecret
INVARIANT SuccessIsDurable
PROPERTY CarriesPayload
PROPERTY ChainsOnlyGrow
CHECK_DEADLOCK FALSE
