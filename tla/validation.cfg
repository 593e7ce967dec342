\* Three completed bundles for two goroutines, so that the feeder can be left
\* without a receiver; a chain that can name a bundle twice; a second operation
\* over the first one's cache; one administrative change.
CONSTANTS
    Keys = {k1, k2, k3}
    Chained = {k1, k2}
    Begins <- MCBegins
    Ends <- MCEnds
    Zero = Zero
    c1 = c1
    c2 = c2
    k1 = k1
    k2 = k2
    k3 = k3
    good = good
    rewrapped = rewrapped
    retipped = retipped
    r1 = r1
    r2 = r2
    t1 = t1
    t2 = t2
    Versions = {good, rewrapped, retipped}
    Envelope <- MCEnvelope
    PushTip <- MCPushTip
    Policy <- MCPolicy
    Tip = t1
    Workers = {w1, w2}
    Caller = Caller
    None = None
    Success = Success
    Parent = Parent
    Canceled = Canceled
    GitFailed = GitFailed
    MaxChain = 2
    MaxOperations = 2
    MaxChanges = 1
SPECIFICATION ValidationSpec
INVARIANT ValidationTypeOK
INVARIANT ChecksAreTrue
INVARIANT FirstErrorReported
PROPERTY OperationsReturn
CHECK_DEADLOCK FALSE
