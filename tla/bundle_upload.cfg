\* Two uploads of one key, of the same tip or of two; sizes for one PUT, for even
\* and uneven parts, for parts that have to grow, and beyond every limit.
CONSTANTS
    Jobs = {j1, j2}
    Tips = {t1, t2}
    Sizes = {1, 4, 5, 7}
    bundleUploadPartSize = 2
    maxUploadPartSize = 3
    maxUploadParts = 2
    None = None
SPECIFICATION BundleSpec
INVARIANT UploadInv
INVARIANT LeftoversAreReported
INVARIANT PartsWithinLimits
INVARIANT CallbackJoined
PROPERTY RefinesStoredBundle
PROPERTY CancellationEndsUpload
CHECK_DEADLOCK FALSE
