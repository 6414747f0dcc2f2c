\* Every operation and every fault; bucket operations have their bucket to themselves.
CONSTANTS
    Bucket = {b1}
    Key = {k1}
    Request = {r1, r2}
    Ops = {"createBucket", "deleteBucket", "putObject", "getObject", "deleteObject"}
    Faults = {"cancel", "telegram", "database", "keysFile", "crash"}
    BucketOpsAlone = TRUE
    CacheEnabled = TRUE
    MaxMessages = 2
    MaxDataKeys = 2
SPECIFICATION Spec
SYMMETRY Symmetry
INVARIANTS TypeOK RowsReadable CipherCoherent NoDanglingRow GetAnswersTruly
PROPERTY KeepsPromise
