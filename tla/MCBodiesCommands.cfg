\* Bodies are received, stored, overwritten and read, whole or in part; or one command at
\* a time runs beside two requests.
CONSTANTS
    HeaderSize = 1
    TagLen = 1
    FrameSize = 2
    BodySizes = {0, 1, 4, 5, 6, 10}
    ChunkSizes = {1, 3}
    MaxObjectSize = 9
    MaxNumber = 5
    MaxVersions = 2
    Bucket = {b1}
    Key = {k1}
    Request = {r1, r2}
    Ops = {"createBucket", "deleteBucket", "putObject", "deleteObject"}
    Faults = {"database"}
    CommandFaults = {"telegram", "database"}
    BucketOpsAlone = FALSE
    CacheEnabled = FALSE
    MaxMessages = 2
    MaxDataKeys = 2
SPECIFICATION BothSpec
SYMMETRY Symmetry
INVARIANTS
    WritesTypeOK WholeAnswersRight RangeAnswersRight UndamagedReadsComplete
    StoredAsSent AlterationsFound LimitsExact
    FsckRepairs ImportRestoresAll RestoredInBuckets KeysMatchIndex
PROPERTIES FsckSparesTheLiving ImportOverwritesNothing
