\* A PUT overlaps the deletion of its bucket; nothing fails.
CONSTANTS
    Bucket = {b1}
    Key = {k1}
    Request = {r1, r2}
    Ops = {"createBucket", "deleteBucket", "putObject", "getObject", "deleteObject"}
    Faults = {}
    BucketOpsAlone = FALSE
    CacheEnabled = FALSE
    MaxMessages = 1
    MaxDataKeys = 2
SPECIFICATION Spec
SYMMETRY Symmetry
INVARIANT ObjectsHaveBucket
