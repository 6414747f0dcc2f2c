\* Clients that wait for an answer before they disturb what it is about.
CONSTANTS
    Request = {r1, r2}
    Key = {k1}
    MaxPart = 2
    Block = {"a", "b", "c"}
    Bodies <- TwoParts
    CarefulClients = TRUE
    Faults = {"telegram", "database", "disk", "bucketGone", "crash"}
    MaxUploads = 1
    MaxMessages = 1
SPECIFICATION Spec
SYMMETRY Symmetry
INVARIANTS TypeOK CompletedAsListed AbortLeavesNothing
