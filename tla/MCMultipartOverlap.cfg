\* Any clients and every fault; the bodies of a part have one size.
CONSTANTS
    Request = {r1, r2}
    Key = {k1}
    MaxPart = 1
    Block = {"a", "b"}
    Bodies <- SameSize
    CarefulClients = FALSE
    Faults = {"cancel", "database", "removal", "crash"}
    MaxUploads = 1
    MaxMessages = 1
SPECIFICATION Spec
SYMMETRY Symmetry
INVARIANT WholeBodies
