\* One request at a time; its client may disconnect.
CONSTANTS
    Request = {r1}
    Key = {k1}
    MaxPart = 1
    Block = {"a", "b"}
    Bodies <- OtherSize
    CarefulClients = FALSE
    Faults = {"cancel"}
    MaxUploads = 1
    MaxMessages = 1
SPECIFICATION Spec
INVARIANT WholeBodies
