\* Objects come and go while pages of two entries are read; or serve with two handlers
\* and every fault. A process that has exited takes no step.
CONSTANTS
    Char = {"a", "b", "c", "d", "p", "q", "z", "/"}
    Width <- OneByte
    Name <- Names
    Prefix <- OfP
    Delimiter = "/"
    PageSize = 2
    MaxFailures = 1
    Handler = {h1, h2}
    Blocks = 2
    Faults = {"connect", "auth", "session", "telegram", "startup", "listen", "cancel"}
    MaxMessages = 1
SPECIFICATION DaemonSpec
INVARIANTS TypeOK StableKeysListed KeysOnce ServeTypeOK ClosedInOrder StreamsWhole
PROPERTIES ListingEnds SignalEnds StreamsEnd
CHECK_DEADLOCK FALSE
