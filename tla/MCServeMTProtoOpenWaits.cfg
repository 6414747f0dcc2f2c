\* One handler; Run gives up before it calls back, and nothing else goes wrong.
CONSTANTS
    Handler = {h1}
    Blocks = 1
    Faults = {"connect"}
    MaxMessages = 1
SPECIFICATION ServeSpec
INVARIANT OpenWaits
CHECK_DEADLOCK FALSE
