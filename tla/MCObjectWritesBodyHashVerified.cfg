\* One body of one byte, which may be altered on its way; nothing is overwritten.
CONSTANTS
    HeaderSize = 1
    TagLen = 1
    FrameSize = 2
    BodySizes = {1}
    ChunkSizes = {1}
    MaxObjectSize = 9
    MaxNumber = 5
    MaxVersions = 1
SPECIFICATION WritesSpec
INVARIANT BodyHashVerified
