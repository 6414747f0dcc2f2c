\* One caller: an upload, and a read of it that is told to wait once.
CONSTANTS
    Call = {c1}
    MaxRetry = 1
    MaxPuts = 1
SPECIFICATION Spec
INVARIANT FloodsAnswerSlowDown
