\* Two callers, one upload, one retry, every failure.
CONSTANTS
    Call = {c1, c2}
    MaxRetry = 1
    MaxPuts = 1
SPECIFICATION Spec
INVARIANTS TypeOK AnswersTrue OneMessagePerPut
PROPERTY CallsEnd
