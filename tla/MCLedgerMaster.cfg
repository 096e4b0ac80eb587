SPECIFICATION Spec
CONSTANTS
    History <- Forks
    Depth = 5
    Validator = {v0, v1, v2, v3}
    Self = v0
    Quorum = 2
    Loaded = 1
    MaxLedgerGap = 2
    FetchSize = 2
    Heard = {4, 5}
    Validations = 1
    Jobs = 1
    Failures = 1
    MaxRounds = 2
INVARIANTS
    NoneOverlooked
    PublishedBacked
    PublishResumes
PROPERTIES
    PublishedInOrder
SYMMETRY Validators
CHECK_DEADLOCK FALSE
