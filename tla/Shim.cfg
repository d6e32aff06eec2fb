CONSTANTS
    Modes = {"native", "noefi", "image"}
    IoFaults = TRUE
    MaxNo = 1
    NvFaults = {"read", "get", "set", "data"}
    MaxChanges = 3
SPECIFICATION FairSpec
INVARIANTS LoaderCurrent CreatedBootsFirst
PROPERTIES RecordAfterFiles Idempotent CurrentAgain
