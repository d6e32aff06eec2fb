CONSTANTS
    MaxNo = 3
    NvFaults = {"set", "data"}
    MaxChanges = 2
SPECIFICATION Spec
INVARIANTS TypeOK NoDuplicate FindsFirstFree
PROPERTIES NeverOverwrites OthersKeepOrder
