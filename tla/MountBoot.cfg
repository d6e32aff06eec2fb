CONSTANTS
    Systems <- MCSystems
    Ops <- MCOps
SPECIFICATION Spec
INVARIANTS TypeOK PathsFresh OnePlace ReachesBootDevice Restored
