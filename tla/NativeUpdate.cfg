CONSTANTS
    k1 = k1
    k2 = k2
    k3 = k3
    k4 = k4
    None = None
    Torn = Torn
    Kernels = {k1, k2, k3}
    KType <- MCType3
    KVersion <- MCVersion3
    KRelease <- MCRelease3
    Installed = {k1, k2}
    Faults = {"io"}
    MaxEvents = 2
SPECIFICATION MCSpec
INVARIANTS TypeOK UpdateDelivers
PROPERTIES GcSpares GcLeavesBootable Idempotent DefaultSwitchedToBootable
