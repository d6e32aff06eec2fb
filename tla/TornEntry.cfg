CONSTANTS
    k1 = k1
    k2 = k2
    k3 = k3
    k4 = k4
    None = None
    Torn = Torn
    Kernels = {k1, k2}
    KType <- MCType2
    KVersion <- MCVersion2
    KRelease <- MCRelease2
    Installed = {k1}
    Faults = {}
    MaxEvents = 3
SPECIFICATION Spec
INVARIANT RepairsRunning
