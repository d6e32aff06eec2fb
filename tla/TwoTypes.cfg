CONSTANTS
    k1 = k1
    k2 = k2
    k3 = k3
    k4 = k4
    None = None
    Torn = Torn
    Kernels = {k1, k2, k3, k4}
    KType <- MCType4
    KVersion <- MCVersion4
    KRelease <- MCRelease4
    Installed = {k1, k2, k4}
    Faults = {}
    MaxEvents = 1
SPECIFICATION Spec
INVARIANTS GcInv KeptBootable
