CONSTANTS
    Files = {"a"}
    Procs = {"p1", "p2"}
    Contents = {"v1", "u1", "empty"}
    UserContents = {"u1"}
    VendorContents = {"v1"}
    Kernels = {"k1"}
    MaxChanges = 0
SPECIFICATION Spec
INVARIANT TargetWhole
