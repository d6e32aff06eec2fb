CONSTANTS
    Kernels = {"k1", "k2"}
    Null = Null
    None = None
    Loaders = {"grub2"}
    MaxChanges = 1
SPECIFICATION Spec
INVARIANT SetKernelSets
