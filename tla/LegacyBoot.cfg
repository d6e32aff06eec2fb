CONSTANTS
    Kernels = {"k1", "k2", "k3"}
    Null = Null
    None = None
    Loaders = {"grub2", "syslinux"}
    MaxChanges = 2
SPECIFICATION FairSpec
INVARIANTS TypeOK UpdateDelivers
PROPERTIES MenuStays CollectsNoDefault Settles
