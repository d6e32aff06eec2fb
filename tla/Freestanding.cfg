CONSTANTS
    Files = {"a", "b"}
    Procs = {"p"}
    Contents = {"u1", "v1", "empty"}
    UserContents = {"u1"}
    VendorContents = {"v1"}
    Kernels = {"k1", "k2"}
    MaxChanges = 2
SPECIFICATION FairSpec
INVARIANTS NamedInFull CleanSparesNamed
PROPERTIES QuietDelivers Replaces Ends Converges
