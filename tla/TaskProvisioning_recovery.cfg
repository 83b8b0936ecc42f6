SPECIFICATION FairSpec
CONSTANTS
    h1 = h1
    h2 = h2
    i1 = i1
    i2 = i2
    None = None
    Handlers = {h1}
    Instances = {i1}
    InstanceOf <- Alone
    Sandboxes = {b1, b2}
    Sessions = {}
    Mishaps = {"hash", "overwrite"}
    OwnerDeletes = TRUE
    HasGitURL = FALSE
PROPERTIES
    KeepsBinding
    LockIsFreed
    DeadIsReset
CHECK_DEADLOCK FALSE
