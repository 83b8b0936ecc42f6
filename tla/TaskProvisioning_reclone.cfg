SPECIFICATION Spec
CONSTANTS
    h1 = h1
    h2 = h2
    i1 = i1
    i2 = i2
    None = None
    Handlers = {h1}
    Instances = {i1}
    InstanceOf <- Alone
    Sandboxes = {b1, b2}
    Sessions = {s1}
    Mishaps = {}
    OwnerDeletes = FALSE
    HasGitURL = TRUE
INVARIANTS
    NotRecloned
CHECK_DEADLOCK FALSE
