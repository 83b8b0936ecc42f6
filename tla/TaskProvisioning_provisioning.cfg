SPECIFICATION Spec
CONSTANTS
    h1 = h1
    h2 = h2
    i1 = i1
    i2 = i2
    None = None
    Handlers = {h1, h2}
    Instances = {i1, i2}
    InstanceOf <- OneEach
    Sandboxes = {b1, b2}
    Sessions = {s1, s2}
    Mishaps = {"lease", "hash", "overwrite", "clone"}
    OwnerDeletes = FALSE
    HasGitURL = TRUE
SYMMETRY Symmetry
CONSTRAINT Unexcused
INVARIANTS
    TypeOK
    OneProvisioner
    ProvisionedIsMapped
    SessionImpliesCloned
PROPERTIES
    SessionWriteOnce
    KeepsBinding
CHECK_DEADLOCK FALSE
