SPECIFICATION SkillsSpec
CONSTANTS
    None = None
    Requests = {r1, r2}
    Injections = {i1}
    Companions = {p1, p2}
    SkillMD = md
    MaxFiles = 2
    MaxIds = 2
    MetaEdits = FALSE
SYMMETRY Symmetry
INVARIANTS
    SkillsTypeOK
    ListedIsStored
    WithinLimit
    SkillMDListed
PROPERTIES
    OnlyOwnRequestsEdit
