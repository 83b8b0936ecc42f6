SPECIFICATION TokensSpec
CONSTANTS
    None = None
    Once = once
    Requests = {r1, r2}
    Entries = {e1, e2, e3}
    Recurring = {daily, hourly}
    Tokens = {k1, k2, k3}
    Fires = {f1}
    Overlap = FALSE
    Failing = {"save", "enable", "disable", "replace", "insert", "revoke"}
SYMMETRY Symmetry
INVARIANTS
    CronReflectsRow
    OnlyGivenIsActive
    BarredDoNotFire
PROPERTIES
    KeepsContract
CHECK_DEADLOCK FALSE
