SPECIFICATION RunsSpec
CONSTANTS
    None = None
    Once = once
    Requests = {r1}
    Entries = {e1, e2}
    Recurring = {daily}
    Overlap = FALSE
    Failing = {"save", "enable", "disable", "delete", "reload", "load", "count", "create",
               "advance", "boot"}
    Jobs = {j1}
    Runs = {t1, t2}
    SkipIfRunning = TRUE
    Crashes = TRUE
SYMMETRY Symmetry
INVARIANTS
    RunsTypeOK
    UnderWayIsSkipped
    EndedIsNotCounted
    EntryIsLive
    RegisteredOnce
