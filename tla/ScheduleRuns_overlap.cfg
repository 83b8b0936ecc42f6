SPECIFICATION RunsSpec
CONSTANTS
    None = None
    Once = once
    Requests = {r1}
    Entries = {e1, e2}
    Recurring = {daily}
    Overlap = FALSE
    Failing = {}
    Jobs = {j1, j2}
    Runs = {t1, t2}
    SkipIfRunning = TRUE
    Crashes = FALSE
SYMMETRY Symmetry
INVARIANTS
    OneActiveRun
CHECK_DEADLOCK FALSE
