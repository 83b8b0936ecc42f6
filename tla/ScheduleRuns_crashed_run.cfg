SPECIFICATION RunsSpec
CONSTANTS
    None = None
    Once = once
    Requests = {r1}
    Entries = {e1, e2}
    Recurring = {daily}
    Overlap = TRUE
    Failing = {}
    Jobs = {j1}
    Runs = {t1, t2}
    SkipIfRunning = TRUE
    Crashes = TRUE
SYMMETRY Symmetry
INVARIANTS
    CountedIsWorking
CHECK_DEADLOCK FALSE
