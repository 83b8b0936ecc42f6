SPECIFICATION FairSpec
CONSTANTS
    None = None
    Once = once
    Requests = {r1}
    Entries = {e1, e2}
    Recurring = {daily}
    Overlap = TRUE
    Failing = {}
    Jobs = {j1}
    Runs = {t1}
    SkipIfRunning = TRUE
    Crashes = TRUE
PROPERTIES
    FiredRunsEnd
    MissedIsCaughtUp
