SPECIFICATION ChatSpec
CONSTANTS
    None = None
    Tasks = {t1, t2}
    Calls = {c1, c2}
    MaxRuns = 2
    MaxQueue = 1
    MaxPending = 1
    MaxMishaps = 1
SYMMETRY Symmetry
CONSTRAINT IsWatched
INVARIANTS
    TypeOK
    OneStream
    SendingIsLive
    PromptIsShown
    NothingLeftRunning
    PageIsOneTask
CHECK_DEADLOCK FALSE
