SPECIFICATION HistorySpec
CONSTANTS
    Sessions = {1, 2, 3}
    Mains = {1, 3}
    PageSize = 2
    MaxConcurrent = 2
    MaxEntries = 4
    MaxOdd = 1
CONSTRAINTS FewWhenDeleted PausesLeftOut OneRoot OneRequest
INVARIANTS
    TypeOK
    AnswerIsFaithful
    ConversationIsWhole
    TraceIsWhole
    DeletedIsGone
CHECK_DEADLOCK FALSE
