SPECIFICATION LoginSpec
CONSTANTS
    None = None
    Names = {ann}
    Emails = {home}
    Secrets = {key}
    Ids = {cli1}
    Reqs = {r1, r2}
    Polls = {p1, p2}
INVARIANTS
    LoginTypeOK
    HandedIsGone
PROPERTIES
    KeysAreKept
    LoginArrives
