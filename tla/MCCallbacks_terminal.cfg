\* Two request threads, PostgreSQL and Redis.
SPECIFICATION Spec
CONSTANTS
    c1 = c1
    c2 = c2
    r1 = r1
    r2 = r2
    None = None
    Threads = {t1, t2}
    Checkouts <- MCCheckouts
    Amount <- MCAmount
    Phone <- MCPhone
    Payloads <- MCPayloads
    StorageModes = {"postgres"}
    ReplayModes = {"redis"}
PROPERTIES
    TerminalIsFinal
