\* One request at a time, one payment, PostgreSQL and every replay mode.
SPECIFICATION FairSpec
CONSTANTS
    c1 = c1
    c2 = c2
    r1 = r1
    r2 = r2
    None = None
    Threads = {t1}
    Checkouts <- SerialCheckouts
    Amount <- SerialAmount
    Phone <- SerialPhone
    Payloads <- SerialPayloads
    StorageModes = {"postgres"}
    ReplayModes = {"off", "memory", "redis"}
PROPERTIES
    TerminalIsFinal
    ImplementsLifecycle
    EventuallySettled
