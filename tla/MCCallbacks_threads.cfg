\* Two request threads, every storage and replay mode.
SPECIFICATION Spec
CONSTANTS
    c1 = c1
    c2 = c2
    r1 = r1
    r2 = r2
    None = None
    Threads = {t1, t2}
    Checkouts <- MCCheckouts
    Amount <- MCAmount
    Phone <- MCPhone
    Payloads <- MCPayloads
    StorageModes = {"memory", "postgres"}
    ReplayModes = {"off", "memory", "redis"}
SYMMETRY ThreadSymmetry
INVARIANTS
    TypeOK
    SettledIsBackedByCallback
    LateCallbackRefused
    AcceptedIsSettled
    MemoryRowIsOneCallback
PROPERTY
    ImplementsStore
