\* Two workers, two keys, up to three provider requests, both stores.
SPECIFICATION Spec
CONSTANTS
    Workers = {w1, w2}
    Keys = {k1, k2}
    Blank = Blank
    None = None
    MaxAsks = 3
    StorageModes = {"memory", "postgres"}
SYMMETRY WorkerAndKeySymmetry
INVARIANTS
    TypeOK
    LateCallNotSent
    CallersAgree
    ToldIsStored
    ChargeIsAccounted
PROPERTIES
    LookupIsStable
