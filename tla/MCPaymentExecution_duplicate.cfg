\* Two workers, one key, two provider requests, PostgreSQL.
SPECIFICATION Spec
CONSTANTS
    Workers = {w1, w2}
    Keys = {k1}
    Blank = Blank
    None = None
    MaxAsks = 2
    StorageModes = {"postgres"}
INVARIANTS
    PromptedOncePerKey
