\* Two callers and a breaker that opens at the first failure: a late success against a check.
SPECIFICATION Spec
CONSTANTS
    Callers = {a1, a2}
    Threshold = 1
    Recovery = 2
    MaxDelay = 1
    None = None
INVARIANTS
    CheckDoesNotBreak
