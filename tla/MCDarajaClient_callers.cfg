\* Two callers, a breaker that opens at the second failure and recovers in two ticks.
SPECIFICATION FairSpec
CONSTANTS
    Callers = {a1, a2}
    Threshold = 2
    Recovery = 2
    MaxDelay = 1
    None = None
INVARIANTS
    TypeOK
    OpenIsTimed
    OpenIfCounted
    CountedIfOpen
PROPERTIES
    EventuallyCloses
