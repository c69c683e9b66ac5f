\* One request at a time, an approval of each kind, two operators.
SPECIFICATION FairSpec
CONSTANTS
    low = low
    high = high
    None = None
    Threads = {t1}
    ApprovalIds = {low, high}
    Operators = {o1, o2}
    MaxExecutions = 2
    Required <- MCRequired
INVARIANTS
    ExecutedOnce
PROPERTIES
    ClosedForGood
    OverdueIsClosed
