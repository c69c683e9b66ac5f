\* Two request threads, an approval of each kind, two operators: executions are counted.
SPECIFICATION Spec
CONSTANTS
    low = low
    high = high
    None = None
    Threads = {t1, t2}
    ApprovalIds = {low, high}
    Operators = {o1, o2}
    MaxExecutions = 2
    Required <- MCRequired
SYMMETRY ThreadAndOperatorSymmetry
INVARIANTS
    ExecutedOnce
