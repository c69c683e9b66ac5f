\* One MCP process, one phone number, one approval at a time, ten deployments.
SPECIFICATION FairSpec
CONSTANTS
    zero = zero
    small = small
    silent = silent
    large = large
    high = high
    phone = phone
    a1 = a1
    r1 = r1
    Mcp = mcp
    Callers = {mcp, peer}
    Readers = {mcp}
    RateKeys <- MCRateKeys
    Limit <- MCLimit
    Window = 2
    NoKey = NoKey
    LimiterModes = {"memory", "redis"}
    Payments <- MCPayments
    Results <- MCResults
    NoReceipt = NoReceipt
    NoAnswer = NoAnswer
    Providers = {"mock", "daraja", "airtel"}
    Amount <- MCAmount
    Phone <- MCPhone
    MaxStkAmount = 10
    HighRiskThreshold = 50
    RequiredReviewers = 1
    HighRiskReviewers = 2
    ApprovalIds = {a1}
    Nothing = Nothing
    Deployments <- MCDeployments
INVARIANTS
    TypeOK
    BurstBound
    CounterExpires
    RepromptOnlyAfterError
    OverLimitNeedsQuorum
    InitiationClosed
    ReceiptIsBacked
    CleanIsSettled
PROPERTIES
    NoPromptOnceStored
    LimitedUntilReset
    StoredEventually
    StuckIsReported
