\* A payment the provider completes, and status queries to Daraja that may fail.
SPECIFICATION ReadersSpec
CONSTANTS
    paid = paid
    r1 = r1
    Payments <- MCPayments
    Results <- MCResults
    NoReceipt = NoReceipt
    Readers = {admin}
    Providers = {"daraja"}
    NoAnswer = NoAnswer
INVARIANT FailureFindingIsTrue
