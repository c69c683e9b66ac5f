--------------------------- MODULE PaymentLifecycle ---------------------------
(***************************************************************************)
(* What the transaction store promises to the operator, to receipts and to *)
(* analytics: a payment is recorded once as pending, it is settled once,   *)
(* with a result that a callback reported, and then it never changes.      *)
(* This is the abstract specification that the callback pipeline           *)
(* (Callbacks) is compared with.                                           *)
(***************************************************************************)
EXTENDS TransactionStates

CONSTANTS
    Checkouts,      \* payments, named by their checkout request id
    Results,        \* Results[c]: the results <<status, receipt>> that the
                    \* provider may report for payment c
    NoReceipt       \* mpesa_receipt_number is None

VARIABLES
    status,         \* status[c]: "absent" until the payment is recorded
    receipt         \* receipt[c]: the M-Pesa receipt number stored with it

vars == <<status, receipt>>

Init ==
    /\ status = [c \in Checkouts |-> "absent"]
    /\ receipt = [c \in Checkouts |-> NoReceipt]

Record(c) ==
    /\ status[c] = "absent"
    /\ status' = [status EXCEPT ![c] = "pending"]
    /\ UNCHANGED receipt

Settle(c, r) ==
    /\ CanTransition(status[c], r[1])
    /\ r[1] = "completed" => r[2] # NoReceipt
    /\ status' = [status EXCEPT ![c] = r[1]]
    /\ receipt' = [receipt EXCEPT ![c] = r[2]]

Next == \E c \in Checkouts : Record(c) \/ \E r \in Results[c] : Settle(c, r)

Spec == Init /\ [][Next]_vars

=============================================================================
