----------------------------- MODULE MCMcpServer -----------------------------
(* An instance of McpServer for TLC: the deployments that matter. *)
EXTENDS McpServer, TLC

CONSTANTS zero, small, silent, large, high, phone, a1, r1

\* A payment that is blocked, two within the limit, one of which is never called back,
\* one above it, and one that takes two reviewers.
MCPayments == {zero, small, silent, large, high}
MCAmount == (zero :> 0) @@ (small :> 5) @@ (silent :> 5) @@ (large :> 20) @@ (high :> 60)
MCPhone == [p \in MCPayments |-> phone]
MCResults == [p \in MCPayments |-> IF p # small THEN {}
                                   ELSE {<<"completed", r1>>, <<"failed", NoReceipt>>}]

MCRateKeys == (InitiateTools \X {phone}) \cup (ApprovalFlowTools \X {a1})
MCLimit == [k \in MCRateKeys |-> IF k[1] \in InitiateTools THEN 2 ELSE 1]

Reading == StatusTools \cup ReportTools \cup {"generate_receipt", "run_reconciliation"}

Deployment == [enabled |-> {}, blocked |-> Reading, approvalRequired |-> {},
               limiter |-> "off", provider |-> "mock", wants |-> {small}]

MCDeployments ==
    \* payments and approvals, not limited
    {[Deployment EXCEPT !.wants = {p}] : p \in {zero, large, high}}
    \* payments by either tool, with windows in memory
    \cup {[Deployment EXCEPT !.enabled = InitiateTools, !.limiter = "memory",
                             !.wants = {silent}]}
    \* payments by one tool, with windows in Redis and another process
    \cup {[Deployment EXCEPT !.enabled = {"initiate_payment"}, !.limiter = "redis",
                             !.wants = {silent}]}
    \* an approval with its own windows
    \cup {[Deployment EXCEPT !.enabled = {"initiate_payment", "approve_payment_request"},
                             !.limiter = "memory", !.wants = {large}]}
    \* a payment and everything that reads it
    \cup {[Deployment EXCEPT !.enabled = {"initiate_payment"} \cup Reading, !.blocked = {},
                             !.provider = v] : v \in {"mock", "daraja", "airtel"}}
    \* no payments
    \cup {[Deployment EXCEPT !.approvalRequired = InitiateTools, !.wants = {small, large}]}

=============================================================================
