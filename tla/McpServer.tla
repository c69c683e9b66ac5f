------------------------------ MODULE McpServer ------------------------------
(***************************************************************************)
(* An MCP server process (app/mcp/server.py, app/mcp/tools.py) and what its *)
(* tools do to the rest: every call passes the tool policy, the validation  *)
(* of its input and the rate limiter, and is then handed to a service.      *)
(* Payments above the limit become approvals, which this process keeps in   *)
(* memory and which only its own operator, "mcp_operator", can review.      *)
(* Payments are stored in PostgreSQL and settled by the API process.        *)
(*                                                                         *)
(* The process runs one tool at a time.  Other MCP processes meet it in the *)
(* rate limiter only, when that is in Redis.                                *)
(***************************************************************************)
EXTENDS RateLimiter, StoreReaders

CONSTANTS
    Mcp,            \* this process, as a caller of the rate limiter and a reader
    Amount,         \* Amount[p]: the amount of payment p
    Phone,          \* Phone[p]: the phone number it is asked from
    MaxStkAmount, HighRiskThreshold, RequiredReviewers, HighRiskReviewers,
                    \* MAX_STK_AMOUNT, HIGH_RISK_AMOUNT_THRESHOLD and the numbers of
                    \* reviewers, none of them validated
    ApprovalIds,    \* bound: approvals at one time
    Nothing,        \* no approval, no subject of a call
    Deployments     \* what is configured, and which payments the agent wants: records
                    \* [enabled, blocked, approvalRequired : sets of tools,
                    \*  limiter : LimiterModes or "off", provider : Providers,
                    \*  wants : payments]

VARIABLES
    deployment,     \* one of Deployments, chosen at start-up
    pc,             \* where the process is in a tool call
    tool,           \* the tool that is called
    subject,        \* the payment or the approval it is called for
    approvals,      \* the approval repository
    prompts,        \* history: prompts[p]: how often the customer was prompted for p
                    \* since the agent last got an error for p
    prompted,       \* history: payments the customer was ever prompted for
    released        \* history: payments released by a complete approval

mcpState == <<deployment, pc, tool, subject, approvals, prompts, prompted, released>>
vars == <<limiterState, storeState, readerState, mcpState>>

InitiateTools == {"initiate_stk_push", "initiate_payment"}
StatusTools == {"check_transaction_status", "check_payment_status"}
ApprovalFlowTools == {"approve_payment_request", "reject_payment_request"}
ReportTools == {"get_today_summary", "get_failed_transactions"}
LimitedTools == InitiateTools \cup StatusTools \cup ApprovalFlowTools
CurrentTools == LimitedTools \cup ReportTools \cup {"generate_receipt", "run_reconciliation"}

\* Mutant: the list of tools that require approval is not looked at.
PermitsWithoutApproval(t) ==
    /\ t \in IF deployment.enabled = {} THEN CurrentTools ELSE deployment.enabled
    /\ t \notin deployment.blocked

\* ToolPolicyEngine.evaluate, of from_settings: no list of enabled tools enables all.
\* The approval that a tool may require does not exist: the call ends there.
Permits(t) ==
    /\ t \in IF deployment.enabled = {} THEN CurrentTools ELSE deployment.enabled
    /\ t \notin deployment.blocked
    /\ t \in deployment.approvalRequired => t \in ApprovalFlowTools

\* PaymentPolicy.evaluate of "initiate_stk_push"
Verdict(p) ==
    IF Amount[p] <= 0 THEN "blocked"
    ELSE IF Amount[p] > MaxStkAmount THEN "approval_required"
    ELSE "allowed"

Required(p) ==
    IF Amount[p] >= HighRiskThreshold THEN HighRiskReviewers ELSE RequiredReviewers

\* What a tool is called for.
Subjects(t) ==
    IF t \in ApprovalFlowTools THEN ApprovalIds
    ELSE IF t \in ReportTools \cup {"run_reconciliation"} THEN {Nothing}
    ELSE deployment.wants

\* The key of the rate limiter: each tool counts for itself.
RateKey(t, s) == <<t, IF t \in InitiateTools THEN Phone[s] ELSE s>>

\* The limiter has every key it may be asked for.
ASSUME McpConstants ==
    /\ Mcp \in Callers /\ Mcp \in Readers
    /\ Amount \in [Payments -> Int]
    /\ {MaxStkAmount, HighRiskThreshold, RequiredReviewers, HighRiskReviewers} \subseteq Int
    /\ Nothing \notin Payments \cup ApprovalIds
    /\ \A d \in Deployments :
         /\ d.wants \subseteq Payments
         /\ d.limiter # "off" =>
              \A t \in LimitedTools \ d.blocked : d.enabled = {} \/ t \in d.enabled =>
                  \A s \in IF t \in ApprovalFlowTools THEN ApprovalIds ELSE d.wants :
                      RateKey(t, s) \in RateKeys

NoApproval == [payment |-> Nothing, status |-> "absent", reviewed |-> FALSE]

Closed == {"approved", "rejected", "expired"}

-----------------------------------------------------------------------------
Init ==
    /\ LimiterInit
    /\ ReadersInit
    /\ deployment \in Deployments
    /\ IF deployment.limiter = "off"
         THEN limiter = "memory" /\ watched = CHOOSE k \in RateKeys : TRUE
         ELSE limiter = deployment.limiter /\ Permits(watched[1])
    /\ provider = deployment.provider
    /\ pc = "idle"
    /\ tool = "none"
    /\ subject = Nothing
    /\ approvals = [a \in ApprovalIds |-> NoApproval]
    /\ prompts = [p \in Payments |-> 0]
    /\ prompted = {}
    /\ released = {}

\* The tool answers, if only with an error.
Answer == pc' = "idle" /\ tool' = "none" /\ subject' = Nothing

AnswerOnly ==
    /\ Answer
    /\ UNCHANGED <<limiterState, storeState, readerState, deployment, approvals,
                   prompts, prompted, released>>

\* Bound: an approval id is used again when its approval cannot be approved any more and
\* the limiter has forgotten it; no approval is asked for when no id is free.
Free(a) ==
    /\ approvals[a].status # "pending"
    /\ \A t \in ApprovalFlowTools : <<t, a>> \in RateKeys => count[<<t, a>>] = 0

\* A call that the tool policy permits and whose input is valid.  The reports are read
\* in one step, which nothing else depends on.
Call(t, s) ==
    /\ pc = "idle"
    /\ Permits(t) /\ s \in Subjects(t)
    /\ t \in InitiateTools /\ Verdict(s) = "approval_required" => \E a \in ApprovalIds : Free(a)
    /\ tool' = t
    /\ subject' = s
    /\ IF deployment.limiter # "off" /\ t \in LimitedTools
         THEN pc' = "limiter" /\ CallLimiter(Mcp, RateKey(t, s))
         ELSE pc' = "service" /\ UNCHANGED limiterState
    /\ UNCHANGED <<storeState, readerState, deployment, approvals, prompts, prompted, released>>

AskLimiter ==
    /\ pc = "limiter"
    /\ LimiterAnswers(Mcp)
    /\ UNCHANGED <<storeState, readerState, mcpState>>

Admitted ==
    /\ pc = "limiter" /\ at[Mcp] = "allowed"
    /\ LimiterReturns(Mcp)
    /\ pc' = "service"
    /\ UNCHANGED <<storeState, readerState, deployment, tool, subject, approvals,
                   prompts, prompted, released>>

\* Limited, or the limiter is unavailable: the service is not called.
TurnedAway ==
    /\ pc = "limiter" /\ at[Mcp] \in {"limited", "unavailable"}
    /\ LimiterReturns(Mcp)
    /\ Answer
    /\ UNCHANGED <<storeState, readerState, deployment, approvals, prompts, prompted, released>>

-----------------------------------------------------------------------------
\* Mutant: what is approved is looked up by the approval's id.
ExecuteById(p) == pc' = "lookup" /\ UNCHANGED <<tool, subject>>

\* PaymentService.initiate_stk_push: the policy comes first, also for a payment that is
\* stored already.
Execute(p) == pc' = "lookup" /\ subject' = p /\ UNCHANGED tool

Initiate ==
    /\ pc = "service" /\ tool \in InitiateTools
    /\ Verdict(subject) = "allowed"
    /\ Execute(subject)
    /\ UNCHANGED <<limiterState, storeState, readerState, deployment, approvals,
                   prompts, prompted, released>>

InitiateBlocked ==
    /\ pc = "service" /\ tool \in InitiateTools
    /\ Verdict(subject) = "blocked"
    /\ AnswerOnly

\* create_approval_request, with its audit event written or not
RequestApproval ==
    /\ pc = "service" /\ tool \in InitiateTools
    /\ Verdict(subject) = "approval_required"
    /\ \E a \in ApprovalIds :
         /\ Free(a)
         /\ approvals' = [approvals EXCEPT ![a] =
                [payment |-> subject, status |-> "pending", reviewed |-> FALSE]]
    /\ Answer
    /\ UNCHANGED <<limiterState, storeState, readerState, deployment, prompts, prompted, released>>

\* The clock reaches expires_at.
ComesDue(a) ==
    /\ approvals[a].status = "pending"
    /\ approvals' = [approvals EXCEPT ![a].status = "overdue"]
    /\ UNCHANGED <<limiterState, storeState, readerState, deployment, pc, tool, subject,
                   prompts, prompted, released>>

\* execute_approved_payment of an approval that is not there or not pending any more, or
\* reject_request of one that is not there
NothingToReview ==
    /\ pc = "service" /\ tool \in ApprovalFlowTools
    /\ \/ approvals[subject].status = "absent"
       \/ tool = "approve_payment_request" /\ approvals[subject].status \in Closed
    /\ AnswerOnly

\* Approve or reject an approval that is overdue: it is expired instead.  Approving
\* expires all that are overdue, unless writing an audit event fails in between.
ExpireOverdue ==
    /\ pc = "service" /\ tool \in ApprovalFlowTools
    /\ approvals[subject].status = "overdue"
    /\ \E S \in SUBSET {a \in ApprovalIds : approvals[a].status = "overdue"} :
         /\ IF tool = "reject_payment_request" THEN S = {subject} ELSE S # {}
         /\ approvals' = [a \in ApprovalIds |->
                IF a \in S THEN [approvals[a] EXCEPT !.status = "expired"] ELSE approvals[a]]
    /\ Answer
    /\ UNCHANGED <<limiterState, storeState, readerState, deployment, prompts, prompted, released>>

\* Mutant: the same operator may review again.
ApproveAgain ==
    LET approval == approvals[subject] IN
    /\ pc = "service" /\ tool = "approve_payment_request"
    /\ approval.status = "pending"
    /\ IF approval.reviewed \/ Required(approval.payment) <= 1
         THEN /\ approvals' = [approvals EXCEPT ![subject].status = "approved", ![subject].reviewed = TRUE]
              /\ released' = released \cup {approval.payment}
              /\ Execute(approval.payment)
         ELSE /\ approvals' = [approvals EXCEPT ![subject].reviewed = TRUE]
              /\ Answer
              /\ UNCHANGED released
    /\ UNCHANGED <<limiterState, storeState, readerState, deployment, prompts, prompted>>

\* approve_request by "mcp_operator": a review of its own counts once, and completes
\* the approval if one is enough.  If the audit event fails then, the approval is used up.
Approve ==
    LET approval == approvals[subject] IN
    /\ pc = "service" /\ tool = "approve_payment_request"
    /\ approval.status = "pending"
    /\ IF approval.reviewed \/ Required(approval.payment) > 1
         THEN /\ approvals' = [approvals EXCEPT ![subject].reviewed = TRUE]
              /\ Answer
              /\ UNCHANGED released
         ELSE /\ approvals' = [approvals EXCEPT ![subject] =
                                   [@ EXCEPT !.status = "approved", !.reviewed = TRUE]]
              /\ released' = released \cup {approval.payment}
              /\ Execute(approval.payment) \/ Answer
    /\ UNCHANGED <<limiterState, storeState, readerState, deployment, prompts, prompted>>

\* reject_request, whatever the status
Reject ==
    /\ pc = "service" /\ tool = "reject_payment_request"
    /\ approvals[subject].status \notin {"absent", "overdue"}
    /\ approvals' = [approvals EXCEPT ![subject].status = "rejected"]
    /\ Answer
    /\ UNCHANGED <<limiterState, storeState, readerState, deployment, prompts, prompted, released>>

-----------------------------------------------------------------------------
\* _execute_stk_push.  The agent gets an error for payment p.
Fail(p) == Answer /\ prompts' = [prompts EXCEPT ![p] = 0]

Prompt(p) == prompted' = prompted \cup {p}

\* Mutant: a payment that failed is asked for again.
LookupUnlessFailed ==
    /\ pc = "lookup"
    /\ \/ status[subject] \notin {"absent", "failed"} /\ Answer /\ UNCHANGED prompts
       \/ status[subject] \in {"absent", "failed"} /\ pc' = "ask" /\ UNCHANGED <<tool, subject, prompts>>
       \/ Fail(subject)
    /\ UNCHANGED <<limiterState, storeState, readerState, deployment, approvals,
                   prompted, released>>

\* A stored payment is returned, with any status; the database may not answer.
Lookup ==
    /\ pc = "lookup"
    /\ \/ status[subject] # "absent" /\ Answer /\ UNCHANGED prompts
       \/ status[subject] = "absent" /\ pc' = "ask" /\ UNCHANGED <<tool, subject, prompts>>
       \/ Fail(subject)
    /\ UNCHANGED <<limiterState, storeState, readerState, deployment, approvals,
                   prompted, released>>

Asked(p) == prompts' = [prompts EXCEPT ![p] = IF @ < 2 THEN @ + 1 ELSE @]

\* The provider answers: it prompts the customer, or refuses in a form the service
\* stores just the same.
Ask ==
    /\ pc = "ask"
    /\ pc' = "save"
    /\ \/ Asked(subject) /\ Prompt(subject)
       \/ UNCHANGED <<prompts, prompted>>
    /\ UNCHANGED <<limiterState, storeState, readerState, deployment, tool, subject,
                   approvals, released>>

\* No answer: the request was not sent, was refused, or its answer was lost.
AskFails ==
    /\ pc = "ask"
    /\ Fail(subject)
    /\ Prompt(subject) \/ UNCHANGED prompted
    /\ UNCHANGED <<limiterState, storeState, readerState, deployment, approvals, released>>

Save ==
    /\ pc = "save"
    /\ Record(subject)
    /\ Answer
    /\ UNCHANGED <<limiterState, deployment, approvals, prompts, prompted, released>>

\* Mutant: an error of the database or of the audit is answered as success.
SaveFailsSilently ==
    /\ pc = "save"
    /\ Record(subject) \/ UNCHANGED <<storeState, readerState>>
    /\ Answer
    /\ UNCHANGED <<limiterState, deployment, approvals, prompts, prompted, released>>

\* The database fails before it commits or after, or the audit event fails.
SaveFails ==
    /\ pc = "save"
    /\ Record(subject) \/ UNCHANGED <<storeState, readerState>>
    /\ Fail(subject)
    /\ UNCHANGED <<limiterState, deployment, approvals, prompted, released>>

-----------------------------------------------------------------------------
\* The tools that read.
StartRead ==
    /\ pc = "service"
    /\ \/ tool \in StatusTools /\ StartQuery(Mcp, subject)
       \/ tool = "run_reconciliation" /\ StartReconciliation(Mcp)
    /\ pc' = "reading"
    /\ UNCHANGED <<limiterState, deployment, tool, subject, approvals, prompts, prompted, released>>

ContinueRead ==
    /\ pc = "reading"
    /\ Read(Mcp)
    /\ IF reading'[Mcp] = "nothing" THEN Answer ELSE UNCHANGED <<pc, tool, subject>>
    /\ UNCHANGED <<limiterState, deployment, approvals, prompts, prompted, released>>

Receipt ==
    /\ pc = "service" /\ tool = "generate_receipt"
    /\ GenerateReceipt(Mcp, subject)
    /\ Answer
    /\ UNCHANGED <<limiterState, deployment, approvals, prompts, prompted, released>>

\* No receipt, a report, or a database that does not answer or an audit that fails.
ReadNothing ==
    /\ pc = "service"
    /\ tool \in StatusTools \cup ReportTools \cup {"generate_receipt", "run_reconciliation"}
    /\ AnswerOnly

\* The process dies.  Its agent sees that ...
Die ==
    /\ pc # "down"
    /\ LimiterCrash(Mcp)
    /\ ReaderDies(Mcp)
    /\ pc' = "down" /\ tool' = "none" /\ subject' = Nothing
    /\ approvals' = [a \in ApprovalIds |-> NoApproval]
    /\ prompts' = IF subject \in Payments THEN [prompts EXCEPT ![subject] = 0] ELSE prompts
    /\ UNCHANGED <<deployment, prompted, released>>

\* ... and starts it again.
Start == pc = "down" /\ AnswerOnly

-----------------------------------------------------------------------------
\* Another MCP process asks the shared limiter.
PeerCalls(c) ==
    /\ deployment.limiter = "redis" /\ c # Mcp
    /\ CallLimiter(c, watched)
    /\ UNCHANGED <<storeState, readerState, mcpState>>

PeerContinues(c) ==
    /\ c # Mcp /\ at[c] # "idle"
    /\ LimiterAnswers(c) \/ LimiterReturns(c)
    /\ UNCHANGED <<storeState, readerState, mcpState>>

PeerDies(c) ==
    /\ c # Mcp /\ at[c] # "idle"
    /\ LimiterCrash(c)
    /\ UNCHANGED <<storeState, readerState, mcpState>>

\* The callbacks at the API process, and the payments' age.  Bound: payments grow old
\* only where reconciliation may run, which alone reads their age.
StoreChanges ==
    /\ StoreMoves
    /\ old' = old \/ Permits("run_reconciliation")
    /\ UNCHANGED <<limiterState, mcpState>>

ClockTicks == LimiterTick /\ UNCHANGED <<storeState, readerState, mcpState>>

Serve ==
    \/ AskLimiter \/ Admitted \/ TurnedAway
    \/ Initiate \/ InitiateBlocked \/ RequestApproval
    \/ NothingToReview \/ ExpireOverdue \/ Approve \/ Reject
    \/ Lookup \/ Ask \/ AskFails \/ Save \/ SaveFails
    \/ StartRead \/ ContinueRead \/ Receipt \/ ReadNothing \/ Start

Next ==
    \/ \E t \in CurrentTools : \E s \in Subjects(t) : Call(t, s)
    \/ Serve \/ Die
    \/ \E a \in ApprovalIds : ComesDue(a)
    \/ \E c \in Callers : PeerCalls(c) \/ PeerContinues(c) \/ PeerDies(c)
    \/ StoreChanges \/ ClockTicks

Spec == Init /\ [][Next]_vars

\* What goes wrong: the process dies, Redis, the database, the provider or the audit
\* fails, or an approval comes due while its review is being served.
Fault ==
    \/ Die \/ AskFails \/ SaveFails
    \/ pc = "limiter" /\ LimiterFails(Mcp)
    \/ Lookup /\ status[subject] = "absent" /\ pc' = "idle"
    \/ Approve /\ approvals'[subject].status = "approved" /\ pc' = "idle"
    \/ ReadNothing /\ tool = "run_reconciliation"
    \/ pc \notin {"idle", "down"} /\ \E a \in ApprovalIds : ComesDue(a)

\* Fairness.  The process and the other callers of the limiter finish what they have
\* begun, the clock ticks, faults end, and the agent goes on initiating what it wants,
\* approving what is pending, and running reconciliation.
FairSpec ==
    /\ Spec
    /\ WF_vars(Serve) /\ WF_vars(ClockTicks)
    /\ WF_vars(\E c \in Callers : PeerContinues(c))
    /\ SF_vars(\E t \in InitiateTools : \E p \in Payments : p \in Subjects(t) /\ Call(t, p))
    /\ SF_vars(\E a \in ApprovalIds : /\ approvals[a].status = "pending"
                                      /\ Call("approve_payment_request", a))
    /\ SF_vars(Call("run_reconciliation", Nothing))
    /\ <>[][~Fault]_vars

-----------------------------------------------------------------------------
Approval ==
    [payment : Payments, status : Closed \cup {"pending", "overdue"}, reviewed : BOOLEAN]

\* Type invariant.
TypeOK ==
    /\ LimiterTypeOK
    /\ ReadersTypeOK
    /\ deployment \in Deployments
    /\ pc \in {"idle", "limiter", "service", "lookup", "ask", "save", "reading", "down"}
    /\ tool \in CurrentTools \cup {"none"}
    /\ pc \in {"lookup", "ask", "save"} => subject \in Payments
    /\ approvals \in [ApprovalIds -> Approval \cup {NoApproval}]
    /\ prompts \in [Payments -> 0..2]
    /\ prompted \subseteq Payments
    /\ released \subseteq Payments

\* A customer is prompted again for a payment only after the agent got an error for it,
\* through whichever tools and approvals it is asked for; a crash counts as an error
\* (app/services/payment_service.py:320-356).
RepromptOnlyAfterError == \A p \in Payments : prompts[p] <= 1

\* A payment that is stored is never asked of the provider again under its idempotency
\* key, not even one that failed: the key is of no more use
\* (app/services/payment_service.py:320-332, 406-418).
NoPromptOnceStored ==
    [][\A p \in Payments : status[p] # "absent" => prompts'[p] <= prompts[p]]_vars

\* No customer is prompted for more than MAX_STK_AMOUNT without a complete approval, nor
\* ever, through this process, for an amount that takes a second reviewer: retries,
\* expiry and rejections never add up to one (app/approvals/service.py:125-142,
\* app/mcp/tools.py:520-523).
OverLimitNeedsQuorum ==
    \A p \in prompted : Amount[p] > MaxStkAmount => p \in released /\ Required(p) <= 1

\* Where both tools that initiate payments are blocked or require approval, nothing is
\* ever prompted or put up for approval, the approval tools notwithstanding
\* (app/policy/tool_policy.py:67-86).
InitiationClosed ==
    InitiateTools \subseteq deployment.blocked \cup deployment.approvalRequired =>
        prompted = {} /\ \A a \in ApprovalIds : approvals[a] = NoApproval

\* What the agent wants to be paid, and this process can bring about.
Payable ==
    {p \in deployment.wants :
        /\ \E t \in InitiateTools : Permits(t)
        /\ \/ Verdict(p) = "allowed"
           \/ /\ Verdict(p) = "approval_required" /\ Required(p) <= 1
              /\ deployment.limiter = "off" /\ Permits("approve_payment_request")}

\* What the agent goes on asking for is stored in the end if the amount is within the
\* limit, or can be approved here: errors, expired and used-up approvals, restarts and
\* full windows only delay it, unless Redis lost an EXPIRE or other processes never stop
\* asking for the same key (app/mcp/tools.py:725-775, app/services/payment_service.py:175-309).
StoredEventually ==
    \/ <>(lost # {} \/ \A p \in Payable : status[p] # "absent")
    \/ []<>(\E c \in Callers \ {Mcp} : at[c] # "idle")

\* A payment whose callback never comes is reported as stale sooner or later if
\* reconciliation keeps being run, also while the provider does not answer
\* (app/reconciliation/service.py:133-155).
StuckIsReported ==
    \A p \in Payments :
        Permits("run_reconciliation") /\ p \in old /\ status[p] = "pending"
            ~> status[p] # "pending" \/ p \in reported

=============================================================================
