--------------------------- MODULE McpServer_proofs ---------------------------
(***************************************************************************)
(* Proofs about McpServer, for every set of payments, amounts, approvals,   *)
(* deployments and processes: the composition behaves towards its parts as  *)
(* their specifications say, so that what is proved of the limiter and of   *)
(* the readers holds in it; type correctness; and what the gate, the        *)
(* approvals and the idempotency lookup guarantee together.                 *)
(***************************************************************************)
EXTENDS McpServer, RateLimiter_proofs, StoreReaders_proofs

Reports == ReportTools \cup {"run_reconciliation"}

\* A call is made for what its tool is about.
WellCalled ==
    /\ pc \in {"limiter", "service"} =>
         /\ tool \in CurrentTools
         /\ tool \in ApprovalFlowTools => subject \in ApprovalIds
         /\ tool \in CurrentTools \ (ApprovalFlowTools \cup Reports) => subject \in Payments
    /\ pc \in {"lookup", "ask", "save"} => subject \in Payments

Process ==
    /\ deployment \in Deployments
    /\ pc \in {"idle", "limiter", "service", "lookup", "ask", "save", "reading", "down"}
    /\ tool \in CurrentTools \cup {"none"}
    /\ approvals \in [ApprovalIds -> Approval \cup {NoApproval}]
    /\ prompts \in [Payments -> 0..2]
    /\ prompted \subseteq Payments
    /\ released \subseteq Payments
    /\ WellCalled

\* The steps of Next, by what they are to the process.
Quiet ==
    \/ AskLimiter
    \/ \E c \in Callers : PeerCalls(c) \/ PeerContinues(c) \/ PeerDies(c)
    \/ StoreChanges \/ ClockTicks

Turned == TurnedAway \/ InitiateBlocked \/ NothingToReview \/ Receipt \/ ReadNothing \/ Start

\* Every step is one of these.
LEMMA Steps ==
    ASSUME [Next]_vars
    PROVE  \/ Quiet \/ Turned \/ UNCHANGED vars
           \/ \E t \in CurrentTools : \E s \in Subjects(t) : Call(t, s)
           \/ Admitted \/ Initiate \/ RequestApproval \/ ExpireOverdue \/ Approve \/ Reject
           \/ Lookup \/ Ask \/ AskFails \/ Save \/ SaveFails
           \/ StartRead \/ ContinueRead \/ Die
           \/ \E a \in ApprovalIds : ComesDue(a)
BY DEF Next, Serve, Quiet, Turned

\* What the quiet steps leave alone.
LEMMA QuietStep == ASSUME Quiet PROVE UNCHANGED mcpState
BY DEF Quiet, AskLimiter, PeerCalls, PeerContinues, PeerDies, StoreChanges, ClockTicks

\* What a call that comes to nothing leaves alone.
LEMMA TurnedStep ==
    ASSUME Turned
    PROVE  Answer /\ UNCHANGED <<deployment, approvals, prompts, prompted, released>>
BY DEF Turned, TurnedAway, InitiateBlocked, NothingToReview, Receipt, ReadNothing, Start, AnswerOnly

\* What a tool is called for is something of its kind.
LEMMA SubjectsType ==
    ASSUME deployment \in Deployments, NEW t \in CurrentTools, NEW s \in Subjects(t)
    PROVE  /\ t \in ApprovalFlowTools => s \in ApprovalIds
           /\ t \in CurrentTools \ (ApprovalFlowTools \cup Reports) => s \in Payments
BY McpConstants DEF Subjects, Reports

-----------------------------------------------------------------------------
\* The process starts idle.
LEMMA ProcessInit == Init => Process
BY DEF Init, Process, WellCalled

\* Every step keeps the process well-formed.
LEMMA ProcessStep == Process /\ [Next]_vars => Process'
<1>. SUFFICES ASSUME Process, [Next]_vars
              PROVE  Process'
  OBVIOUS
<1>1. CASE Quiet
  BY <1>1, QuietStep DEF mcpState, Process, WellCalled
<1>2. CASE Turned
  BY <1>2, TurnedStep DEF Answer, Process, WellCalled
<1>3. ASSUME NEW t \in CurrentTools, NEW s \in Subjects(t), Call(t, s)
      PROVE  Process'
  <2>1. pc' \in {"limiter", "service"} /\ tool' = t /\ subject' = s
    BY <1>3 DEF Call
  <2>. QED
    BY <1>3, <2>1, SubjectsType DEF Call, Process, WellCalled
<1>4. CASE Admitted
  BY <1>4 DEF Admitted, Process, WellCalled
<1>5. CASE Initiate
  BY <1>5 DEF Initiate, Execute, Process, WellCalled, InitiateTools, CurrentTools, LimitedTools,
     ApprovalFlowTools, Reports, ReportTools
<1>6. CASE RequestApproval
  <2>1. subject \in Payments
    BY <1>6 DEF RequestApproval, Process, WellCalled, InitiateTools, ApprovalFlowTools,
       Reports, ReportTools
  <2>2. PICK a \in ApprovalIds : approvals' = [approvals EXCEPT ![a] =
            [payment |-> subject, status |-> "pending", reviewed |-> FALSE]]
    BY <1>6 DEF RequestApproval
  <2>3. [payment |-> subject, status |-> "pending", reviewed |-> FALSE] \in Approval
    BY <2>1 DEF Approval
  <2>. QED
    BY <1>6, <2>2, <2>3 DEF RequestApproval, Answer, Process, WellCalled
<1>7. CASE ExpireOverdue
  <2>1. PICK S \in SUBSET {a \in ApprovalIds : approvals[a].status = "overdue"} :
            approvals' = [a \in ApprovalIds |->
                IF a \in S THEN [approvals[a] EXCEPT !.status = "expired"] ELSE approvals[a]]
    BY <1>7 DEF ExpireOverdue
  <2>2. ASSUME NEW a \in S
        PROVE  [approvals[a] EXCEPT !.status = "expired"] \in Approval
    <3>1. approvals[a] \in Approval
      BY <2>2 DEF Process, NoApproval
    <3>. QED
      BY <3>1 DEF Approval, Closed
  <2>. QED
    BY <1>7, <2>1, <2>2 DEF ExpireOverdue, Answer, Process, WellCalled
<1>8. CASE Approve
  <2>1. subject \in ApprovalIds
    BY <1>8 DEF Approve, Process, WellCalled, ApprovalFlowTools
  <2>2. approvals[subject] \in Approval
    BY <1>8, <2>1 DEF Approve, Process, NoApproval
  <2>3. approvals[subject].payment \in Payments
    BY <2>2 DEF Approval
  <2>4. approvals' \in [ApprovalIds -> Approval \cup {NoApproval}]
    <3>1. [approvals[subject] EXCEPT !.reviewed = TRUE] \in Approval
      BY <2>2 DEF Approval
    <3>2. [approvals[subject] EXCEPT !.status = "approved", !.reviewed = TRUE] \in Approval
      BY <2>2 DEF Approval, Closed
    <3>. QED
      BY <1>8, <2>1, <3>1, <3>2 DEF Approve, Process
  <2>. QED
    BY <1>8, <2>3, <2>4 DEF Approve, Answer, Execute, Process, WellCalled
<1>9. CASE Reject
  <2>1. subject \in ApprovalIds
    BY <1>9 DEF Reject, Process, WellCalled, ApprovalFlowTools
  <2>2. approvals[subject] \in Approval
    BY <1>9, <2>1 DEF Reject, Process, NoApproval
  <2>3. [approvals[subject] EXCEPT !.status = "rejected"] \in Approval
    BY <2>2 DEF Approval, Closed
  <2>. QED
    BY <1>9, <2>1, <2>3 DEF Reject, Answer, Process, WellCalled
<1>10. CASE Lookup \/ Ask \/ AskFails \/ Save \/ SaveFails
  <2>1. subject \in Payments
    BY <1>10 DEF Lookup, Ask, AskFails, Save, SaveFails, Process, WellCalled
  <2>2. prompts' \in [Payments -> 0..2] /\ prompted' \subseteq Payments
    BY <1>10, <2>1 DEF Lookup, Ask, AskFails, Save, SaveFails, Fail, Asked, Prompt, Process
  <2>. QED
    BY <1>10, <2>1, <2>2 DEF Lookup, Ask, AskFails, Save, SaveFails, Fail, Answer, Process, WellCalled
<1>11. CASE StartRead \/ ContinueRead
  BY <1>11 DEF StartRead, ContinueRead, Answer, Process, WellCalled
<1>12. CASE Die
  BY <1>12 DEF Die, Process, WellCalled
<1>13. ASSUME NEW a \in ApprovalIds, ComesDue(a)
       PROVE  Process'
  <2>1. approvals[a] \in Approval
    BY <1>13 DEF ComesDue, Process, NoApproval
  <2>2. [approvals[a] EXCEPT !.status = "overdue"] \in Approval
    BY <2>1 DEF Approval
  <2>. QED
    BY <1>13, <2>2 DEF ComesDue, Process, WellCalled
<1>14. CASE UNCHANGED vars
  BY <1>14 DEF vars, mcpState, Process, WellCalled
<1>. QED
  BY <1>1, <1>2, <1>3, <1>4, <1>5, <1>6, <1>7, <1>8, <1>9, <1>10, <1>11, <1>12, <1>13, <1>14, Steps

\* A tool of the service is only ever run for a payment, an approval or a report of its
\* kind, whatever the limiter, errors and restarts do in between
\* (app/mcp/tools.py:725-775).
THEOREM ProcessInvariant == Spec => []Process
BY ProcessInit, ProcessStep, PTL DEF Spec

-----------------------------------------------------------------------------
\* A call asks the limiter about a key that it has.
LEMMA KeyType ==
    ASSUME deployment \in Deployments, NEW t \in LimitedTools, NEW s \in Subjects(t),
           Permits(t), deployment.limiter # "off"
    PROVE  RateKey(t, s) \in RateKeys
<1>1. t \notin deployment.blocked /\ (deployment.enabled = {} \/ t \in deployment.enabled)
  BY DEF Permits
<1>2. s \in IF t \in ApprovalFlowTools THEN ApprovalIds ELSE deployment.wants
  BY DEF Subjects, LimitedTools, InitiateTools, StatusTools, ApprovalFlowTools, ReportTools
<1>. QED
  BY <1>1, <1>2, McpConstants

\* Seen by the limiter, a step of the system is a step of one of its callers, or none.
LEMMA LimiterInside == Process /\ LimiterTypeOK /\ [Next]_vars => [LimiterNext]_limiterState
<1>. SUFFICES ASSUME Process, LimiterTypeOK, [Next]_vars
              PROVE  [LimiterNext]_limiterState
  OBVIOUS
<1>0. Mcp \in Callers
  BY McpConstants
<1>1. ASSUME NEW c \in Callers, LimiterAnswers(c) \/ LimiterReturns(c) \/ LimiterCrash(c)
      PROVE  LimiterNext
  BY <1>1 DEF LimiterNext
<1>2. ASSUME NEW t \in CurrentTools, NEW s \in Subjects(t), Call(t, s)
      PROVE  [LimiterNext]_limiterState
  <2>1. CASE deployment.limiter # "off" /\ t \in LimitedTools
    <3>1. CallLimiter(Mcp, RateKey(t, s)) /\ Permits(t)
      BY <1>2, <2>1 DEF Call
    <3>2. RateKey(t, s) \in RateKeys
      BY <2>1, <3>1, KeyType DEF Process
    <3>. QED
      BY <1>0, <3>1, <3>2 DEF LimiterNext
  <2>2. CASE ~(deployment.limiter # "off" /\ t \in LimitedTools)
    BY <1>2, <2>2 DEF Call
  <2>. QED
    BY <2>1, <2>2
<1>3. CASE AskLimiter \/ Admitted \/ TurnedAway \/ Die
  BY <1>0, <1>1, <1>3 DEF AskLimiter, Admitted, TurnedAway, Die
<1>4. ASSUME NEW c \in Callers, PeerCalls(c)
      PROVE  [LimiterNext]_limiterState
  <2>1. CallLimiter(c, watched) /\ watched \in RateKeys
    BY <1>4 DEF PeerCalls, LimiterTypeOK
  <2>. QED
    BY <2>1 DEF LimiterNext
<1>5. ASSUME NEW c \in Callers, PeerContinues(c) \/ PeerDies(c)
      PROVE  [LimiterNext]_limiterState
  BY <1>1, <1>5 DEF PeerContinues, PeerDies
<1>6. CASE ClockTicks
  BY <1>6 DEF ClockTicks, LimiterNext
<1>7. CASE UNCHANGED limiterState
  BY <1>7
<1>. QED
  BY <1>2, <1>3, <1>4, <1>5, <1>6, <1>7 DEF Next, Serve, vars, StoreChanges, Initiate,
     InitiateBlocked, RequestApproval, NothingToReview, ExpireOverdue, Approve, Reject, Lookup,
     Ask, AskFails, Save, SaveFails, StartRead, ContinueRead, Receipt, ReadNothing, Start,
     AnswerOnly, ComesDue

\* Seen by the store and its readers, a step of the system is one of theirs, or none.
LEMMA ReadersInside == Process /\ [Next]_vars => [ReadersNext]_readersVars
<1>. SUFFICES ASSUME Process, [Next]_vars
              PROVE  [ReadersNext]_readersVars
  OBVIOUS
<1>0. Mcp \in Readers
  BY McpConstants
<1>1. CASE Save \/ SaveFails
  <2>1. subject \in Payments
    BY <1>1 DEF Save, SaveFails, Process, WellCalled
  <2>. QED
    BY <1>1, <2>1 DEF Save, SaveFails, ReadersNext, readersVars
<1>2. CASE StartRead
  <2>1. tool \in StatusTools => subject \in Payments
    BY <1>2 DEF StartRead, Process, WellCalled, CurrentTools, LimitedTools, StatusTools,
       InitiateTools, ApprovalFlowTools, Reports, ReportTools
  <2>. QED
    BY <1>0, <1>2, <2>1 DEF StartRead, ReadersNext
<1>3. CASE Receipt
  <2>1. subject \in Payments
    BY <1>3 DEF Receipt, Process, WellCalled, CurrentTools, LimitedTools, StatusTools,
       InitiateTools, ApprovalFlowTools, Reports, ReportTools
  <2>. QED
    BY <1>0, <1>3, <2>1 DEF Receipt, ReadersNext
<1>4. CASE ContinueRead \/ Die
  BY <1>0, <1>4 DEF ContinueRead, Die, ReadersNext
<1>5. CASE StoreChanges
  BY <1>5 DEF StoreChanges, ReadersNext
<1>6. CASE UNCHANGED <<storeState, readerState>>
  BY <1>6 DEF readersVars
<1>. QED
  BY <1>1, <1>2, <1>3, <1>4, <1>5, <1>6 DEF Next, Serve, vars, Call, AskLimiter, Admitted,
     TurnedAway, Initiate, InitiateBlocked, RequestApproval, NothingToReview, ExpireOverdue,
     Approve, Reject, Lookup, Ask, AskFails, ReadNothing, Start, AnswerOnly, ComesDue,
     PeerCalls, PeerContinues, PeerDies, ClockTicks

\* The MCP process and its peers use the rate limiter as its specification says
\* (app/mcp/tools.py:725-775).
THEOREM ImplementsLimiter == Spec => LimiterSpec
<1>1. Init => LimiterInit /\ LimiterTypeOK
  BY LimiterTypeInit DEF Init
<1>2. Process /\ LimiterTypeOK /\ [Next]_vars => LimiterTypeOK'
  BY LimiterInside, LimiterTypeStep
<1>. QED
  BY <1>1, <1>2, LimiterInside, ProcessInvariant, PTL DEF Spec, LimiterSpec

\* The MCP process stores payments and reads them as the specification of the readers
\* says (app/mcp/tools.py:245-400, 576-606).
THEOREM ImplementsReaders == Spec => ReadersSpec
<1>1. Init => ReadersInit
  BY DEF Init
<1>. QED
  BY <1>1, ReadersInside, ProcessInvariant, PTL DEF Spec, ReadersSpec

\* Type correctness of the MCP process and of all that it uses
\* (app/mcp/tools.py:725-775).
THEOREM TypeCorrect == Spec => []TypeOK
<1>1. Process /\ LimiterTypeOK /\ ReadersTypeOK => TypeOK
  BY DEF Process, WellCalled, TypeOK
<1>. QED
  BY <1>1, ProcessInvariant, ImplementsLimiter, ImplementsReaders, LimiterTypeCorrect,
     ReadersTypeCorrect, PTL

\* In the composed system, too, only a lost EXPIRE leaves a counter without an end
\* (app/rate_limit/limiter.py:112-114).
THEOREM CountersExpireHere == Spec => []CounterExpires
BY ImplementsLimiter, CountersExpire, PTL

\* In the composed system, too, a key admits less than twice its limit in the length of a
\* window (app/rate_limit/limiter.py:57-66, 112-114).
THEOREM BurstsBoundedHere == Spec => []BurstBound
BY ImplementsLimiter, BurstsBounded, PTL

\* In the composed system, too, receipts are backed and silence means settled
\* (app/receipts/generator.py:41-53, app/reconciliation/service.py:65-71).
THEOREM ReadersTellTheTruth == Spec => []ReceiptIsBacked /\ []CleanIsSettled
BY ImplementsReaders, ReceiptsBacked, SilenceIsGolden, PTL

-----------------------------------------------------------------------------
\* Between the service's decision to pay and the end of the call.
Paying == pc \in {"lookup", "ask", "save"}

\* A payment above the limit is under way only with a complete approval, which one
\* reviewer was enough for.
Released ==
    /\ \A p \in released : Required(p) <= 1
    /\ Paying => Amount[subject] <= MaxStkAmount \/ subject \in released
    /\ OverLimitNeedsQuorum

\* The payment under way is within the limit or released.
LEMMA ReleasedStep == Process /\ Released /\ [Next]_vars => Released'
<1>. SUFFICES ASSUME Process, Released, [Next]_vars
              PROVE  Released'
  OBVIOUS
<1>. USE DEF Required
<1>1. CASE Quiet \/ UNCHANGED vars
  BY <1>1, QuietStep DEF mcpState, vars, Released, Paying, OverLimitNeedsQuorum
<1>2. CASE Turned \/ Admitted \/ StartRead \/ ContinueRead \/ Die \/ RequestApproval
           \/ ExpireOverdue \/ Reject
  <2>1. ~Paying' /\ UNCHANGED <<prompted, released>>
    BY <1>2, TurnedStep DEF Answer, Admitted, StartRead, ContinueRead, Die, RequestApproval,
       ExpireOverdue, Reject, Paying
  <2>. QED
    BY <2>1 DEF Released, OverLimitNeedsQuorum
<1>3. ASSUME NEW t \in CurrentTools, NEW s \in Subjects(t), Call(t, s)
      PROVE  Released'
  BY <1>3 DEF Call, Released, Paying, OverLimitNeedsQuorum
<1>4. CASE Initiate
  <2>1. tool \in InitiateTools /\ subject \in Payments
    BY <1>4 DEF Initiate, Process, WellCalled, InitiateTools, ApprovalFlowTools, Reports, ReportTools
  <2>2. Amount[subject] <= MaxStkAmount
    BY <1>4, <2>1, McpConstants DEF Initiate, Verdict
  <2>. QED
    BY <1>4, <2>2 DEF Initiate, Execute, Released, OverLimitNeedsQuorum
<1>5. CASE Approve
  <2>1. subject \in ApprovalIds
    BY <1>5 DEF Approve, Process, WellCalled, ApprovalFlowTools
  <2>2. approvals[subject] \in Approval
    BY <1>5, <2>1 DEF Approve, Process, NoApproval
  <2> DEFINE q == approvals[subject].payment
  <2>3. q \in Payments
    BY <2>2 DEF Approval
  <2>4. Required(q) \in Int
    BY <2>3, McpConstants
  <2>5. CASE ~Paying' /\ UNCHANGED <<prompted, released>>
    BY <2>5 DEF Released, OverLimitNeedsQuorum
  <2>6. CASE ~(approvals[subject].reviewed \/ Required(q) > 1)
    <3>1. released' = released \cup {q} /\ UNCHANGED prompted
      BY <1>5, <2>6 DEF Approve
    <3>2. Required(q) <= 1
      BY <2>4, <2>6
    <3>3. pc' = "idle" \/ subject' = q
      BY <1>5, <2>6 DEF Approve, Answer, Execute
    <3>. QED
      BY <3>1, <3>2, <3>3 DEF Released, Paying, OverLimitNeedsQuorum
  <2>. QED
    BY <1>5, <2>5, <2>6 DEF Approve, Answer, Paying
<1>6. CASE Lookup \/ Ask \/ AskFails \/ Save \/ SaveFails
  <2>1. Paying /\ (Paying' => subject' = subject) /\ UNCHANGED released
    BY <1>6 DEF Lookup, Ask, AskFails, Save, SaveFails, Fail, Answer, Paying
  <2>2. prompted' \subseteq prompted \cup {subject}
    BY <1>6 DEF Lookup, Ask, AskFails, Save, SaveFails, Prompt
  <2>3. subject \in Payments
    BY <2>1 DEF Process, WellCalled, Paying
  <2>4. ~(Amount[subject] <= MaxStkAmount) \/ ~(Amount[subject] > MaxStkAmount)
    BY <2>3, McpConstants
  <2>. QED
    BY <2>1, <2>2, <2>4 DEF Released, OverLimitNeedsQuorum
<1>7. ASSUME NEW a \in ApprovalIds, ComesDue(a)
      PROVE  Released'
  BY <1>7 DEF ComesDue, Released, Paying, OverLimitNeedsQuorum
<1>. QED
  BY <1>1, <1>2, <1>3, <1>4, <1>5, <1>6, <1>7, Steps

\* However often it is tried, expires, is rejected or fails, no payment above the limit
\* prompts a customer without a complete approval, and none that takes two reviewers does
\* at all (app/approvals/service.py:125-142, app/mcp/tools.py:520-523).
THEOREM QuorumProtects == Spec => []OverLimitNeedsQuorum
<1>1. Init => Released
  BY DEF Init, Released, Paying, OverLimitNeedsQuorum
<1>2. Released => OverLimitNeedsQuorum
  BY DEF Released
<1>. QED
  BY <1>1, <1>2, ReleasedStep, ProcessInvariant, PTL DEF Spec

-----------------------------------------------------------------------------
\* Initiation is barred by the configuration, and nothing is on its way past that.
Barred == InitiateTools \subseteq deployment.blocked \cup deployment.approvalRequired

NothingInitiated ==
    /\ tool \notin InitiateTools
    /\ ~Paying
    /\ prompted = {}
    /\ \A a \in ApprovalIds : approvals[a] = NoApproval

\* A barred tool is not called, and the others find no approval to act upon.
LEMMA BarredStep ==
    Process /\ (Barred => NothingInitiated) /\ [Next]_vars => (Barred => NothingInitiated)'
<1>. SUFFICES ASSUME Process, Barred => NothingInitiated, [Next]_vars, Barred'
              PROVE  NothingInitiated'
  OBVIOUS
<1>0. UNCHANGED deployment
  BY QuietStep, TurnedStep, Steps DEF mcpState, vars, Call, Admitted, Initiate, RequestApproval,
     ExpireOverdue, Approve, Reject, Lookup, Ask, AskFails, Save, SaveFails, StartRead,
     ContinueRead, Die, ComesDue
<1>01. NothingInitiated
  BY <1>0 DEF Barred
<1>1. CASE Quiet \/ UNCHANGED vars
  BY <1>01, <1>1, QuietStep DEF mcpState, vars, NothingInitiated, Paying
<1>2. CASE Turned \/ Admitted \/ StartRead \/ ContinueRead \/ Die
  <2>1. "none" \notin InitiateTools
    BY DEF InitiateTools
  <2>2. (tool' = tool \/ tool' = "none") /\ ~Paying' /\ UNCHANGED prompted
    BY <1>2, TurnedStep DEF Answer, Admitted, StartRead, ContinueRead, Die, Paying
  <2>3. approvals' = approvals \/ \A a \in ApprovalIds : approvals'[a] = NoApproval
    BY <1>2, TurnedStep DEF Admitted, StartRead, ContinueRead, Die
  <2>. QED
    BY <1>01, <2>1, <2>2, <2>3 DEF NothingInitiated
<1>3. ASSUME NEW t \in CurrentTools, NEW s \in Subjects(t), Call(t, s)
      PROVE  NothingInitiated'
  <2>1. t \notin InitiateTools
    BY <1>0, <1>3 DEF Call, Permits, Barred, InitiateTools, ApprovalFlowTools
  <2>2. tool' = t /\ pc' \in {"limiter", "service"} /\ UNCHANGED <<prompted, approvals>>
    BY <1>3 DEF Call
  <2>. QED
    BY <1>01, <2>1, <2>2 DEF NothingInitiated, Paying
<1>4. CASE Initiate \/ RequestApproval \/ Lookup \/ Ask \/ AskFails \/ Save \/ SaveFails
  BY <1>01, <1>4 DEF Initiate, RequestApproval, Lookup, Ask, AskFails, Save, SaveFails,
     NothingInitiated, Paying
<1>5. CASE ExpireOverdue \/ Approve \/ Reject
  <2>1. subject \in ApprovalIds /\ approvals[subject].status # "absent"
    BY <1>5 DEF ExpireOverdue, Approve, Reject, Process, WellCalled, ApprovalFlowTools
  <2>. QED
    BY <1>01, <2>1 DEF NothingInitiated, NoApproval
<1>6. ASSUME NEW a \in ApprovalIds, ComesDue(a)
      PROVE  NothingInitiated'
  BY <1>01, <1>6 DEF ComesDue, NothingInitiated, NoApproval
<1>. QED
  BY <1>1, <1>2, <1>3, <1>4, <1>5, <1>6, Steps

\* Blocking both tools that initiate payments, or requiring approval for them, closes
\* every way to a prompt (app/policy/tool_policy.py:67-86).
THEOREM BarredStaysBarred == Spec => []InitiationClosed
<1>1. Init => (Barred => NothingInitiated)
  BY DEF Init, NothingInitiated, Paying, InitiateTools
<1>2. (Barred => NothingInitiated) => InitiationClosed
  BY DEF Barred, NothingInitiated, InitiationClosed
<1>. QED
  BY <1>1, <1>2, BarredStep, ProcessInvariant, PTL DEF Spec

-----------------------------------------------------------------------------
\* Only stored rows are written by callbacks.
OnlyStoredSettle == \A p \in Payments : status[p] = "absent" => writing[p] = {}

\* Rows stay, and only the payment under way gets a new one.
LEMMA RowsStay ==
    ASSUME Process, ReadersTypeOK, OnlyStoredSettle, [Next]_vars
    PROVE  /\ OnlyStoredSettle'
           /\ \A p \in Payments : status[p] # "absent" => status'[p] # "absent"
           /\ \/ pc = "save"
              \/ \A p \in Payments : status[p] = "absent" => status'[p] = "absent"
<1>1. CASE Save \/ SaveFails
  <2>1. subject \in Payments /\ pc = "save"
    BY <1>1 DEF Save, SaveFails, Process, WellCalled
  <2>2. Record(subject) \/ UNCHANGED <<status, writing>>
    BY <1>1 DEF Save, SaveFails, storeState
  <2>. QED
    BY <2>1, <2>2 DEF Record, OnlyStoredSettle, ReadersTypeOK
<1>2. CASE StoreChanges
  <2>1. \/ CallbacksEnd
        \/ \E p \in Payments :
             \/ PassStaleAge(p)
             \/ \E r \in Results[p] :
                  CallbackLoads(p, r) \/ CallbackWrites(p, r) \/ CallbackFails(p, r)
    BY <1>2 DEF StoreChanges, StoreMoves
  <2>2. ASSUME NEW p \in Payments, PassStaleAge(p)
        PROVE  OnlyStoredSettle' /\ UNCHANGED status
    BY <2>2 DEF PassStaleAge, OnlyStoredSettle
  <2>3. ASSUME NEW p \in Payments, NEW r \in Results[p], CallbackLoads(p, r)
        PROVE  /\ OnlyStoredSettle' /\ UNCHANGED status
    <3>1. status[p] # "absent" /\ UNCHANGED status
      BY <2>3 DEF CallbackLoads, CanTransition, Statuses, TerminalStatuses
    <3>2. \A q \in Payments : q # p => writing'[q] = writing[q]
      BY <2>3 DEF CallbackLoads
    <3>. QED
      BY <3>1, <3>2 DEF OnlyStoredSettle
  <2>4. ASSUME NEW p \in Payments, NEW r \in Results[p], CallbackWrites(p, r)
        PROVE  /\ OnlyStoredSettle'
               /\ \A q \in Payments : status'[q] = "absent" <=> status[q] = "absent"
    <3>1. r[1] # "absent"
      BY ReaderConstants DEF TerminalStatuses
    <3>2. status[p] # "absent"
      BY <2>4 DEF CallbackWrites, OneLess, OnlyStoredSettle
    <3>3. status' = [status EXCEPT ![p] = r[1]]
      BY <2>4 DEF CallbackWrites
    <3>4. \A q \in Payments : q # p => status'[q] = status[q] /\ writing'[q] = writing[q]
      BY <2>4, <3>3, OneLessWriting DEF CallbackWrites, ReadersTypeOK
    <3>5. status'[p] # "absent"
      BY <3>1, <3>3 DEF ReadersTypeOK
    <3>. QED
      BY <3>2, <3>4, <3>5 DEF OnlyStoredSettle
  <2>5. ASSUME CallbacksEnd \/ \E p \in Payments : \E r \in Results[p] : CallbackFails(p, r)
        PROVE  OnlyStoredSettle' /\ UNCHANGED status
    <3>1. UNCHANGED status /\ \A q \in Payments : writing[q] = {} => writing'[q] = {}
      BY <2>5, OneLessWriting DEF CallbacksEnd, CallbackFails
    <3>. QED
      BY <3>1 DEF OnlyStoredSettle
  <2>. QED
    BY <2>1, <2>2, <2>3, <2>4, <2>5
<1>3. CASE UNCHANGED <<status, writing>>
  BY <1>3 DEF OnlyStoredSettle
<1>. QED
  BY <1>1, <1>2, <1>3 DEF Next, Serve, vars, readersVars, storeState, readerState, Call, AskLimiter,
     Admitted, TurnedAway, Initiate, InitiateBlocked, RequestApproval, NothingToReview,
     ExpireOverdue, Approve, Reject, Lookup, Ask, AskFails, ReadNothing, Start, AnswerOnly,
     ComesDue, PeerCalls, PeerContinues, PeerDies, ClockTicks, StartRead, ContinueRead, Receipt,
     Die, StartQuery, StartReconciliation, Read, AnswerQuery, Report, Compare, GenerateReceipt,
     ReaderDies, ReaderDone

\* A payment that prompted the customer is stored, or about to be, or the agent got an
\* error for it; one that is asked for is not stored.
Once ==
    /\ OnlyStoredSettle
    /\ pc = "ask" => status[subject] = "absent"
    /\ \A p \in Payments : prompts[p] > 0 => status[p] # "absent" \/ (pc = "save" /\ subject = p)
    /\ RepromptOnlyAfterError

\* A prompt is either the only one, or it follows an error.
LEMMA OnceStep == Process /\ ReadersTypeOK /\ Once /\ [Next]_vars => Once'
<1>. SUFFICES ASSUME Process, ReadersTypeOK, Once, [Next]_vars
              PROVE  Once'
  OBVIOUS
<1>0. /\ OnlyStoredSettle'
      /\ \A p \in Payments : status[p] # "absent" => status'[p] # "absent"
      /\ pc # "save" => \A p \in Payments : status[p] = "absent" => status'[p] = "absent"
  BY RowsStay DEF Once
<1>1. CASE UNCHANGED <<pc, subject, prompts>>
  <2>1. pc = "ask" => subject \in Payments
    BY DEF Process, WellCalled
  <2>. QED
    BY <1>0, <1>1, <2>1 DEF Once, RepromptOnlyAfterError
<1>2. CASE UNCHANGED prompts /\ pc \notin {"ask", "save"} /\ pc' # "ask"
  <2>1. ASSUME NEW p \in Payments, prompts'[p] > 0
        PROVE  status'[p] # "absent"
    BY <1>0, <1>2, <2>1 DEF Once
  <2>2. RepromptOnlyAfterError'
    BY <1>2 DEF Once, RepromptOnlyAfterError
  <2>. QED
    BY <1>0, <1>2, <2>1, <2>2 DEF Once
<1>3. CASE Lookup
  <2>1. subject \in Payments /\ UNCHANGED status
    BY <1>3 DEF Lookup, Process, WellCalled, storeState
  <2>2. CASE status[subject] # "absent" /\ Answer /\ UNCHANGED prompts
    BY <1>2, <1>3, <2>2 DEF Lookup, Answer
  <2>3. CASE status[subject] = "absent" /\ pc' = "ask" /\ UNCHANGED <<tool, subject, prompts>>
    BY <1>0, <1>3, <2>1, <2>3 DEF Lookup, Once, RepromptOnlyAfterError
  <2>4. CASE Fail(subject)
    BY <1>0, <1>3, <2>1, <2>4 DEF Lookup, Fail, Answer, Once, RepromptOnlyAfterError, Process
  <2>. QED
    BY <1>3, <2>2, <2>3, <2>4 DEF Lookup
<1>4. CASE Ask
  <2>1. subject \in Payments /\ status[subject] = "absent" /\ pc' = "save" /\ subject' = subject
    BY <1>4 DEF Ask, Once, Process, WellCalled
  <2>2. prompts[subject] = 0
    BY <1>4, <2>1 DEF Ask, Once, Process
  <2>3. \A p \in Payments : p # subject => prompts'[p] = prompts[p]
    BY <1>4 DEF Ask, Asked, Process
  <2>4. prompts'[subject] \in {0, 1}
    BY <1>4, <2>1, <2>2 DEF Ask, Asked, Process
  <2>. QED
    BY <1>0, <1>4, <2>1, <2>3, <2>4 DEF Ask, Once, RepromptOnlyAfterError
<1>5. CASE AskFails \/ SaveFails
  <2>1. subject \in Payments /\ Fail(subject)
    BY <1>5 DEF AskFails, SaveFails, Process, WellCalled
  <2>2. prompts'[subject] = 0 /\ \A p \in Payments : p # subject => prompts'[p] = prompts[p]
    BY <2>1 DEF Fail, Process
  <2>. QED
    BY <1>0, <2>1, <2>2 DEF Fail, Answer, Once, RepromptOnlyAfterError
<1>6. CASE Save
  <2>1. subject \in Payments /\ Record(subject)
    BY <1>6 DEF Save, Process, WellCalled
  <2>2. status'[subject] # "absent"
    BY <2>1 DEF Record, ReadersTypeOK
  <2>3. UNCHANGED prompts /\ pc = "save" /\ pc' = "idle"
    BY <1>6 DEF Save, Answer
  <2>4. ASSUME NEW p \in Payments, prompts'[p] > 0
        PROVE  status'[p] # "absent"
    BY <1>0, <2>2, <2>3, <2>4 DEF Once
  <2>5. RepromptOnlyAfterError'
    BY <2>3 DEF Once, RepromptOnlyAfterError
  <2>. QED
    BY <1>0, <2>3, <2>4, <2>5 DEF Once
<1>7. CASE Die
  <2>1. pc \in {"ask", "save"} => subject \in Payments
    BY DEF Process, WellCalled
  <2>2. \A p \in Payments : prompts'[p] \in {0, prompts[p]} /\ (p = subject => prompts'[p] = 0)
    BY <1>7 DEF Die, Process
  <2>3. pc' = "down"
    BY <1>7 DEF Die
  <2>. QED
    BY <1>0, <2>1, <2>2, <2>3 DEF Once, RepromptOnlyAfterError
<1>8. CASE Quiet \/ UNCHANGED vars \/ \E a \in ApprovalIds : ComesDue(a)
  BY <1>1, <1>8, QuietStep DEF mcpState, vars, ComesDue
<1>9. CASE \/ \E t \in CurrentTools : \E s \in Subjects(t) : Call(t, s)
           \/ Admitted \/ Initiate \/ RequestApproval \/ ExpireOverdue \/ Approve \/ Reject
           \/ StartRead \/ ContinueRead
  BY <1>2, <1>9 DEF Call, Admitted, Initiate, Execute, RequestApproval, ExpireOverdue, Approve,
     Reject, StartRead, ContinueRead, Answer
<1>10. CASE Turned
  BY <1>2, <1>10 DEF Turned, TurnedAway, InitiateBlocked, NothingToReview, Receipt, ReadNothing,
     Start, AnswerOnly, Answer
<1>. QED
  BY <1>3, <1>4, <1>5, <1>6, <1>7, <1>8, <1>9, <1>10, Steps

\* The three facts hold throughout, on the readers' type invariant.
LEMMA OnceInvariant == Spec => []Once
<1>1. Init => Once
  BY DEF Init, ReadersInit, Once, OnlyStoredSettle, RepromptOnlyAfterError
<1>2. Spec => []ReadersTypeOK
  BY ImplementsReaders, ReadersTypeCorrect, PTL
<1>. QED
  BY <1>1, <1>2, OnceStep, ProcessInvariant, PTL DEF Spec

\* Whichever tools and approvals a payment is asked for through, the customer is prompted
\* again only after the agent got an error (app/services/payment_service.py:320-356).
THEOREM SecondPromptFollowsError == Spec => []RepromptOnlyAfterError
BY OnceInvariant, PTL DEF Once

\* A stored payment is not asked of the provider again, whatever became of it
\* (app/services/payment_service.py:320-332, 406-418).
THEOREM StoredIsNotPrompted == Spec => NoPromptOnceStored
<1>1. Process /\ Once /\ [Next]_vars =>
          [\A p \in Payments : status[p] # "absent" => prompts'[p] <= prompts[p]]_vars
  <2>. SUFFICES ASSUME Process, Once, [Next]_vars, NEW p \in Payments, status[p] # "absent"
                PROVE  prompts'[p] <= prompts[p]
    OBVIOUS
  <2>1. CASE UNCHANGED prompts
    BY <2>1 DEF Process
  <2>2. CASE Ask
    BY <2>2 DEF Ask, Asked, Once, Process
  <2>3. CASE Lookup \/ AskFails \/ SaveFails \/ Die
    <3>1. prompts'[p] \in {0, prompts[p]}
      BY <2>3 DEF Lookup, AskFails, SaveFails, Die, Fail, Process
    <3>. QED
      BY <3>1 DEF Process
  <2>. QED
    BY <2>1, <2>2, <2>3, Steps, QuietStep, TurnedStep DEF mcpState, vars, Call, Admitted, Initiate,
       RequestApproval, ExpireOverdue, Approve, Reject, Save, StartRead, ContinueRead, ComesDue
<1>. QED
  BY <1>1, OnceInvariant, ProcessInvariant, PTL DEF Spec, NoPromptOnceStored

=============================================================================
