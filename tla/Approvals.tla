------------------------------ MODULE Approvals ------------------------------
(***************************************************************************)
(* The approval workflow: ApprovalService (app/approvals/service.py) on     *)
(* InMemoryApprovalRepository (app/approvals/repository.py), and            *)
(* PaymentService.execute_approved_payment (app/services/payment_service.py)*)
(* up to the execution of the payment, which PaymentExecution models.       *)
(*                                                                         *)
(* The routes run on threads of the API process.  Every access to the       *)
(* repository is one action, and what a thread read stays in its copy until *)
(* it writes: the repository has no lock and no version check.              *)
(***************************************************************************)
EXTENDS Integers, FiniteSets

CONSTANTS
    Threads,        \* request threads
    ApprovalIds,
    Operators,      \* operator ids of authenticated reviewers
    None,           \* no approval, no operator
    Required,       \* Required[a]: required_reviewers, by the amount of the payment:
                    \* a setting that nothing validates
    MaxExecutions   \* bound: executions of one approval are counted up to here

ASSUME ApprovalConstants ==
    /\ None \notin ApprovalIds
    /\ None \notin Operators
    /\ Required \in [ApprovalIds -> Int]
    /\ MaxExecutions \in Nat

VARIABLES
    approvals,      \* the repository: an approval request, Absent or Gone
    due,            \* due[a]: the clock has reached expires_at
    pc,             \* pc[t]: what thread t does next
    id,             \* id[t]: the approval it works on
    operator,       \* operator[t]: who asked for it
    copy,           \* copy[t]: the approval as t has read it
    to,             \* to[t]: the status t is about to set
    batch,          \* batch[t]: the rest of the pending approvals t walks through
    late,           \* history: what t's approval was when t started: "closed",
                    \* "overdue" or "no"
    asked,          \* history: asked[a]: the operators who asked to approve a
    executions      \* history: executions[a]: how often a's payment was executed,
                    \* up to MaxExecutions

local == <<pc, id, operator, copy, to, batch, late>>
vars == <<approvals, due, pc, id, operator, copy, to, batch, late, asked, executions>>

Absent == [status |-> "absent", reviewers |-> {}]

\* Forgotten at a restart.  Approval ids are never used again.
Gone == [status |-> "gone", reviewers |-> {}]

NewApproval == [status |-> "pending", reviewers |-> {}]

Closed == {"approved", "rejected", "expired"}

Statuses == {"pending"} \cup Closed

Approval == [status : Statuses \cup {"absent", "gone"}, reviewers : SUBSET Operators]

\* Mutant: the clock is not asked.
IsExpiredNever(a, approval) == FALSE

\* is_expired, of an approval as it was read
IsExpired(a, approval) == approval.status = "pending" /\ due[a]

IsOpen(a, approval) == approval.status = "pending" /\ ~IsExpired(a, approval)

\* Mutant: the status of the response is stored.
ReviewedPartially(a, approval, o) ==
    LET reviewers == approval.reviewers \cup {o} IN
    [status |-> IF Cardinality(reviewers) < Required[a] THEN "partially_approved" ELSE "approved",
     reviewers |-> reviewers]

\* Mutant: one review too few.
ReviewedTooSoon(a, approval, o) ==
    LET reviewers == approval.reviewers \cup {o} IN
    [status |-> IF Cardinality(reviewers) + 1 < Required[a] THEN approval.status ELSE "approved",
     reviewers |-> reviewers]

\* Mutant: a new review replaces the earlier ones.
ReviewedAlone(a, approval, o) == [status |-> "approved", reviewers |-> {o}]

\* The approval after one more review: review_count is the number of reviewers.
Reviewed(a, approval, o) ==
    LET reviewers == approval.reviewers \cup {o} IN
    [status |-> IF Cardinality(reviewers) < Required[a] THEN approval.status ELSE "approved",
     reviewers |-> reviewers]

-----------------------------------------------------------------------------
Init ==
    /\ approvals = [a \in ApprovalIds |-> Absent]
    /\ due = [a \in ApprovalIds |-> FALSE]
    /\ pc = [t \in Threads |-> "idle"]
    /\ id = [t \in Threads |-> None]
    /\ operator = [t \in Threads |-> None]
    /\ copy = [t \in Threads |-> Absent]
    /\ to = [t \in Threads |-> None]
    /\ batch = [t \in Threads |-> {}]
    /\ late = [t \in Threads |-> "no"]
    /\ asked = [a \in ApprovalIds |-> {}]
    /\ executions = [a \in ApprovalIds |-> 0]

Goto(t, label) == pc' = [pc EXCEPT ![t] = label]

\* The request of thread t is answered, with a result or with an error.
Finish(t) ==
    /\ Goto(t, "idle")
    /\ id' = [id EXCEPT ![t] = None]
    /\ operator' = [operator EXCEPT ![t] = None]
    /\ copy' = [copy EXCEPT ![t] = Absent]
    /\ to' = [to EXCEPT ![t] = None]
    /\ batch' = [batch EXCEPT ![t] = {}]
    /\ late' = [late EXCEPT ![t] = "no"]

Create(a) ==
    /\ approvals[a] = Absent
    /\ approvals' = [approvals EXCEPT ![a] = NewApproval]
    /\ UNCHANGED <<due, local, asked, executions>>

TimePasses(a) ==
    /\ approvals[a].status \in Statuses
    /\ due' = [due EXCEPT ![a] = TRUE]
    /\ UNCHANGED <<approvals, local, asked, executions>>

\* A request arrives at an idle thread.
Start(t, label) == pc[t] = "idle" /\ Goto(t, label)

\* POST /approvals/{id}/approve, or the MCP tool approve_payment_request
StartApprove(t, a, o) ==
    /\ Start(t, "get")
    /\ id' = [id EXCEPT ![t] = a]
    /\ operator' = [operator EXCEPT ![t] = o]
    /\ late' = [late EXCEPT ![t] = IF due[a] THEN "overdue"
                                   ELSE IF approvals[a].status \in Closed THEN "closed"
                                   ELSE "no"]
    /\ asked' = [asked EXCEPT ![a] = @ \cup {o}]
    /\ UNCHANGED <<approvals, due, copy, to, batch, executions>>

\* POST /approvals/{id}/reject
StartReject(t, a) ==
    /\ Start(t, "reject")
    /\ id' = [id EXCEPT ![t] = a]
    /\ UNCHANGED <<approvals, due, operator, copy, to, batch, late, asked, executions>>

\* GET /approvals/pending and POST /approvals/expire-stale expire what is overdue.
StartSweep(t) ==
    /\ Start(t, "list")
    /\ UNCHANGED <<approvals, due, id, operator, copy, to, batch, late, asked, executions>>

-----------------------------------------------------------------------------
\* execute_approved_payment reads the approval: an overdue one makes it sweep, one that
\* is not pending ends it.
Get(t) ==
    LET a == id[t]
        approval == approvals[a] IN
    /\ pc[t] = "get"
    /\ \/ /\ IsExpired(a, approval)
          /\ Goto(t, "list")
          /\ id' = [id EXCEPT ![t] = None]
          /\ operator' = [operator EXCEPT ![t] = None]
          /\ UNCHANGED <<copy, to, batch, late>>
       \/ /\ IsOpen(a, approval)
          /\ Goto(t, "review")
          /\ UNCHANGED <<id, operator, copy, to, batch, late>>
       \/ approval.status # "pending" /\ Finish(t)
    /\ UNCHANGED <<approvals, due, asked, executions>>

\* approve_request reads it again and checks the same, and that the operator has not
\* approved it before.
Review(t) ==
    LET a == id[t]
        approval == approvals[a] IN
    /\ pc[t] = "review"
    /\ \/ /\ IsExpired(a, approval)
          /\ Goto(t, "load")
          /\ to' = [to EXCEPT ![t] = "expired"]
          /\ UNCHANGED <<id, operator, copy, batch, late>>
       \/ /\ IsOpen(a, approval)
          /\ operator[t] \notin approval.reviewers
          /\ Goto(t, "save")
          /\ copy' = [copy EXCEPT ![t] = approval]
          /\ UNCHANGED <<id, operator, to, batch, late>>
       \/ /\ approval.status # "pending" \/ operator[t] \in approval.reviewers
          /\ ~IsExpired(a, approval)
          /\ Finish(t)
    /\ UNCHANGED <<approvals, due, asked, executions>>

\* The review is added to the copy and the whole copy is saved.  Its audit event may
\* fail after that: then the request ends here, also when the approval is complete.
SaveReview(t) ==
    LET a == id[t]
        reviewed == Reviewed(a, copy[t], operator[t]) IN
    /\ pc[t] = "save"
    /\ approvals' = [approvals EXCEPT ![a] = reviewed]
    /\ \/ Finish(t)
       \/ /\ reviewed.status = "approved"
          /\ Goto(t, "execute")
          /\ copy' = [copy EXCEPT ![t] = reviewed]
          /\ UNCHANGED <<id, operator, to, batch, late>>
    /\ UNCHANGED <<due, asked, executions>>

\* Mutant: a failed execution is tried again.
ExecuteUntilDone(t) ==
    /\ pc[t] = "execute"
    /\ executions' = [executions EXCEPT ![id[t]] = IF @ < MaxExecutions THEN @ + 1 ELSE @]
    /\ UNCHANGED <<approvals, due, local, asked>>

\* Mutant: a failed execution gives the approval back.
ExecuteAndReopen(t) ==
    /\ pc[t] = "execute"
    /\ executions' = [executions EXCEPT ![id[t]] = IF @ < MaxExecutions THEN @ + 1 ELSE @]
    /\ approvals' = [approvals EXCEPT ![id[t]] = NewApproval]
    /\ Finish(t)
    /\ UNCHANGED <<due, asked>>

\* _execute_approved_stk_push, whatever becomes of the payment
Execute(t) ==
    /\ pc[t] = "execute"
    /\ executions' = [executions EXCEPT ![id[t]] = IF @ < MaxExecutions THEN @ + 1 ELSE @]
    /\ Finish(t)
    /\ UNCHANGED <<approvals, due, asked>>

\* reject_request reads the approval, only to see whether it is overdue: it does not
\* ask whether it is still pending.
Reject(t) ==
    LET a == id[t] IN
    /\ pc[t] = "reject"
    /\ IF approvals[a].status \notin Statuses
         THEN Finish(t)
         ELSE /\ Goto(t, "load")
              /\ to' = [to EXCEPT ![t] =
                           IF IsExpired(a, approvals[a]) THEN "expired" ELSE "rejected"]
              /\ UNCHANGED <<id, operator, copy, batch, late>>
    /\ UNCHANGED <<approvals, due, asked, executions>>

\* update_status reads the approval ...
Load(t) ==
    /\ pc[t] = "load"
    /\ copy' = [copy EXCEPT ![t] = approvals[id[t]]]
    /\ Goto(t, "write")
    /\ UNCHANGED <<approvals, due, id, operator, to, batch, late, asked, executions>>

\* ... and writes back the copy with the new status.  The audit event that follows may
\* fail, which ends the request, also in the middle of a sweep.
Write(t) ==
    /\ pc[t] = "write"
    /\ approvals' = [approvals EXCEPT ![id[t]] = [copy[t] EXCEPT !.status = to[t]]]
    /\ \/ Finish(t)
       \/ /\ batch[t] # {}
          /\ Goto(t, "walk")
          /\ id' = [id EXCEPT ![t] = None]
          /\ copy' = [copy EXCEPT ![t] = Absent]
          /\ to' = [to EXCEPT ![t] = None]
          /\ UNCHANGED <<operator, batch, late>>
    /\ UNCHANGED <<due, asked, executions>>

\* expire_stale_approvals: list_pending takes the pending approvals; walking the table
\* raises if another thread adds an approval to it meanwhile.
List(t) ==
    /\ pc[t] = "list"
    /\ \/ Finish(t)
       \/ /\ batch' = [batch EXCEPT ![t] =
                           {a \in ApprovalIds : approvals[a].status = "pending"}]
          /\ Goto(t, "walk")
          /\ UNCHANGED <<id, operator, copy, to, late>>
    /\ UNCHANGED <<approvals, due, asked, executions>>

\* Mutant: the walk ends at the first approval that is not overdue.
WalkUntilOpen(t) ==
    /\ pc[t] = "walk"
    /\ \/ batch[t] = {} /\ Finish(t)
       \/ \E a \in batch[t] :
            \/ ~due[a] /\ Finish(t)
            \/ /\ due[a]
               /\ batch' = [batch EXCEPT ![t] = @ \ {a}]
               /\ Goto(t, "load")
               /\ id' = [id EXCEPT ![t] = a]
               /\ to' = [to EXCEPT ![t] = "expired"]
               /\ UNCHANGED <<operator, copy, late>>
    /\ UNCHANGED <<approvals, due, asked, executions>>

\* Each of them that is overdue by then is expired, though it may have changed since.
Walk(t) ==
    /\ pc[t] = "walk"
    /\ \/ batch[t] = {} /\ Finish(t)
       \/ \E a \in batch[t] :
            /\ batch' = [batch EXCEPT ![t] = @ \ {a}]
            /\ IF due[a]
                 THEN /\ Goto(t, "load")
                      /\ id' = [id EXCEPT ![t] = a]
                      /\ to' = [to EXCEPT ![t] = "expired"]
                 ELSE UNCHANGED <<pc, id, to>>
            /\ UNCHANGED <<operator, copy, late>>
    /\ UNCHANGED <<approvals, due, asked, executions>>

\* The process starts again, with an empty repository.
Restart ==
    /\ approvals' = [a \in ApprovalIds |-> IF approvals[a] = Absent THEN Absent ELSE Gone]
    /\ pc' = [t \in Threads |-> "idle"]
    /\ id' = [t \in Threads |-> None]
    /\ operator' = [t \in Threads |-> None]
    /\ copy' = [t \in Threads |-> Absent]
    /\ to' = [t \in Threads |-> None]
    /\ batch' = [t \in Threads |-> {}]
    /\ late' = [t \in Threads |-> "no"]
    /\ UNCHANGED <<due, asked, executions>>

Handle(t) ==
    \/ Get(t) \/ Review(t) \/ SaveReview(t) \/ Execute(t) \/ Reject(t)
    \/ Load(t) \/ Write(t) \/ List(t) \/ Walk(t)

Next ==
    \/ \E a \in ApprovalIds : Create(a) \/ TimePasses(a)
    \/ \E t \in Threads, a \in ApprovalIds : StartReject(t, a)
    \/ \E t \in Threads, a \in ApprovalIds, o \in Operators : StartApprove(t, a, o)
    \/ \E t \in Threads : StartSweep(t) \/ Handle(t)
    \/ Restart

Spec == Init /\ [][Next]_vars

\* Fairness.  A thread that can go on is scheduled (WF).  Operators look at the pending
\* approvals again and again, and not every one of these sweeps fails at once (SF).
FairSpec ==
    /\ Spec
    /\ \A t \in Threads :
         /\ WF_vars(Handle(t))
         /\ SF_vars(StartSweep(t))
         /\ SF_vars(List(t) /\ pc'[t] = "walk")

-----------------------------------------------------------------------------
Labels ==
    {"idle", "get", "review", "save", "execute", "reject", "load", "write", "list", "walk"}

\* Type invariant.
TypeOK ==
    /\ approvals \in [ApprovalIds -> Approval]
    /\ due \in [ApprovalIds -> BOOLEAN]
    /\ pc \in [Threads -> Labels]
    /\ id \in [Threads -> ApprovalIds \cup {None}]
    /\ \A t \in Threads : pc[t] \notin {"idle", "list", "walk"} => id[t] \in ApprovalIds
    /\ operator \in [Threads -> Operators \cup {None}]
    /\ \A t \in Threads :
         pc[t] \in {"get", "review", "save", "execute"} => operator[t] \in Operators
    /\ copy \in [Threads -> Approval]
    /\ to \in [Threads -> {"rejected", "expired", None}]
    /\ \A t \in Threads : pc[t] \in {"load", "write"} => to[t] \in {"rejected", "expired"}
    /\ batch \in [Threads -> SUBSET ApprovalIds]
    /\ late \in [Threads -> {"no", "closed", "overdue"}]
    /\ asked \in [ApprovalIds -> SUBSET Operators]
    /\ executions \in [ApprovalIds -> 0..MaxExecutions]

\* A payment is executed only for as many different reviewers as its amount requires,
\* each of whom asked to approve this very approval; no interleaving of reviews,
\* rejections and sweeps on stale copies adds or counts a reviewer who did not
\* (app/approvals/service.py:125-192).
QuorumBeforeExecution ==
    \A t \in Threads : pc[t] = "execute" =>
        /\ Cardinality(copy[t].reviewers) >= Required[id[t]]
        /\ copy[t].reviewers \subseteq asked[id[t]]

\* What the repository shows as approved has its quorum too, whichever copy was
\* written last.
ApprovedHasQuorum ==
    \A a \in ApprovalIds : approvals[a].status = "approved" =>
        Cardinality(approvals[a].reviewers) >= Required[a]

\* A request to approve that arrives when the approval is overdue never gets it
\* executed, nor does one that arrives when the approval is closed if one reviewer is
\* enough.  With more reviewers a stale copy that adds a first review can reopen a
\* closed approval (app/approvals/service.py:141-152).
LateApprovalRefused ==
    \A t \in Threads : pc[t] \in {"save", "execute"} =>
        \/ late[t] = "no"
        \/ late[t] = "closed" /\ Required[id[t]] > 1

\* "Execute approved payment exactly once" (docs/production-readiness-checklist.md:75): an
\* approval lets at most one payment be executed, also when it is approved, rejected and
\* swept over and over (app/approvals/service.py:117-123).  So it is with one request at a
\* time; of two that overlap both may find the approval pending.
ExecutedOnce == \A a \in ApprovalIds : executions[a] <= 1

\* One request at a time: a rejected, expired or forgotten approval executes nothing
\* any more, and a closed approval never becomes pending again.
ClosedForGood ==
    [][\A a \in ApprovalIds :
         /\ approvals[a].status \in {"rejected", "expired", "gone"} =>
              executions'[a] = executions[a]
         /\ approvals[a].status \in Closed => approvals'[a].status # "pending"]_vars

\* One request at a time: an approval that comes due does not stay pending
\* (app/approvals/service.py:285-294).
OverdueIsClosed ==
    \A a \in ApprovalIds : due[a] /\ approvals[a].status = "pending"
                              ~> approvals[a].status # "pending"

=============================================================================
