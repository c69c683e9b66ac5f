--------------------------- MODULE Approvals_proofs ---------------------------
(***************************************************************************)
(* Proofs about Approvals, for every set of threads, approvals and          *)
(* operators and every number of required reviewers: type correctness and  *)
(* the invariants that hold when routes race on stale copies.               *)
(***************************************************************************)
EXTENDS Approvals, FiniteSetTheorems, TLAPS

\* One more review of an approval as it was read yields an approval.
LEMMA ReviewedType ==
    ASSUME NEW a, NEW approval \in Approval, NEW o \in Operators
    PROVE  Reviewed(a, approval, o) \in Approval
BY DEF Reviewed, Approval, Statuses, Closed

\* Before the first request nothing is stored and every thread is idle.
LEMMA TypeInit == Init => TypeOK
BY ApprovalConstants DEF Init, TypeOK, Absent, Approval, Labels

\* Every step of every request keeps the repository and the threads well-formed.
LEMMA TypeStep == TypeOK /\ [Next]_vars => TypeOK'
<1>. SUFFICES ASSUME TypeOK, [Next]_vars
              PROVE  TypeOK'
  OBVIOUS
<1>. DEFINE LocalOK ==
              /\ pc' \in [Threads -> Labels]
              /\ id' \in [Threads -> ApprovalIds \cup {None}]
              /\ \A t \in Threads : pc'[t] \notin {"idle", "list", "walk"} => id'[t] \in ApprovalIds
              /\ operator' \in [Threads -> Operators \cup {None}]
              /\ \A t \in Threads :
                   pc'[t] \in {"get", "review", "save", "execute"} => operator'[t] \in Operators
              /\ copy' \in [Threads -> Approval]
              /\ to' \in [Threads -> {"rejected", "expired", None}]
              /\ \A t \in Threads : pc'[t] \in {"load", "write"} => to'[t] \in {"rejected", "expired"}
              /\ batch' \in [Threads -> SUBSET ApprovalIds]
              /\ late' \in [Threads -> {"no", "closed", "overdue"}]
<1>. DEFINE GlobalOK ==
              /\ approvals' \in [ApprovalIds -> Approval]
              /\ due' \in [ApprovalIds -> BOOLEAN]
              /\ asked' \in [ApprovalIds -> SUBSET Operators]
              /\ executions' \in [ApprovalIds -> 0..MaxExecutions]
<1>a. Absent \in Approval /\ Gone \in Approval /\ NewApproval \in Approval
  BY DEF Absent, Gone, NewApproval, Approval, Statuses
<1>f. ASSUME NEW t \in Threads, Finish(t)
      PROVE  LocalOK
  BY <1>a, <1>f DEF TypeOK, Finish, Goto, Labels
<1>g. ASSUME UNCHANGED <<approvals, due, asked, executions>>
      PROVE  GlobalOK
  BY <1>g DEF TypeOK
<1>1. ASSUME NEW a \in ApprovalIds, Create(a) \/ TimePasses(a)
      PROVE  TypeOK'
  BY <1>1, <1>a DEF TypeOK, Create, TimePasses, local
<1>2. ASSUME NEW t \in Threads, NEW a \in ApprovalIds, StartReject(t, a)
      PROVE  TypeOK'
  <2>1. LocalOK
    BY <1>2 DEF TypeOK, StartReject, Start, Goto, Labels
  <2>. QED
    BY <1>2, <1>g, <2>1 DEF TypeOK, StartReject
<1>3. ASSUME NEW t \in Threads, NEW a \in ApprovalIds, NEW o \in Operators, StartApprove(t, a, o)
      PROVE  TypeOK'
  <2>1. LocalOK
    BY <1>3 DEF TypeOK, StartApprove, Start, Goto, Labels
  <2>. QED
    BY <1>3, <2>1 DEF TypeOK, StartApprove
<1>4. ASSUME NEW t \in Threads, StartSweep(t)
      PROVE  TypeOK'
  <2>1. LocalOK
    BY <1>4 DEF TypeOK, StartSweep, Start, Goto, Labels
  <2>. QED
    BY <1>4, <1>g, <2>1 DEF TypeOK, StartSweep
<1>5. ASSUME NEW t \in Threads, Get(t)
      PROVE  TypeOK'
  <2>1. LocalOK
    BY <1>5, <1>f DEF TypeOK, Get, Goto, Labels
  <2>. QED
    BY <1>5, <1>g, <2>1 DEF TypeOK, Get
<1>6. ASSUME NEW t \in Threads, Review(t)
      PROVE  TypeOK'
  <2>1. LocalOK
    BY <1>6, <1>f DEF TypeOK, Review, Goto, Labels
  <2>. QED
    BY <1>6, <1>g, <2>1 DEF TypeOK, Review
<1>7. ASSUME NEW t \in Threads, SaveReview(t)
      PROVE  TypeOK'
  <2>1. Reviewed(id[t], copy[t], operator[t]) \in Approval
    BY <1>7, ReviewedType DEF SaveReview, TypeOK
  <2>2. LocalOK
    BY <1>7, <1>f, <2>1 DEF TypeOK, SaveReview, Goto, Labels
  <2>3. GlobalOK
    BY <1>7, <2>1 DEF TypeOK, SaveReview
  <2>. QED
    BY <2>2, <2>3 DEF TypeOK
<1>8. ASSUME NEW t \in Threads, Execute(t)
      PROVE  TypeOK'
  <2>1. GlobalOK
    BY <1>8, ApprovalConstants DEF TypeOK, Execute
  <2>. QED
    BY <1>8, <1>f, <2>1 DEF TypeOK, Execute
<1>9. ASSUME NEW t \in Threads, Reject(t)
      PROVE  TypeOK'
  <2>1. LocalOK
    BY <1>9, <1>f DEF TypeOK, Reject, Goto, Labels
  <2>. QED
    BY <1>9, <1>g, <2>1 DEF TypeOK, Reject
<1>10. ASSUME NEW t \in Threads, Load(t)
       PROVE  TypeOK'
  <2>1. LocalOK
    BY <1>10 DEF TypeOK, Load, Goto, Labels
  <2>. QED
    BY <1>10, <1>g, <2>1 DEF TypeOK, Load
<1>11. ASSUME NEW t \in Threads, Write(t)
       PROVE  TypeOK'
  <2>1. [copy[t] EXCEPT !.status = to[t]] \in Approval
    <3>1. copy[t] \in Approval /\ to[t] \in {"rejected", "expired"}
      BY <1>11 DEF TypeOK, Write
    <3>. QED
      BY <3>1 DEF Approval, Statuses, Closed
  <2>2. LocalOK
    BY <1>11, <1>a, <1>f DEF TypeOK, Write, Goto, Labels
  <2>3. GlobalOK
    BY <1>11, <2>1 DEF TypeOK, Write
  <2>. QED
    BY <2>2, <2>3 DEF TypeOK
<1>12. ASSUME NEW t \in Threads, List(t)
       PROVE  TypeOK'
  <2>1. LocalOK
    BY <1>12, <1>f DEF TypeOK, List, Goto, Labels
  <2>. QED
    BY <1>12, <1>g, <2>1 DEF TypeOK, List
<1>13. ASSUME NEW t \in Threads, Walk(t)
       PROVE  TypeOK'
  <2>1. LocalOK
    BY <1>13, <1>f DEF TypeOK, Walk, Goto, Labels
  <2>. QED
    BY <1>13, <1>g, <2>1 DEF TypeOK, Walk
<1>14. CASE Restart
  BY <1>14, <1>a DEF TypeOK, Restart, Labels
<1>15. CASE UNCHANGED vars
  BY <1>15 DEF vars, TypeOK
<1>. QED
  BY <1>1, <1>2, <1>3, <1>4, <1>5, <1>6, <1>7, <1>8, <1>9, <1>10, <1>11, <1>12, <1>13, <1>14,
     <1>15 DEF Next, Handle

\* Type correctness of the approval workflow.
THEOREM TypeCorrect == Spec => []TypeOK
BY TypeInit, TypeStep, PTL DEF Spec

-----------------------------------------------------------------------------
\* The reviewers of a stored approval asked to approve it, and there are finitely many.
ReviewersAsked ==
    \A a \in ApprovalIds :
        approvals[a].reviewers \subseteq asked[a] /\ IsFiniteSet(approvals[a].reviewers)

\* So did the reviewers in a copy that is about to be written, and the operator of a
\* request to approve.
CopyAsked(t) ==
    /\ pc[t] \in {"get", "review", "save"} => operator[t] \in asked[id[t]]
    /\ pc[t] \in {"save", "write"} =>
         copy[t].reviewers \subseteq asked[id[t]] /\ IsFiniteSet(copy[t].reviewers)
    /\ pc[t] = "save" => copy[t].status = "pending"

QuorumReached(t) ==
    pc[t] = "execute" =>
        /\ Cardinality(copy[t].reviewers) >= Required[id[t]]
        /\ copy[t].reviewers \subseteq asked[id[t]]

\* A request that came too late is on its way to a refusal: its approval is still due,
\* or still closed if one reviewer is enough.
LateRefused(t) ==
    /\ late[t] = "overdue" =>
         /\ pc[t] \notin {"save", "execute"}
         /\ pc[t] \in {"get", "review"} => due[id[t]]
    /\ late[t] = "closed" /\ pc[t] \in {"get", "review", "save", "execute"}
         /\ Required[id[t]] <= 1 =>
         /\ pc[t] \notin {"save", "execute"}
         /\ approvals[id[t]].status \in Closed

\* The inductive invariant.
IInv ==
    /\ TypeOK
    /\ ReviewersAsked
    /\ ApprovedHasQuorum
    /\ \A t \in Threads : CopyAsked(t) /\ QuorumReached(t) /\ LateRefused(t)

\* One more review of a pending approval: the reviewer is added, and the approval is
\* approved exactly when the reviewers are enough.
LEMMA ReviewCounts ==
    ASSUME NEW a \in ApprovalIds, NEW approval \in Approval, NEW o,
           IsFiniteSet(approval.reviewers)
    PROVE  LET reviewed == Reviewed(a, approval, o) IN
           /\ reviewed.reviewers = approval.reviewers \cup {o}
           /\ IsFiniteSet(reviewed.reviewers)
           /\ reviewed.status \in {approval.status, "approved"}
           /\ approval.status # "approved" /\ reviewed.status = "approved" =>
                Cardinality(reviewed.reviewers) >= Required[a]
           /\ Required[a] <= 1 => reviewed.status = "approved"
<1>. DEFINE reviewers == approval.reviewers \cup {o}
<1>1. IsFiniteSet(reviewers)
  BY FS_AddElement
<1>2. Cardinality(reviewers) \in Nat /\ Cardinality(reviewers) # 0
  BY <1>1, FS_CardinalityType, FS_EmptySet
<1>3. Required[a] \in Int
  BY ApprovalConstants
<1>. QED
  BY <1>1, <1>2, <1>3 DEF Reviewed

\* What a step may do to a thread that does not move itself.
Surroundings ==
    /\ \A a \in ApprovalIds : asked[a] \subseteq asked'[a]
    /\ \A a \in ApprovalIds : due[a] => due'[a]
    /\ \A a \in ApprovalIds :
         Required[a] <= 1 /\ approvals[a].status \in Closed => approvals'[a].status \in Closed

\* Under those conditions the thread keeps its part of the invariant.
LEMMA ThreadKept ==
    ASSUME IInv, NEW t \in Threads, Surroundings,
           pc'[t] = pc[t], id'[t] = id[t], operator'[t] = operator[t], copy'[t] = copy[t],
           late'[t] = late[t]
    PROVE  CopyAsked(t)' /\ QuorumReached(t)' /\ LateRefused(t)'
<1>1. pc[t] \notin {"idle", "list", "walk"} => id[t] \in ApprovalIds
  BY DEF IInv, TypeOK
<1>2. pc[t] \in Labels
  BY DEF IInv, TypeOK
<1>3. CopyAsked(t)'
  BY <1>1, <1>2 DEF IInv, CopyAsked, Surroundings
<1>4. QuorumReached(t)'
  BY <1>1, <1>2 DEF IInv, QuorumReached, Surroundings
<1>5. LateRefused(t)'
  BY <1>1, <1>2 DEF IInv, LateRefused, Surroundings
<1>. QED
  BY <1>3, <1>4, <1>5

\* A thread that is answered is idle and has nothing to keep.
LEMMA ThreadFinishes ==
    ASSUME IInv, NEW t \in Threads, Finish(t)
    PROVE  /\ CopyAsked(t)' /\ QuorumReached(t)' /\ LateRefused(t)'
           /\ \A u \in Threads \ {t} :
                /\ pc'[u] = pc[u] /\ id'[u] = id[u] /\ operator'[u] = operator[u]
                /\ copy'[u] = copy[u] /\ late'[u] = late[u]
<1>1. pc'[t] = "idle" /\ late'[t] = "no"
  BY DEF Finish, Goto, IInv, TypeOK
<1>2. \A u \in Threads \ {t} :
        /\ pc'[u] = pc[u] /\ id'[u] = id[u] /\ operator'[u] = operator[u]
        /\ copy'[u] = copy[u] /\ late'[u] = late[u]
  BY DEF Finish, Goto, IInv, TypeOK
<1>. QED
  BY <1>1, <1>2 DEF CopyAsked, QuorumReached, LateRefused

\* A step of thread t that leaves the repository and the history alone.
LEMMA OnlyThreadMoves ==
    ASSUME IInv, TypeOK', NEW t \in Threads, UNCHANGED <<approvals, due, asked>>,
           CopyAsked(t)' /\ QuorumReached(t)' /\ LateRefused(t)',
           \A u \in Threads \ {t} :
                /\ pc'[u] = pc[u] /\ id'[u] = id[u] /\ operator'[u] = operator[u]
                /\ copy'[u] = copy[u] /\ late'[u] = late[u]
    PROVE  IInv'
<1>1. Surroundings
  BY DEF Surroundings
<1>2. \A u \in Threads : CopyAsked(u)' /\ QuorumReached(u)' /\ LateRefused(u)'
  BY <1>1, ThreadKept
<1>3. ReviewersAsked' /\ ApprovedHasQuorum'
  BY DEF IInv, ReviewersAsked, ApprovedHasQuorum
<1>. QED
  BY <1>2, <1>3 DEF IInv

\* A step of thread t that writes the approval a.
LEMMA ApprovalWritten ==
    ASSUME IInv, TypeOK', NEW t \in Threads, NEW a \in ApprovalIds, NEW approval,
           approvals' = [approvals EXCEPT ![a] = approval],
           UNCHANGED <<due, asked>>,
           approval.reviewers \subseteq asked[a], IsFiniteSet(approval.reviewers),
           approval.status = "approved" => Cardinality(approval.reviewers) >= Required[a],
           Required[a] <= 1 /\ approvals[a].status \in Closed => approval.status \in Closed,
           CopyAsked(t)' /\ QuorumReached(t)' /\ LateRefused(t)',
           \A u \in Threads \ {t} :
                /\ pc'[u] = pc[u] /\ id'[u] = id[u] /\ operator'[u] = operator[u]
                /\ copy'[u] = copy[u] /\ late'[u] = late[u]
    PROVE  IInv'
<1>1. approvals'[a] = approval /\ \A b \in ApprovalIds \ {a} : approvals'[b] = approvals[b]
  BY DEF IInv, TypeOK
<1>2. Surroundings
  BY <1>1 DEF Surroundings
<1>3. \A u \in Threads : CopyAsked(u)' /\ QuorumReached(u)' /\ LateRefused(u)'
  BY <1>2, ThreadKept
<1>4. ReviewersAsked' /\ ApprovedHasQuorum'
  BY <1>1 DEF IInv, ReviewersAsked, ApprovedHasQuorum
<1>. QED
  BY <1>3, <1>4 DEF IInv

\* In the initial state nothing is stored and no request is under way.
LEMMA InvInit == Init => IInv
<1>. SUFFICES ASSUME Init
              PROVE  IInv
  OBVIOUS
<1>1. TypeOK
  BY TypeInit
<1>2. ReviewersAsked /\ ApprovedHasQuorum
  BY FS_EmptySet DEF Init, Absent, ReviewersAsked, ApprovedHasQuorum
<1>3. \A t \in Threads : CopyAsked(t) /\ QuorumReached(t) /\ LateRefused(t)
  BY DEF Init, CopyAsked, QuorumReached, LateRefused
<1>. QED
  BY <1>1, <1>2, <1>3 DEF IInv

\* Every step of every request, the clock and a restart keep the inductive invariant.
LEMMA InvStep == IInv /\ [Next]_vars => IInv'
<1>. SUFFICES ASSUME IInv, [Next]_vars
              PROVE  IInv'
  OBVIOUS
<1>t. TypeOK /\ TypeOK'
  BY TypeStep DEF IInv
<1>. DEFINE Others(t) ==
              \A u \in Threads \ {t} :
                /\ pc'[u] = pc[u] /\ id'[u] = id[u] /\ operator'[u] = operator[u]
                /\ copy'[u] = copy[u] /\ late'[u] = late[u]
<1>. DEFINE Kept(t) == CopyAsked(t)' /\ QuorumReached(t)' /\ LateRefused(t)'
<1>f. ASSUME NEW t \in Threads, Finish(t), UNCHANGED <<approvals, due, asked>>
      PROVE  IInv'
  BY <1>t, <1>f, ThreadFinishes, OnlyThreadMoves
<1>1. ASSUME NEW a \in ApprovalIds, Create(a) \/ TimePasses(a)
      PROVE  IInv'
  <2>1. /\ UNCHANGED <<pc, id, operator, copy, to, batch, late, asked>>
        /\ \A b \in ApprovalIds : due[b] => due'[b]
    BY <1>1, <1>t DEF Create, TimePasses, local, TypeOK
  <2>2. \A b \in ApprovalIds :
          \/ approvals'[b] = approvals[b]
          \/ approvals[b] = Absent /\ approvals'[b] = NewApproval
    BY <1>1, <1>t DEF Create, TimePasses, TypeOK
  <2>3. Surroundings
    BY <2>1, <2>2 DEF Surroundings, Absent, Closed
  <2>4. ReviewersAsked' /\ ApprovedHasQuorum'
    BY <2>1, <2>2, FS_EmptySet
       DEF IInv, ReviewersAsked, ApprovedHasQuorum, NewApproval
  <2>. QED
    BY <1>t, <2>1, <2>3, <2>4, ThreadKept DEF IInv
<1>2. ASSUME NEW t \in Threads, NEW a \in ApprovalIds, StartReject(t, a)
      PROVE  IInv'
  <2>1. pc'[t] = "reject" /\ late'[t] = late[t] /\ pc[t] = "idle" /\ Others(t)
    BY <1>2, <1>t DEF StartReject, Start, Goto, TypeOK
  <2>2. Kept(t)
    BY <2>1 DEF IInv, CopyAsked, QuorumReached, LateRefused
  <2>. QED
    BY <1>2, <1>t, <2>1, <2>2, OnlyThreadMoves DEF StartReject
<1>3. ASSUME NEW t \in Threads, NEW a \in ApprovalIds, NEW o \in Operators, StartApprove(t, a, o)
      PROVE  IInv'
  <2>1. /\ pc'[t] = "get" /\ id'[t] = a /\ operator'[t] = o
        /\ late'[t] = IF due[a] THEN "overdue"
                      ELSE IF approvals[a].status \in Closed THEN "closed" ELSE "no"
        /\ o \in asked'[a] /\ \A b \in ApprovalIds : asked[b] \subseteq asked'[b]
        /\ UNCHANGED <<approvals, due>>
        /\ Others(t)
    BY <1>3, <1>t DEF StartApprove, Start, Goto, TypeOK
  <2>2. CopyAsked(t)' /\ QuorumReached(t)'
    BY <2>1 DEF CopyAsked, QuorumReached
  <2>3. LateRefused(t)'
    BY <2>1 DEF LateRefused
  <2>4. Surroundings
    BY <2>1 DEF Surroundings
  <2>5. ReviewersAsked' /\ ApprovedHasQuorum'
    BY <2>1 DEF IInv, ReviewersAsked, ApprovedHasQuorum
  <2>. QED
    BY <1>t, <2>1, <2>2, <2>3, <2>4, <2>5, ThreadKept DEF IInv
<1>4. ASSUME NEW t \in Threads, StartSweep(t)
      PROVE  IInv'
  <2>1. pc'[t] = "list" /\ late'[t] = late[t] /\ Others(t)
    BY <1>4, <1>t DEF StartSweep, Start, Goto, TypeOK
  <2>2. Kept(t)
    BY <2>1 DEF IInv, CopyAsked, QuorumReached, LateRefused
  <2>. QED
    BY <1>4, <1>t, <2>1, <2>2, OnlyThreadMoves DEF StartSweep
<1>5. ASSUME NEW t \in Threads, Get(t)
      PROVE  IInv'
  <2>1. CASE Finish(t)
    BY <1>5, <1>f, <2>1 DEF Get
  <2>2. CASE Goto(t, "list") /\ UNCHANGED <<copy, late>>
    <3>1. pc'[t] = "list" /\ late'[t] = late[t] /\ Others(t)
      BY <1>5, <1>t, <2>2 DEF Get, Goto, Finish, TypeOK
    <3>2. Kept(t)
      BY <3>1 DEF IInv, CopyAsked, QuorumReached, LateRefused
    <3>. QED
      BY <1>5, <1>t, <3>1, <3>2, OnlyThreadMoves DEF Get
  <2>3. CASE Goto(t, "review") /\ UNCHANGED <<id, operator, copy, to, batch, late>>
    <3>1. pc[t] = "get" /\ pc'[t] = "review" /\ Others(t)
      BY <1>5, <1>t, <2>3 DEF Get, Goto, TypeOK
    <3>2. Kept(t)
      BY <1>5, <2>3, <3>1 DEF Get, IInv, CopyAsked, QuorumReached, LateRefused
    <3>. QED
      BY <1>5, <1>t, <3>1, <3>2, OnlyThreadMoves DEF Get
  <2>. QED
    BY <1>5, <2>1, <2>2, <2>3 DEF Get
<1>6. ASSUME NEW t \in Threads, Review(t)
      PROVE  IInv'
  <2>1. CASE Finish(t)
    BY <1>6, <1>f, <2>1 DEF Review
  <2>2. CASE Goto(t, "load") /\ UNCHANGED <<id, operator, copy, batch, late>>
    <3>1. pc'[t] = "load" /\ late'[t] = late[t] /\ Others(t)
      BY <1>6, <1>t, <2>2 DEF Goto, TypeOK
    <3>2. Kept(t)
      BY <3>1 DEF IInv, CopyAsked, QuorumReached, LateRefused
    <3>. QED
      BY <1>6, <1>t, <3>1, <3>2, OnlyThreadMoves DEF Review
  <2>3. CASE /\ IsOpen(id[t], approvals[id[t]])
             /\ Goto(t, "save")
             /\ copy' = [copy EXCEPT ![t] = approvals[id[t]]]
             /\ UNCHANGED <<id, operator, to, batch, late>>
    <3>1. /\ pc[t] = "review" /\ pc'[t] = "save" /\ id[t] \in ApprovalIds /\ id'[t] = id[t]
          /\ copy'[t] = approvals[id[t]] /\ operator'[t] = operator[t] /\ late'[t] = late[t]
          /\ Others(t)
          /\ UNCHANGED <<approvals, due, asked>>
      BY <1>6, <1>t, <2>3 DEF Review, Goto, TypeOK
    <3>2. CopyAsked(t)' /\ QuorumReached(t)'
      BY <2>3, <3>1 DEF IInv, CopyAsked, QuorumReached, ReviewersAsked, IsOpen
    <3>3. LateRefused(t)'
      BY <2>3, <3>1 DEF IInv, LateRefused, IsOpen, IsExpired, Closed
    <3>. QED
      BY <1>t, <3>1, <3>2, <3>3, OnlyThreadMoves
  <2>. QED
    BY <1>6, <2>1, <2>2, <2>3 DEF Review
<1>7. ASSUME NEW t \in Threads, SaveReview(t)
      PROVE  IInv'
  <2>1. PICK a, reviewed :
          a \in ApprovalIds /\ a = id[t] /\ reviewed = Reviewed(a, copy[t], operator[t])
    BY <1>7, <1>t DEF SaveReview, TypeOK
  <2>2. /\ pc[t] = "save" /\ copy[t] \in Approval
        /\ copy[t].reviewers \subseteq asked[a] /\ IsFiniteSet(copy[t].reviewers)
        /\ copy[t].status = "pending" /\ operator[t] \in asked[a]
        /\ ~(late[t] = "closed" /\ Required[a] <= 1) /\ late[t] # "overdue"
    BY <1>7, <1>t, <2>1 DEF SaveReview, TypeOK, IInv, CopyAsked, LateRefused
  <2>3. /\ reviewed.reviewers \subseteq asked[a] /\ IsFiniteSet(reviewed.reviewers)
        /\ reviewed.status \in {"pending", "approved"}
        /\ reviewed.status = "approved" => Cardinality(reviewed.reviewers) >= Required[a]
        /\ Required[a] <= 1 => reviewed.status = "approved"
    BY <2>1, <2>2, ReviewCounts
  <2>4. /\ approvals' = [approvals EXCEPT ![a] = reviewed]
        /\ UNCHANGED <<due, asked>>
    BY <1>7, <2>1 DEF SaveReview
  <2>5. Kept(t) /\ Others(t)
    <3>1. CASE Finish(t)
      BY <3>1, ThreadFinishes
    <3>2. CASE /\ reviewed.status = "approved" /\ Goto(t, "execute")
               /\ copy' = [copy EXCEPT ![t] = reviewed]
               /\ UNCHANGED <<id, operator, to, batch, late>>
      <4>1. /\ pc'[t] = "execute" /\ id'[t] = a /\ copy'[t] = reviewed /\ late'[t] = late[t]
            /\ Others(t)
        BY <1>t, <2>1, <3>2 DEF Goto, TypeOK
      <4>2. CopyAsked(t)'
        BY <4>1 DEF CopyAsked
      <4>3. QuorumReached(t)'
        BY <2>3, <2>4, <3>2, <4>1 DEF QuorumReached
      <4>4. LateRefused(t)'
        BY <2>2, <4>1 DEF LateRefused
      <4>. QED
        BY <4>1, <4>2, <4>3, <4>4
    <3>. QED
      BY <1>7, <2>1, <3>1, <3>2 DEF SaveReview
  <2>. QED
    BY <1>t, <2>1, <2>3, <2>4, <2>5, ApprovalWritten DEF Closed
<1>8. ASSUME NEW t \in Threads, Execute(t)
      PROVE  IInv'
  BY <1>8, <1>f DEF Execute
<1>9. ASSUME NEW t \in Threads, Reject(t)
      PROVE  IInv'
  <2>1. CASE Finish(t)
    BY <1>9, <1>f, <2>1 DEF Reject
  <2>2. CASE Goto(t, "load") /\ UNCHANGED <<id, operator, copy, batch, late>>
    <3>1. pc'[t] = "load" /\ late'[t] = late[t] /\ Others(t)
      BY <1>t, <2>2 DEF Goto, TypeOK
    <3>2. Kept(t)
      BY <3>1 DEF IInv, CopyAsked, QuorumReached, LateRefused
    <3>. QED
      BY <1>9, <1>t, <3>1, <3>2, OnlyThreadMoves DEF Reject
  <2>. QED
    BY <1>9, <2>1, <2>2 DEF Reject
<1>10. ASSUME NEW t \in Threads, Load(t)
       PROVE  IInv'
  <2>1. /\ pc[t] = "load" /\ pc'[t] = "write" /\ id[t] \in ApprovalIds /\ id'[t] = id[t]
        /\ copy'[t] = approvals[id[t]] /\ late'[t] = late[t] /\ Others(t)
        /\ UNCHANGED <<approvals, due, asked>>
    BY <1>10, <1>t DEF Load, Goto, TypeOK
  <2>2. CopyAsked(t)'
    BY <2>1 DEF IInv, ReviewersAsked, CopyAsked
  <2>3. QuorumReached(t)' /\ LateRefused(t)'
    BY <2>1 DEF IInv, QuorumReached, LateRefused
  <2>. QED
    BY <1>t, <2>1, <2>2, <2>3, OnlyThreadMoves
<1>11. ASSUME NEW t \in Threads, Write(t)
       PROVE  IInv'
  <2>1. PICK a, written :
          a \in ApprovalIds /\ a = id[t] /\ written = [copy[t] EXCEPT !.status = to[t]]
    BY <1>11, <1>t DEF Write, TypeOK
  <2>2. /\ copy[t] \in Approval /\ to[t] \in {"rejected", "expired"}
        /\ copy[t].reviewers \subseteq asked[a] /\ IsFiniteSet(copy[t].reviewers)
    BY <1>11, <1>t, <2>1 DEF Write, TypeOK, IInv, CopyAsked
  <2>3. /\ written.status \in {"rejected", "expired"}
        /\ written.reviewers = copy[t].reviewers
    BY <2>1, <2>2 DEF Approval
  <2>4. /\ approvals' = [approvals EXCEPT ![a] = written]
        /\ UNCHANGED <<due, asked>>
    BY <1>11, <2>1 DEF Write
  <2>5. Kept(t) /\ Others(t)
    <3>1. CASE Finish(t)
      BY <3>1, ThreadFinishes
    <3>2. CASE ~Finish(t)
      <4>1. pc'[t] = "walk" /\ late'[t] = late[t] /\ Others(t)
        BY <1>11, <1>t, <3>2 DEF Write, Goto, TypeOK
      <4>. QED
        BY <4>1 DEF IInv, CopyAsked, QuorumReached, LateRefused
    <3>. QED
      BY <3>1, <3>2
  <2>. QED
    BY <1>t, <2>1, <2>2, <2>3, <2>4, <2>5, ApprovalWritten DEF Closed
<1>12. ASSUME NEW t \in Threads, List(t) \/ Walk(t)
       PROVE  IInv'
  <2>1. CASE Finish(t)
    BY <1>12, <1>f, <2>1 DEF List, Walk
  <2>2. CASE ~Finish(t)
    <3>1. pc'[t] \in {"walk", "load"} /\ late'[t] = late[t] /\ Others(t)
      <4>1. CASE List(t)
        BY <1>t, <2>2, <4>1 DEF List, Goto, TypeOK
      <4>2. CASE Walk(t)
        BY <1>t, <2>2, <4>2 DEF Walk, Goto, TypeOK
      <4>. QED
        BY <1>12, <4>1, <4>2
    <3>2. Kept(t)
      BY <3>1 DEF IInv, CopyAsked, QuorumReached, LateRefused
    <3>. QED
      BY <1>12, <1>t, <3>1, <3>2, OnlyThreadMoves DEF List, Walk
  <2>. QED
    BY <2>1, <2>2
<1>13. CASE Restart
  <2>1. /\ \A t \in Threads : pc'[t] = "idle" /\ late'[t] = "no"
        /\ \A a \in ApprovalIds : approvals'[a] \in {Absent, Gone}
    BY <1>13 DEF Restart
  <2>2. ReviewersAsked' /\ ApprovedHasQuorum'
    BY <2>1, FS_EmptySet DEF ReviewersAsked, ApprovedHasQuorum, Absent, Gone
  <2>. QED
    BY <1>t, <2>1, <2>2 DEF IInv, CopyAsked, QuorumReached, LateRefused
<1>14. CASE UNCHANGED vars
  <2>1. Surroundings /\ ReviewersAsked' /\ ApprovedHasQuorum'
    BY <1>14 DEF vars, IInv, Surroundings, ReviewersAsked, ApprovedHasQuorum
  <2>. QED
    BY <1>14, <1>t, <2>1, ThreadKept DEF vars, IInv
<1>. QED
  BY <1>1, <1>2, <1>3, <1>4, <1>5, <1>6, <1>7, <1>8, <1>9, <1>10, <1>11, <1>12, <1>13, <1>14
     DEF Next, Handle

-----------------------------------------------------------------------------
\* The inductive invariant holds in every reachable state.
THEOREM Invariance == Spec => []IInv
BY InvInit, InvStep, PTL DEF Spec

\* Whatever stale copies are written, a payment is executed only for as many different
\* reviewers as it requires, each of whom asked to approve it
\* (app/approvals/service.py:125-192).
THEOREM QuorumFirst == Spec => []QuorumBeforeExecution
<1>1. IInv => QuorumBeforeExecution
  BY DEF IInv, QuorumReached, QuorumBeforeExecution
<1>. QED
  BY <1>1, Invariance, PTL

\* What the repository shows as approved has its quorum.
THEOREM ApprovedQuorum == Spec => []ApprovedHasQuorum
<1>1. IInv => ApprovedHasQuorum
  BY DEF IInv
<1>. QED
  BY <1>1, Invariance, PTL

\* A request to approve that comes too late executes nothing
\* (app/approvals/service.py:82-115), with the exception the property names.
THEOREM LateIsRefused == Spec => []LateApprovalRefused
<1>1. IInv => LateApprovalRefused
  <2>. SUFFICES ASSUME IInv, NEW t \in Threads, pc[t] \in {"save", "execute"}
                PROVE  late[t] = "no" \/ (late[t] = "closed" /\ Required[id[t]] > 1)
    BY DEF LateApprovalRefused
  <2>1. late[t] \in {"no", "closed", "overdue"} /\ id[t] \in ApprovalIds
    BY DEF IInv, TypeOK
  <2>2. Required[id[t]] \in Int
    BY <2>1, ApprovalConstants
  <2>3. LateRefused(t)
    BY DEF IInv
  <2>. QED
    BY <2>1, <2>2, <2>3 DEF LateRefused
<1>. QED
  BY <1>1, Invariance, PTL

-----------------------------------------------------------------------------
\* One request at a time: nothing else writes between two accesses of a request.
OneAtATime == \A t, u \in Threads : t = u

\* A payment that was executed belongs to an approval that is not open any more, and
\* never again; the request under way knows what the repository holds.
Serial ==
    /\ \A a \in ApprovalIds :
         /\ executions[a] <= 1
         /\ executions[a] > 0 => approvals[a].status \notin {"absent", "pending"}
    /\ \A t \in Threads :
         /\ pc[t] = "review" => approvals[id[t]].status = "pending"
         /\ pc[t] = "save" => copy[t] = approvals[id[t]]
         /\ pc[t] = "execute" => approvals[id[t]].status = "approved" /\ executions[id[t]] = 0

\* What a step may not do to a closed approval.
ClosedStays(a) ==
    /\ approvals[a].status \in {"rejected", "expired", "gone"} => executions'[a] = executions[a]
    /\ approvals[a].status \in Closed => approvals'[a].status # "pending"

\* A step that leaves the repository and the executions alone, and that brings its
\* request nowhere it has to know what the repository holds.
LEMMA SerialKept ==
    ASSUME OneAtATime, Serial, NEW t \in Threads, UNCHANGED <<approvals, executions>>,
           pc'[t] \notin {"review", "save", "execute"}
    PROVE  Serial' /\ \A a \in ApprovalIds : ClosedStays(a)
<1>1. \A u \in Threads : u = t
  BY DEF OneAtATime
<1>2. \A a \in ApprovalIds : ClosedStays(a)
  BY DEF ClosedStays, Closed
<1>. QED
  BY <1>1, <1>2 DEF Serial

\* So does every step of the only request, of the clock, and a restart.
LEMMA SerialStep ==
    ASSUME OneAtATime, IInv, Serial, [Next]_vars
    PROVE  Serial' /\ \A a \in ApprovalIds : ClosedStays(a)
<1>. DEFINE Goal == Serial' /\ \A a \in ApprovalIds : ClosedStays(a)
<1>0. TypeOK /\ TypeOK'
  BY TypeStep DEF IInv
<1>f. ASSUME NEW t \in Threads, Finish(t)
      PROVE  \A u \in Threads : pc'[u] = "idle"
  BY <1>0, <1>f DEF OneAtATime, Finish, Goto, TypeOK
<1>1. ASSUME NEW a \in ApprovalIds, Create(a)
      PROVE  Goal
  <2>1. /\ approvals[a].status = "absent" /\ approvals'[a].status = "pending"
        /\ \A b \in ApprovalIds \ {a} : approvals'[b] = approvals[b]
        /\ UNCHANGED <<pc, id, copy, executions>>
    BY <1>0, <1>1 DEF Create, Absent, NewApproval, TypeOK, local
  <2>2. executions[a] \in Nat
    BY <1>0, ApprovalConstants DEF TypeOK
  <2>3. \A t \in Threads : pc[t] \in {"review", "save", "execute"} => id[t] \in ApprovalIds \ {a}
    <3>. SUFFICES ASSUME NEW t \in Threads, pc[t] \in {"review", "save", "execute"}
                  PROVE  id[t] \in ApprovalIds /\ approvals[id[t]].status # "absent"
      BY <2>1
    <3>1. pc[t] = "save" => copy[t].status = "pending"
      BY DEF IInv, CopyAsked
    <3>. QED
      BY <1>0, <3>1 DEF Serial, TypeOK
  <2>4. executions[a] = 0
    BY <2>1, <2>2 DEF Serial
  <2>5. Serial'
    BY <2>1, <2>2, <2>3, <2>4 DEF Serial
  <2>. QED
    BY <2>1, <2>5 DEF ClosedStays, Closed
<1>2. ASSUME NEW a \in ApprovalIds, TimePasses(a)
      PROVE  Goal
  BY <1>2 DEF TimePasses, local, Serial, ClosedStays, Closed
<1>3. ASSUME NEW t \in Threads,
             \/ StartSweep(t)
             \/ \E a \in ApprovalIds :
                  StartReject(t, a) \/ \E o \in Operators : StartApprove(t, a, o)
      PROVE  Goal
  <2>1. pc'[t] \in {"get", "reject", "list"} /\ UNCHANGED <<approvals, executions>>
    BY <1>0, <1>3 DEF StartReject, StartApprove, StartSweep, Start, Goto, TypeOK
  <2>. QED
    BY <2>1, SerialKept
<1>4. ASSUME NEW t \in Threads, Get(t)
      PROVE  Goal
  <2>1. UNCHANGED <<approvals, executions>>
    BY <1>4 DEF Get
  <2>2. CASE pc'[t] \in {"list", "idle"}
    BY <2>1, <2>2, SerialKept
  <2>3. CASE ~(pc'[t] \in {"list", "idle"})
    <3>1. IsOpen(id[t], approvals[id[t]]) /\ pc'[t] = "review" /\ id' = id
      BY <1>0, <1>4, <1>f, <2>3 DEF Get, Goto, TypeOK
    <3>2. \A u \in Threads : u = t
      BY DEF OneAtATime
    <3>3. Serial'
      BY <2>1, <3>1, <3>2 DEF Serial, IsOpen
    <3>. QED
      BY <2>1, <3>3 DEF ClosedStays, Closed
  <2>. QED
    BY <2>2, <2>3
<1>5. ASSUME NEW t \in Threads, Review(t)
      PROVE  Goal
  <2>1. UNCHANGED <<approvals, executions>>
    BY <1>5 DEF Review
  <2>2. CASE pc'[t] \in {"load", "idle"}
    BY <2>1, <2>2, SerialKept
  <2>3. CASE ~(pc'[t] \in {"load", "idle"})
    <3>1. copy'[t] = approvals[id[t]] /\ pc'[t] = "save" /\ id' = id
      BY <1>0, <1>5, <1>f, <2>3 DEF Review, Goto, TypeOK
    <3>2. \A u \in Threads : u = t
      BY DEF OneAtATime
    <3>3. Serial'
      BY <2>1, <3>1, <3>2 DEF Serial
    <3>. QED
      BY <2>1, <3>3 DEF ClosedStays, Closed
  <2>. QED
    BY <2>2, <2>3
<1>6. ASSUME NEW t \in Threads, SaveReview(t)
      PROVE  Goal
  <2>1. PICK a, reviewed :
          a \in ApprovalIds /\ a = id[t] /\ reviewed = Reviewed(a, copy[t], operator[t])
    BY <1>0, <1>6 DEF SaveReview, TypeOK
  <2>2. /\ copy[t] = approvals[a] /\ approvals[a].status = "pending"
        /\ copy[t] \in Approval /\ IsFiniteSet(copy[t].reviewers)
    BY <1>0, <1>6, <2>1 DEF SaveReview, Serial, IInv, CopyAsked, TypeOK
  <2>3. reviewed.status \in {"pending", "approved"}
    BY <2>1, <2>2, ReviewCounts
  <2>4. /\ approvals'[a] = reviewed /\ \A b \in ApprovalIds \ {a} : approvals'[b] = approvals[b]
        /\ UNCHANGED executions
    BY <1>0, <1>6, <2>1 DEF SaveReview, TypeOK
  <2>5. executions[a] \in Nat /\ executions[a] = 0
    BY <1>0, <2>1, <2>2, ApprovalConstants DEF TypeOK, Serial
  <2>6. pc'[t] = "idle" \/ (pc'[t] = "execute" /\ id'[t] = a /\ reviewed.status = "approved")
    BY <1>0, <1>6, <1>f, <2>1 DEF SaveReview, Goto, TypeOK
  <2>7. \A u \in Threads : u = t
    BY DEF OneAtATime
  <2>8. Serial'
    BY <2>4, <2>5, <2>6, <2>7 DEF Serial
  <2>. QED
    BY <2>2, <2>4, <2>8 DEF ClosedStays, Closed
<1>7. ASSUME NEW t \in Threads, Execute(t)
      PROVE  Goal
  <2>. DEFINE a == id[t]
  <2>1. a \in ApprovalIds /\ approvals[a].status = "approved" /\ executions[a] = 0
    BY <1>0, <1>7 DEF Execute, TypeOK, Serial
  <2>2. /\ executions'[a] \in {0, 1} /\ \A b \in ApprovalIds \ {a} : executions'[b] = executions[b]
        /\ UNCHANGED approvals
    BY <1>0, <1>7, <2>1 DEF Execute, TypeOK
  <2>3. \A u \in Threads : pc'[u] = "idle"
    BY <1>7, <1>f DEF Execute
  <2>4. Serial'
    BY <2>1, <2>2, <2>3 DEF Serial
  <2>. QED
    BY <2>1, <2>2, <2>4 DEF ClosedStays, Closed
<1>8. ASSUME NEW t \in Threads, Reject(t) \/ Load(t) \/ List(t) \/ Walk(t)
      PROVE  Goal
  <2>1. UNCHANGED <<approvals, executions>>
    BY <1>8 DEF Reject, Load, List, Walk
  <2>2. pc'[t] \in {"idle", "load", "write", "walk"}
    BY <1>0, <1>8, <1>f DEF Reject, Load, List, Walk, Goto, TypeOK
  <2>. QED
    BY <2>1, <2>2, SerialKept
<1>9. ASSUME NEW t \in Threads, Write(t)
       PROVE  Goal
  <2>. DEFINE a == id[t]
  <2>1. /\ a \in ApprovalIds /\ approvals'[a].status \in {"rejected", "expired"}
        /\ \A b \in ApprovalIds \ {a} : approvals'[b] = approvals[b]
        /\ UNCHANGED executions
    <3>1. a \in ApprovalIds /\ copy[t] \in Approval /\ to[t] \in {"rejected", "expired"}
      BY <1>0, <1>9 DEF Write, TypeOK
    <3>2. [copy[t] EXCEPT !.status = to[t]].status = to[t]
      BY <3>1 DEF Approval
    <3>. QED
      BY <1>0, <1>9, <3>1, <3>2 DEF Write, TypeOK
  <2>2. pc'[t] \in {"idle", "walk"}
    BY <1>0, <1>9, <1>f DEF Write, Goto, TypeOK
  <2>3. \A u \in Threads : u = t
    BY DEF OneAtATime
  <2>4. Serial'
    BY <2>1, <2>2, <2>3 DEF Serial
  <2>. QED
    BY <2>1, <2>4 DEF ClosedStays, Closed
<1>10. CASE Restart
  <2>1. /\ \A t \in Threads : pc'[t] = "idle"
        /\ \A a \in ApprovalIds : approvals'[a] = IF approvals[a] = Absent THEN Absent ELSE Gone
        /\ UNCHANGED executions
    BY <1>10 DEF Restart
  <2>2. \A a \in ApprovalIds : approvals'[a].status \in {"absent", "gone"}
    BY <2>1 DEF Absent, Gone
  <2>3. \A a \in ApprovalIds : executions[a] > 0 => approvals'[a].status = "gone"
    BY <2>1 DEF Serial, Absent, Gone
  <2>. QED
    BY <2>1, <2>2, <2>3 DEF Serial, ClosedStays
<1>11. CASE UNCHANGED vars
  BY <1>11 DEF vars, Serial, ClosedStays, Closed
<1>. QED
  BY <1>1, <1>2, <1>3, <1>4, <1>5, <1>6, <1>7, <1>8, <1>9, <1>10, <1>11 DEF Next, Handle

\* So it holds in every reachable state of a server with one request at a time.
LEMMA SerialInvariant == OneAtATime => (Spec => []Serial)
<1>. SUFFICES ASSUME OneAtATime
              PROVE  Spec => []Serial
  OBVIOUS
<1>1. Init => Serial
  BY DEF Init, Serial
<1>2. IInv /\ Serial /\ [Next]_vars => Serial'
  BY SerialStep
<1>. QED
  BY <1>1, <1>2, Invariance, PTL DEF Spec

\* One request at a time: however an approval is approved, rejected and swept, its
\* payment is executed at most once, for every number of approvals and of required
\* reviewers (app/approvals/service.py:117-123).
THEOREM OnceIfSerial == OneAtATime => (Spec => []ExecutedOnce)
<1>1. Serial => ExecutedOnce
  BY DEF Serial, ExecutedOnce
<1>. QED
  BY <1>1, SerialInvariant, PTL

\* One request at a time: what is rejected, expired or forgotten executes nothing any
\* more, and what is closed does not open again (app/approvals/service.py:125-192).
THEOREM ClosedIfSerial == OneAtATime => (Spec => ClosedForGood)
<1>. SUFFICES ASSUME OneAtATime
              PROVE  Spec => ClosedForGood
  OBVIOUS
<1>1. IInv /\ Serial /\ [Next]_vars =>
        [\A a \in ApprovalIds :
           /\ approvals[a].status \in {"rejected", "expired", "gone"} =>
                executions'[a] = executions[a]
           /\ approvals[a].status \in Closed => approvals'[a].status # "pending"]_vars
  BY SerialStep DEF ClosedStays
<1>. QED
  BY <1>1, Invariance, SerialInvariant, PTL DEF Spec, ClosedForGood

=============================================================================
