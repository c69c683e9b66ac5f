--------------------------- MODULE Callbacks_proofs ---------------------------
(***************************************************************************)
(* Proofs about Callbacks, for every set of threads, payments and payloads  *)
(* and in every storage and replay mode: type correctness and the safety   *)
(* invariants that hold when callbacks are processed concurrently.          *)
(***************************************************************************)
EXTENDS Callbacks, TLAPS

\* A transition that is allowed starts in pending and ends in a terminal status.
LEMMA TransitionFromPending ==
    ASSUME NEW from, NEW to, CanTransition(from, to)
    PROVE  from = "pending" /\ to \in TerminalStatuses
BY DEF CanTransition, AllowedTransitions, Statuses, TerminalStatuses

\* What a callback asks for is a terminal status.
LEMMA ResultIsTerminal ==
    ASSUME NEW p
    PROVE  ResultStatus(p) \in TerminalStatuses
BY DEF ResultStatus, TerminalStatuses

\* The row that a callback leaves is well-formed.
LEMMA SettledRowType ==
    ASSUME NEW p \in Payloads, NEW current \in Row
    PROVE  SettledRow(p, current) \in Row
<1>1. ResultStatus(p) \in Statuses
  BY ResultIsTerminal DEF Statuses
<1>2. p.code \in Int \cup {None} /\ p.receipt \in Receipts
  BY CallbackConstants DEF Payload, Receipts
<1>3. current.receipt \in Receipts
  BY DEF Row
<1>. QED
  BY <1>1, <1>2, <1>3 DEF SettledRow, Row

-----------------------------------------------------------------------------
\* Before the first request the stores are empty and every thread is idle.
LEMMA TypeInit == Init => TypeOK
BY DEF Init, TypeOK, NoRow, Row, Receipts, ReplayKeys, Labels

\* Every step of every request keeps the stores and the threads' local state well-formed.
LEMMA TypeStep == TypeOK /\ [Next]_vars => TypeOK'
<1>. SUFFICES ASSUME TypeOK, [Next]_vars
              PROVE  TypeOK'
  OBVIOUS
<1>. USE DEF TypeOK
<1>f. ASSUME NEW t \in Threads, Finish(t)
      PROVE  /\ pc' \in [Threads -> Labels]
             /\ req' \in [Threads -> Payloads \cup {None}]
             /\ \A u \in Threads : pc'[u] # "idle" => req'[u] \in Payloads
  BY <1>f DEF Finish, Labels
<1>g. ASSUME NEW t \in Threads, NEW label \in Labels, pc[t] # "idle", Goto(t, label)
      PROVE  /\ pc' \in [Threads -> Labels]
             /\ req' \in [Threads -> Payloads \cup {None}]
             /\ \A u \in Threads : pc'[u] # "idle" => req'[u] \in Payloads
  BY <1>g DEF Goto
<1>k. ASSUME NEW t \in Threads, pc[t] # "idle"
      PROVE  ReplayKey(req[t]) \in ReplayKeys
  BY <1>k DEF ReplayKeys
<1>1. ASSUME NEW c \in Checkouts, SavePending(c)
      PROVE  TypeOK'
  <2>1. PendingRow \in Row
    BY DEF PendingRow, Row, Statuses, Receipts
  <2>. QED
    BY <1>1, <2>1 DEF SavePending, config, history
<1>2. ASSUME NEW t \in Threads, NEW p \in Payloads, Receive(t, p)
      PROVE  TypeOK'
  BY <1>2 DEF Receive, config, Labels
<1>3. ASSUME NEW t \in Threads, RejectDuplicate(t)
      PROVE  TypeOK'
  BY <1>3, <1>f DEF RejectDuplicate, config, history
<1>4. ASSUME NEW t \in Threads, Admit(t)
      PROVE  TypeOK'
  BY <1>4, <1>g, <1>k DEF Admit, AdmitNew, SetIfNew, SkipReplay, config, history, Labels
<1>5. ASSUME NEW t \in Threads, StoreKey(t)
      PROVE  TypeOK'
  BY <1>5, <1>g, <1>k DEF StoreKey, config, history, Labels
<1>6. ASSUME NEW t \in Threads, Process(t)
      PROVE  TypeOK'
  BY <1>6, <1>f, <1>g DEF Process, config, history, Labels
<1>7. ASSUME NEW t \in Threads, LoadForUpdate(t)
      PROVE  TypeOK'
  BY <1>7, <1>f, <1>g DEF LoadForUpdate, config, history, Labels
<1>8. ASSUME NEW t \in Threads, Store(t)
      PROVE  /\ pc[t] # "idle"
             /\ UNCHANGED <<storage, replay, recorded, seen, accepted>>
             /\ rows' \in [Checkouts -> Row]
             /\ writers' \in [Checkouts -> SUBSET Threads]
  <2>1. req[t] \in Payloads /\ req[t].checkout \in Checkouts
    BY <1>8, CallbackConstants DEF Store, Payload
  <2>2. SettledRow(req[t], rows[req[t].checkout]) \in Row
    BY <2>1, SettledRowType
  <2>. QED
    BY <1>8, <2>1, <2>2 DEF Store, config
<1>9. ASSUME NEW t \in Threads, WriteStatus(t)
      PROVE  TypeOK'
  BY <1>8, <1>9, <1>g DEF WriteStatus, Labels
<1>10. ASSUME NEW t \in Threads, AuditProcessed(t)
       PROVE  TypeOK'
  BY <1>10, <1>f DEF AuditProcessed, config
<1>11. ASSUME NEW t \in Threads, PruneFails(t) \/ ReplayUnavailable(t)
       PROVE  TypeOK'
  BY <1>11, <1>f, <1>k DEF PruneFails, ReplayUnavailable, config, history
<1>12. ASSUME NEW t \in Threads, StorageUnavailable(t) \/ AuditFails(t)
       PROVE  TypeOK'
  BY <1>12, <1>f DEF StorageUnavailable, AuditFails, config, history
<1>13. ASSUME NEW t \in Threads, CommitUnconfirmed(t)
       PROVE  TypeOK'
  BY <1>8, <1>13, <1>f DEF CommitUnconfirmed
<1>14. ASSUME NEW k \in ReplayKeys, ExpireKey(k)
       PROVE  TypeOK'
  BY <1>14 DEF ExpireKey, config, history
<1>15. CASE Restart
  BY <1>15 DEF Restart, config, NoRow, Row, Receipts, Labels
<1>16. CASE UNCHANGED vars
  BY <1>16 DEF vars
<1>. QED
  BY <1>1, <1>2, <1>3, <1>4, <1>5, <1>6, <1>7, <1>9, <1>10, <1>11, <1>12, <1>13, <1>14,
     <1>15, <1>16 DEF Next, Handle, Fault

\* Type correctness of the callback pipeline.
THEOREM TypeCorrect == Spec => []TypeOK
BY TypeInit, TypeStep, PTL DEF Spec

-----------------------------------------------------------------------------
\* A request that has passed the handler's checks reports the result of a recorded
\* payment.
CheckedReports ==
    \A t \in Threads :
        /\ pc[t] # "idle" => req[t].trusted
        /\ pc[t] \in {"update", "write"} =>
             Reports(req[t], req[t].checkout) /\ req[t].checkout \in recorded

\* Only payments that were recorded are stored.
StoredIsRecorded == \A c \in Checkouts : rows[c].status # "absent" => c \in recorded

\* A payment that some thread has settled is settled.
WrittenIsSettled == \A c \in Checkouts : writers[c] # {} => rows[c].status \in TerminalStatuses

\* A request whose update was written has left its payment settled.
AuditedIsSettled ==
    \A t \in Threads : pc[t] = "audit" => rows[req[t].checkout].status \in TerminalStatuses

\* The inductive invariant.
IInv ==
    /\ TypeOK
    /\ CheckedReports
    /\ StoredIsRecorded
    /\ WrittenIsSettled
    /\ AuditedIsSettled
    /\ SettledIsBackedByCallback
    /\ LateCallbackRefused
    /\ AcceptedIsSettled
    /\ MemoryRowIsOneCallback

\* Rows that stay, or are only added as pending, keep every fact about settled payments.
LEMMA RowsKept ==
    ASSUME IInv, UNCHANGED <<storage, accepted, writers>>,
           \A c \in Checkouts :
               \/ rows'[c] = rows[c]
               \/ rows[c].status = "absent" /\ rows'[c].status = "pending"
    PROVE  /\ SettledIsBackedByCallback'
           /\ WrittenIsSettled'
           /\ AcceptedIsSettled'
           /\ MemoryRowIsOneCallback'
<1>1. \A c \in Checkouts : rows'[c].status \in TerminalStatuses => rows'[c] = rows[c]
  BY DEF TerminalStatuses
<1>2. \A c \in Checkouts : rows[c].status \in TerminalStatuses => rows'[c] = rows[c]
  BY DEF TerminalStatuses
<1>3. SettledIsBackedByCallback'
  BY <1>1 DEF IInv, SettledIsBackedByCallback
<1>4. WrittenIsSettled'
  BY <1>2 DEF IInv, WrittenIsSettled
<1>5. AcceptedIsSettled'
  <2>1. \A p \in accepted : p.checkout \in Checkouts
    BY CallbackConstants DEF IInv, TypeOK, Payload
  <2>. QED
    BY <1>2, <2>1 DEF IInv, AcceptedIsSettled
<1>6. MemoryRowIsOneCallback'
  <2>. SUFFICES ASSUME storage = "memory", NEW c \in Checkouts, rows'[c].status \in TerminalStatuses
                PROVE  (\E p \in Payloads : Reports(p, c) /\ rows[c] = SettledRow(p, PendingRow))'
    BY DEF MemoryRowIsOneCallback
  <2>1. PICK p \in Payloads : Reports(p, c) /\ rows[c] = SettledRow(p, PendingRow)
    BY <1>1 DEF IInv, MemoryRowIsOneCallback
  <2>. QED
    BY <1>1, <2>1 DEF SettledRow
<1>. QED
  BY <1>3, <1>4, <1>5, <1>6

\* Writing the result of a checked request keeps them too.
LEMMA RowSettled ==
    ASSUME IInv, NEW t \in Threads, Store(t)
    PROVE  /\ rows'[req[t].checkout].status \in TerminalStatuses
           /\ \A c \in Checkouts : rows[c].status \in TerminalStatuses
                                    => rows'[c].status \in TerminalStatuses
           /\ StoredIsRecorded'
           /\ WrittenIsSettled'
           /\ SettledIsBackedByCallback'
           /\ AcceptedIsSettled'
           /\ MemoryRowIsOneCallback'
<1>0. PICK p \in Payloads, d \in Checkouts : p = req[t] /\ d = p.checkout
  BY CallbackConstants DEF IInv, TypeOK, Store, Payload
<1>1. Reports(p, d) /\ d \in recorded
  BY <1>0 DEF IInv, CheckedReports, Store
<1>2. /\ rows' = [rows EXCEPT ![d] = SettledRow(p, rows[d])]
      /\ writers' = [writers EXCEPT ![d] = @ \cup {t}]
      /\ UNCHANGED <<storage, recorded, accepted>>
  BY <1>0 DEF Store, config
<1>3. rows \in [Checkouts -> Row] /\ writers \in [Checkouts -> SUBSET Threads]
  BY DEF IInv, TypeOK
<1>4. rows'[d] = SettledRow(p, rows[d]) /\ \A c \in Checkouts \ {d} : rows'[c] = rows[c]
  BY <1>1, <1>2, <1>3
<1>5. rows'[d].status = ResultStatus(p) /\ rows'[d].code = p.code
  BY <1>4 DEF SettledRow
<1>6. rows'[d].status \in TerminalStatuses
  BY <1>5, ResultIsTerminal
<1>7. \A c \in Checkouts : rows[c].status \in TerminalStatuses => rows'[c].status \in TerminalStatuses
  BY <1>4, <1>6
<1>8. StoredIsRecorded'
  BY <1>1, <1>2, <1>4 DEF IInv, StoredIsRecorded
<1>9. WrittenIsSettled'
  <2>. SUFFICES ASSUME NEW c \in Checkouts, writers'[c] # {}
                PROVE  rows'[c].status \in TerminalStatuses
    BY DEF WrittenIsSettled
  <2>1. CASE c = d
    BY <2>1, <1>6
  <2>2. CASE c # d
    BY <2>2, <1>2, <1>3, <1>7 DEF IInv, WrittenIsSettled
  <2>. QED
    BY <2>1, <2>2
<1>10. SettledIsBackedByCallback'
  <2>. SUFFICES ASSUME NEW c \in Checkouts, rows'[c].status \in TerminalStatuses
                PROVE  \E q \in Payloads :
                         /\ Reports(q, c)
                         /\ rows'[c].status = ResultStatus(q)
                         /\ rows'[c].code = q.code
                         /\ rows'[c].status = "completed" => rows'[c].receipt = q.receipt
    BY DEF SettledIsBackedByCallback
  <2>1. CASE c = d
    <3>1. rows'[d].status = "completed" => rows'[d].receipt = p.receipt
      <4>. SUFFICES ASSUME rows'[d].status = "completed"
                    PROVE  rows'[d].receipt = p.receipt
        OBVIOUS
      <4>1. p.code = 0
        BY <1>5 DEF ResultStatus
      <4>2. p.receipt # None
        BY <4>1, <1>1 DEF Reports, HasSuccessMetadata
      <4>. QED
        BY <4>2, <1>4 DEF SettledRow
    <3>. QED
      BY <2>1, <3>1, <1>1, <1>5
  <2>2. CASE c # d
    BY <2>2, <1>4 DEF IInv, SettledIsBackedByCallback
  <2>. QED
    BY <2>1, <2>2
<1>11. AcceptedIsSettled'
  <2>1. \A q \in accepted : q.checkout \in Checkouts
    BY CallbackConstants DEF IInv, TypeOK, Payload
  <2>. QED
    BY <1>2, <1>7, <2>1 DEF IInv, AcceptedIsSettled
<1>12. MemoryRowIsOneCallback'
  <2>. SUFFICES ASSUME storage = "memory", NEW c \in Checkouts,
                       rows'[c].status \in TerminalStatuses
                PROVE  (\E q \in Payloads :
                          Reports(q, c) /\ rows[c] = SettledRow(q, PendingRow))'
    BY <1>2 DEF MemoryRowIsOneCallback
  <2>1. CASE c = d
    <3>1. rows'[d] = SettledRow(p, PendingRow)'
      BY <1>2, <1>4 DEF SettledRow
    <3>. QED
      BY <2>1, <3>1, <1>1
  <2>2. CASE c # d
    <3>1. PICK q \in Payloads : Reports(q, c) /\ rows[c] = SettledRow(q, PendingRow)
      BY <2>2, <1>4 DEF IInv, MemoryRowIsOneCallback
    <3>2. rows'[c] = SettledRow(q, PendingRow)'
      BY <2>2, <3>1, <1>2, <1>4 DEF SettledRow
    <3>. QED
      BY <3>1, <3>2
  <2>. QED
    BY <2>1, <2>2
<1>. QED
  BY <1>0, <1>6, <1>7, <1>8, <1>9, <1>10, <1>11, <1>12

\* The thread-local part of the invariant and LateCallbackRefused, for a step of one
\* thread t that leaves the rows alone and goes on to a label other than "audit".
LEMMA ThreadMoves ==
    ASSUME IInv, TypeOK', NEW t \in Threads,
           UNCHANGED <<storage, rows, recorded, writers>>,
           \A u \in Threads \ {t} : pc'[u] = pc[u] /\ req'[u] = req[u],
           pc'[t] # "idle" => req'[t].trusted,
           pc'[t] \in {"update", "write"} =>
               /\ Reports(req'[t], req'[t].checkout)
               /\ req'[t].checkout \in recorded
               /\ t \notin writers[req'[t].checkout],
           pc'[t] # "audit"
    PROVE  CheckedReports' /\ StoredIsRecorded' /\ AuditedIsSettled' /\ LateCallbackRefused'
<1>1. CheckedReports'
  BY DEF IInv, CheckedReports, Reports, HasSuccessMetadata
<1>2. StoredIsRecorded'
  BY DEF IInv, StoredIsRecorded
<1>3. AuditedIsSettled'
  BY DEF IInv, AuditedIsSettled
<1>4. LateCallbackRefused'
  BY DEF IInv, LateCallbackRefused
<1>. QED
  BY <1>1, <1>2, <1>3, <1>4

\* A request that is answered without touching a row keeps the invariant.
LEMMA Answered ==
    ASSUME IInv, TypeOK', NEW t \in Threads, Finish(t),
           UNCHANGED <<storage, rows, recorded, accepted, writers>>
    PROVE  IInv'
<1>1. CheckedReports' /\ StoredIsRecorded' /\ AuditedIsSettled' /\ LateCallbackRefused'
  BY ThreadMoves DEF Finish, IInv, TypeOK
<1>2. SettledIsBackedByCallback' /\ WrittenIsSettled' /\ AcceptedIsSettled' /\ MemoryRowIsOneCallback'
  BY RowsKept
<1>. QED
  BY <1>1, <1>2 DEF IInv

\* A request that goes on to a step before the update keeps it too.
LEMMA Advances ==
    ASSUME IInv, TypeOK', NEW t \in Threads, NEW label \in {"store", "find"},
           pc[t] # "idle", Goto(t, label),
           UNCHANGED <<storage, rows, recorded, accepted, writers>>
    PROVE  IInv'
<1>1. CheckedReports' /\ StoredIsRecorded' /\ AuditedIsSettled' /\ LateCallbackRefused'
  BY ThreadMoves DEF Goto, IInv, TypeOK, CheckedReports
<1>2. SettledIsBackedByCallback' /\ WrittenIsSettled' /\ AcceptedIsSettled' /\ MemoryRowIsOneCallback'
  BY RowsKept
<1>. QED
  BY <1>1, <1>2 DEF IInv

\* In the initial state no payment is stored and no request is under way.
LEMMA InvInit == Init => IInv
<1>. SUFFICES ASSUME Init
              PROVE  IInv
  OBVIOUS
<1>1. TypeOK
  BY TypeInit
<1>2. CheckedReports /\ AuditedIsSettled /\ LateCallbackRefused
  BY DEF Init, CheckedReports, AuditedIsSettled, LateCallbackRefused
<1>3. StoredIsRecorded /\ WrittenIsSettled /\ SettledIsBackedByCallback
      /\ AcceptedIsSettled /\ MemoryRowIsOneCallback
  BY DEF Init, NoRow, StoredIsRecorded, WrittenIsSettled, SettledIsBackedByCallback,
         AcceptedIsSettled, MemoryRowIsOneCallback, TerminalStatuses
<1>. QED
  BY <1>1, <1>2, <1>3 DEF IInv

\* A request that passes the handler's checks reports the result of a payment that is
\* stored, pending, and that nobody has settled.
LEMMA ChecksPassed ==
    ASSUME IInv, NEW t \in Threads, pc[t] # "idle",
           ~Refuses(req[t], rows[req[t].checkout])
    PROVE  /\ Reports(req[t], req[t].checkout)
           /\ req[t].checkout \in recorded
           /\ writers[req[t].checkout] = {}
<1>0. PICK p \in Payloads, c \in Checkouts : p = req[t] /\ c = p.checkout
  BY CallbackConstants DEF IInv, TypeOK, Payload
<1>1. rows[c].status = "pending"
  BY <1>0, TransitionFromPending DEF Refuses
<1>2. c \in recorded
  BY <1>1 DEF IInv, StoredIsRecorded
<1>3. writers[c] = {}
  BY <1>1 DEF IInv, WrittenIsSettled, TerminalStatuses
<1>4. p.trusted
  BY <1>0 DEF IInv, CheckedReports
<1>5. Reports(p, c)
  BY <1>0, <1>4 DEF Refuses, Reports
<1>. QED
  BY <1>0, <1>2, <1>3, <1>5

\* Every step of every request, a fault and a restart keep the inductive invariant.
LEMMA InvStep == IInv /\ [Next]_vars => IInv'
<1>. SUFFICES ASSUME IInv, [Next]_vars
              PROVE  IInv'
  OBVIOUS
<1>t. TypeOK'
  BY TypeStep DEF IInv
<1>1. ASSUME NEW c \in Checkouts, SavePending(c)
      PROVE  IInv'
  <2>1. rows[c].status = "absent"
    BY <1>1 DEF SavePending, IInv, StoredIsRecorded
  <2>2. rows'[c] = PendingRow /\ \A d \in Checkouts \ {c} : rows'[d] = rows[d]
    BY <1>1 DEF SavePending, IInv, TypeOK
  <2>3. SettledIsBackedByCallback' /\ WrittenIsSettled' /\ AcceptedIsSettled' /\ MemoryRowIsOneCallback'
    BY <1>1, <2>1, <2>2, RowsKept DEF SavePending, config, history, PendingRow
  <2>4. CheckedReports' /\ LateCallbackRefused'
    BY <1>1 DEF SavePending, history, IInv, CheckedReports, LateCallbackRefused
  <2>5. StoredIsRecorded'
    BY <1>1, <2>2 DEF SavePending, IInv, StoredIsRecorded
  <2>6. AuditedIsSettled'
    <3>. SUFFICES ASSUME NEW t \in Threads, pc'[t] = "audit"
                  PROVE  rows'[req'[t].checkout].status \in TerminalStatuses
      BY DEF AuditedIsSettled
    <3>1. pc[t] = "audit" /\ req'[t] = req[t]
      BY <1>1 DEF SavePending
    <3>2. req[t].checkout \in Checkouts
      BY <3>1, CallbackConstants DEF IInv, TypeOK, Payload
    <3>3. rows[req[t].checkout].status \in TerminalStatuses
      BY <3>1 DEF IInv, AuditedIsSettled
    <3>4. req[t].checkout # c
      BY <2>1, <3>3 DEF TerminalStatuses
    <3>. QED
      BY <2>2, <3>1, <3>2, <3>3, <3>4
  <2>. QED
    BY <1>t, <2>3, <2>4, <2>5, <2>6 DEF IInv
<1>2. ASSUME NEW t \in Threads, NEW p \in Payloads, Receive(t, p)
      PROVE  IInv'
  <2>1. CheckedReports' /\ StoredIsRecorded' /\ AuditedIsSettled' /\ LateCallbackRefused'
    BY <1>2, <1>t, ThreadMoves DEF Receive, config, IInv, TypeOK
  <2>2. SettledIsBackedByCallback' /\ WrittenIsSettled' /\ AcceptedIsSettled' /\ MemoryRowIsOneCallback'
    BY <1>2, RowsKept DEF Receive, config
  <2>. QED
    BY <1>t, <2>1, <2>2 DEF IInv
<1>3. ASSUME NEW t \in Threads,
             \/ RejectDuplicate(t) \/ PruneFails(t) \/ ReplayUnavailable(t)
             \/ StorageUnavailable(t) \/ AuditFails(t)
      PROVE  IInv'
  BY <1>3, <1>t, Answered
     DEF RejectDuplicate, PruneFails, ReplayUnavailable, StorageUnavailable, AuditFails,
         config, history
<1>4. ASSUME NEW t \in Threads, Admit(t) \/ StoreKey(t)
      PROVE  IInv'
  BY <1>4, <1>t, Advances DEF Admit, AdmitNew, SetIfNew, SkipReplay, StoreKey, config, history
<1>5. ASSUME NEW t \in Threads, Process(t)
      PROVE  IInv'
  <2>1. CASE Finish(t)
    BY <1>5, <1>t, <2>1, Answered DEF Process, config, history
  <2>2. CASE ~Refuses(req[t], rows[req[t].checkout]) /\ Goto(t, "update")
    <3>1. CheckedReports' /\ StoredIsRecorded' /\ AuditedIsSettled' /\ LateCallbackRefused'
      <4>1. pc[t] = "find" /\ req' = req /\ pc' = [pc EXCEPT ![t] = "update"]
        BY <1>5, <2>2 DEF Process, Goto
      <4>2. /\ Reports(req[t], req[t].checkout)
            /\ req[t].checkout \in recorded
            /\ t \notin writers[req[t].checkout]
        BY <2>2, <4>1, ChecksPassed
      <4>. QED
        BY <1>5, <1>t, <4>1, <4>2, ThreadMoves
           DEF Process, config, history, IInv, TypeOK, CheckedReports
    <3>2. SettledIsBackedByCallback' /\ WrittenIsSettled' /\ AcceptedIsSettled' /\ MemoryRowIsOneCallback'
      BY <1>5, RowsKept DEF Process, config, history
    <3>. QED
      BY <1>t, <3>1, <3>2 DEF IInv
  <2>. QED
    BY <1>5, <2>1, <2>2 DEF Process
<1>6. ASSUME NEW t \in Threads, LoadForUpdate(t)
      PROVE  IInv'
  <2>1. CASE Finish(t)
    BY <1>6, <1>t, <2>1, Answered DEF LoadForUpdate, config, history
  <2>2. CASE Goto(t, "write")
    <3>1. CheckedReports' /\ StoredIsRecorded' /\ AuditedIsSettled' /\ LateCallbackRefused'
      <4>1. pc[t] = "update" /\ req' = req /\ pc' = [pc EXCEPT ![t] = "write"]
        BY <1>6, <2>2 DEF LoadForUpdate, Goto
      <4>2. /\ Reports(req[t], req[t].checkout)
            /\ req[t].checkout \in recorded
            /\ t \notin writers[req[t].checkout]
        BY <4>1 DEF IInv, CheckedReports, LateCallbackRefused
      <4>. QED
        BY <1>6, <1>t, <4>1, <4>2, ThreadMoves
           DEF LoadForUpdate, config, history, IInv, TypeOK, CheckedReports
    <3>2. SettledIsBackedByCallback' /\ WrittenIsSettled' /\ AcceptedIsSettled' /\ MemoryRowIsOneCallback'
      BY <1>6, RowsKept DEF LoadForUpdate, config, history
    <3>. QED
      BY <1>t, <3>1, <3>2 DEF IInv
  <2>. QED
    BY <1>6, <2>1, <2>2 DEF LoadForUpdate
<1>7. ASSUME NEW t \in Threads, WriteStatus(t) \/ CommitUnconfirmed(t)
      PROVE  IInv'
  <2>1. Store(t) /\ (Goto(t, "audit") \/ Finish(t))
    BY <1>7 DEF WriteStatus, CommitUnconfirmed
  <2>0. PICK c \in Checkouts : c = req[t].checkout
    BY <2>1, CallbackConstants DEF Store, IInv, TypeOK, Payload
  <2>2. /\ rows'[c].status \in TerminalStatuses
        /\ \A d \in Checkouts : rows[d].status \in TerminalStatuses
                                => rows'[d].status \in TerminalStatuses
        /\ StoredIsRecorded' /\ WrittenIsSettled' /\ SettledIsBackedByCallback'
        /\ AcceptedIsSettled' /\ MemoryRowIsOneCallback'
    BY <2>0, <2>1, RowSettled
  <2>3. /\ \A u \in Threads \ {t} : pc'[u] = pc[u] /\ req'[u] = req[u]
        /\ pc'[t] \in {"audit", "idle"} /\ (pc'[t] = "audit" => req'[t] = req[t])
        /\ pc[t] = "write" /\ recorded' = recorded
        /\ writers' = [writers EXCEPT ![c] = @ \cup {t}]
    BY <2>0, <2>1 DEF Store, Goto, Finish, config, IInv, TypeOK
  <2>4. CheckedReports'
    BY <2>3 DEF IInv, CheckedReports, Reports, HasSuccessMetadata
  <2>5. AuditedIsSettled'
    <3>. SUFFICES ASSUME NEW u \in Threads, pc'[u] = "audit"
                  PROVE  rows'[req'[u].checkout].status \in TerminalStatuses
      BY DEF AuditedIsSettled
    <3>1. CASE u = t
      BY <2>0, <2>2, <2>3, <3>1
    <3>2. CASE u # t
      <4>1. pc[u] = "audit" /\ req'[u] = req[u]
        BY <2>3, <3>2
      <4>2. req[u].checkout \in Checkouts
        BY <4>1, CallbackConstants DEF IInv, TypeOK, Payload
      <4>. QED
        BY <2>2, <4>1, <4>2 DEF IInv, AuditedIsSettled
    <3>. QED
      BY <3>1, <3>2
  <2>6. LateCallbackRefused'
    <3>. SUFFICES ASSUME NEW u \in Threads, pc'[u] \in {"update", "write"}
                  PROVE  u \notin writers'[req'[u].checkout]
      BY DEF LateCallbackRefused
    <3>1. u # t /\ pc[u] \in {"update", "write"} /\ req'[u] = req[u]
      BY <2>3
    <3>2. req[u].checkout \in Checkouts
      BY <3>1, CallbackConstants DEF IInv, TypeOK, Payload
    <3>3. u \notin writers[req[u].checkout]
      BY <3>1 DEF IInv, LateCallbackRefused
    <3>. QED
      BY <2>3, <3>1, <3>2, <3>3 DEF IInv, TypeOK
  <2>. QED
    BY <1>t, <2>2, <2>4, <2>5, <2>6 DEF IInv
<1>8. ASSUME NEW t \in Threads, AuditProcessed(t)
      PROVE  IInv'
  <2>1. CheckedReports' /\ StoredIsRecorded' /\ AuditedIsSettled' /\ LateCallbackRefused'
    BY <1>8, <1>t, ThreadMoves DEF AuditProcessed, Finish, config, IInv, TypeOK
  <2>2. rows[req[t].checkout].status \in TerminalStatuses
    BY <1>8 DEF AuditProcessed, IInv, AuditedIsSettled
  <2>3. AcceptedIsSettled'
    BY <1>8, <2>2 DEF AuditProcessed, IInv, AcceptedIsSettled
  <2>4. SettledIsBackedByCallback' /\ WrittenIsSettled'
    BY <1>8 DEF AuditProcessed, IInv, SettledIsBackedByCallback, WrittenIsSettled
  <2>5. MemoryRowIsOneCallback'
    BY <1>8 DEF AuditProcessed, config, IInv, MemoryRowIsOneCallback, SettledRow
  <2>. QED
    BY <1>t, <2>1, <2>3, <2>4, <2>5 DEF IInv
<1>9. ASSUME NEW k \in ReplayKeys, ExpireKey(k)
      PROVE  IInv'
  <2>1. CheckedReports' /\ StoredIsRecorded' /\ AuditedIsSettled' /\ LateCallbackRefused'
    BY <1>9 DEF ExpireKey, history, IInv, CheckedReports, StoredIsRecorded, AuditedIsSettled,
                LateCallbackRefused
  <2>2. SettledIsBackedByCallback' /\ WrittenIsSettled' /\ AcceptedIsSettled' /\ MemoryRowIsOneCallback'
    BY <1>9, RowsKept DEF ExpireKey, config, history
  <2>. QED
    BY <1>t, <2>1, <2>2 DEF IInv
<1>10. CASE Restart
  <2>1. CheckedReports' /\ AuditedIsSettled' /\ LateCallbackRefused'
    BY <1>10 DEF Restart, CheckedReports, AuditedIsSettled, LateCallbackRefused
  <2>2. CASE storage = "postgres"
    <3>1. StoredIsRecorded'
      BY <1>10, <2>2 DEF Restart, IInv, StoredIsRecorded
    <3>2. SettledIsBackedByCallback' /\ WrittenIsSettled' /\ AcceptedIsSettled' /\ MemoryRowIsOneCallback'
      BY <1>10, <2>2, RowsKept DEF Restart, config
    <3>. QED
      BY <1>t, <2>1, <3>1, <3>2 DEF IInv
  <2>3. CASE storage # "postgres"
    <3>1. /\ \A c \in Checkouts : rows'[c].status = "absent" /\ writers'[c] = {}
          /\ accepted' = {}
      BY <1>10, <2>3 DEF Restart, NoRow
    <3>2. StoredIsRecorded' /\ WrittenIsSettled' /\ SettledIsBackedByCallback'
          /\ AcceptedIsSettled' /\ MemoryRowIsOneCallback'
      BY <3>1 DEF StoredIsRecorded, WrittenIsSettled, SettledIsBackedByCallback,
                  AcceptedIsSettled, MemoryRowIsOneCallback, TerminalStatuses
    <3>. QED
      BY <1>t, <2>1, <3>2 DEF IInv
  <2>. QED
    BY <2>2, <2>3
<1>11. CASE UNCHANGED vars
  <2>1. CheckedReports' /\ StoredIsRecorded' /\ AuditedIsSettled' /\ LateCallbackRefused'
    BY <1>11 DEF vars, IInv, CheckedReports, StoredIsRecorded, AuditedIsSettled,
                 LateCallbackRefused
  <2>2. SettledIsBackedByCallback' /\ WrittenIsSettled' /\ AcceptedIsSettled' /\ MemoryRowIsOneCallback'
    BY <1>11, RowsKept DEF vars
  <2>. QED
    BY <1>t, <2>1, <2>2 DEF IInv
<1>. QED
  BY <1>1, <1>2, <1>3, <1>4, <1>5, <1>6, <1>7, <1>8, <1>9, <1>10, <1>11 DEF Next, Handle, Fault

-----------------------------------------------------------------------------
\* The inductive invariant holds in every reachable state.
THEOREM Invariance == Spec => []IInv
BY InvInit, InvStep, PTL DEF Spec

\* A settled payment was settled by a callback that passed verification and agrees with
\* it (app/callbacks/handlers.py:79-121), for any number of threads.
THEOREM SettledBacked == Spec => []SettledIsBackedByCallback
<1>1. IInv => SettledIsBackedByCallback
  BY DEF IInv
<1>. QED
  BY <1>1, Invariance, PTL

\* A thread that has settled a payment never gets as far as its update again
\* (app/callbacks/handlers.py:84-93).
THEOREM LateRefused == Spec => []LateCallbackRefused
<1>1. IInv => LateCallbackRefused
  BY DEF IInv
<1>. QED
  BY <1>1, Invariance, PTL

\* A callback that was answered as processed has left its payment settled
\* (app/callbacks/handlers.py:123-162).
THEOREM AcceptedSettled == Spec => []AcceptedIsSettled
<1>1. IInv => AcceptedIsSettled
  BY DEF IInv
<1>. QED
  BY <1>1, Invariance, PTL

\* In memory a settled row is the work of one callback, also when several race
\* (app/storage/repositories.py:188-198).
THEOREM MemoryRowWhole == Spec => []MemoryRowIsOneCallback
<1>1. IInv => MemoryRowIsOneCallback
  BY DEF IInv
<1>. QED
  BY <1>1, Invariance, PTL

=============================================================================
