---------------------- MODULE CallbacksRefinement_proofs ----------------------
(***************************************************************************)
(* What the callback pipeline promises to the rest of the system, proved    *)
(* for every set of payments and payloads.  On PostgreSQL, with one request *)
(* at a time it implements PaymentLifecycle; with any number it does to the *)
(* store what StoreReaders, and with it McpServer, expects of callbacks.    *)
(***************************************************************************)
EXTENDS Callbacks_proofs

\* One request at a time: one thread.
OneAtATime == \A t, u \in Threads : t = u

\* A row that is not settled has no receipt.
FreshRows ==
    \A c \in Checkouts : rows[c].status \in {"absent", "pending"} => rows[c].receipt = None

\* What a callback is about to write belongs to a row that is still pending.
Loaded == \A t \in Threads : pc[t] = "write" => rows[req[t].checkout].status = "pending"

OnlyMoves(t) == \A u \in Threads \ {t} : pc'[u] = pc[u] /\ req'[u] = req[u]

-----------------------------------------------------------------------------
\* A success that has every reason to be stored carries a receipt, and every result is
\* terminal: this is what StoreReaders assumes of the results.
LEMMA ReportedResult ==
    ASSUME NEW p \in Payloads, NEW c \in Checkouts, Reports(p, c)
    PROVE  /\ Result(p) \in ReportedResults[c]
           /\ Result(p) = <<ResultStatus(p), p.receipt>>
           /\ Result(p)[1] \in TerminalStatuses
           /\ Result(p)[1] = "completed" => p.receipt # None
BY ResultIsTerminal DEF Reports, ReportedResults, Result, HasSuccessMetadata, ResultStatus

\* What a thread that writes has in hand.
LEMMA Writer ==
    ASSUME IInv, NEW t \in Threads, pc[t] \in {"update", "write"}
    PROVE  /\ req[t] \in Payloads /\ req[t].checkout \in Checkouts
           /\ Reports(req[t], req[t].checkout)
BY CallbackConstants DEF IInv, TypeOK, CheckedReports, Payload

\* On PostgreSQL, what a step does to the rows and to the threads about to write one.
LEMMA StoreSteps ==
    ASSUME IInv, storage = "postgres", [Next]_vars
    PROVE  \/ \E c \in Checkouts : SavePending(c)
           \/ \E t \in Threads : Store(t) /\ OnlyMoves(t) /\ pc'[t] # "write"
           \/ \E t \in Threads : LoadForUpdate(t) /\ OnlyMoves(t) /\ UNCHANGED req /\ pc'[t] = "write"
           \/ \E t \in Threads : /\ pc[t] = "write" /\ pc'[t] # "write"
                                 /\ OnlyMoves(t) /\ UNCHANGED rows
           \/ (\A t \in Threads : pc'[t] # "write") /\ UNCHANGED rows
           \/ \E t \in Threads : /\ pc[t] # "write" /\ pc'[t] # "write"
                                 /\ OnlyMoves(t) /\ UNCHANGED rows
           \/ UNCHANGED <<rows, pc, req>>
<1>. DEFINE Away(t) == /\ pc[t] # "write" /\ pc'[t] # "write"
                       /\ OnlyMoves(t) /\ UNCHANGED rows
<1>0. TypeOK
  BY DEF IInv
<1>f. ASSUME NEW t \in Threads, Finish(t)
      PROVE  OnlyMoves(t) /\ pc'[t] = "idle"
  BY <1>0, <1>f DEF Finish, OnlyMoves, TypeOK
<1>g. ASSUME NEW t \in Threads, NEW label, Goto(t, label)
      PROVE  OnlyMoves(t) /\ pc'[t] = label /\ UNCHANGED req
  BY <1>0, <1>g DEF Goto, OnlyMoves, TypeOK
<1>1. ASSUME NEW t \in Threads, NEW p \in Payloads, Receive(t, p)
      PROVE  Away(t)
  BY <1>0, <1>1 DEF Receive, OnlyMoves, TypeOK
<1>2. ASSUME NEW t \in Threads,
             \/ RejectDuplicate(t) \/ Admit(t) \/ StoreKey(t) \/ Process(t) \/ AuditProcessed(t)
             \/ PruneFails(t) \/ ReplayUnavailable(t) \/ AuditFails(t)
      PROVE  Away(t)
  BY <1>2, <1>f, <1>g DEF RejectDuplicate, Admit, AdmitNew, SetIfNew, SkipReplay, StoreKey, Process,
     AuditProcessed, PruneFails, ReplayUnavailable, AuditFails
<1>3. ASSUME NEW t \in Threads, LoadForUpdate(t)
      PROVE  Away(t) \/ (OnlyMoves(t) /\ UNCHANGED req /\ pc'[t] = "write")
  BY <1>3, <1>f, <1>g DEF LoadForUpdate
<1>4. ASSUME NEW t \in Threads, WriteStatus(t) \/ CommitUnconfirmed(t)
      PROVE  Store(t) /\ OnlyMoves(t) /\ pc'[t] # "write"
  BY <1>4, <1>f, <1>g DEF WriteStatus, CommitUnconfirmed
<1>5. ASSUME NEW t \in Threads, StorageUnavailable(t)
      PROVE  OnlyMoves(t) /\ UNCHANGED rows /\ pc'[t] # "write"
  BY <1>5, <1>f DEF StorageUnavailable
<1>6. CASE Restart
  BY <1>6 DEF Restart
<1>7. CASE (\E k \in ReplayKeys : ExpireKey(k)) \/ UNCHANGED vars
  BY <1>7 DEF ExpireKey, vars
<1>. QED
  BY <1>1, <1>2, <1>3, <1>4, <1>5, <1>6, <1>7 DEF Next, Handle, Fault

\* What Store leaves in the row it writes, and in the others.
LEMMA StoredRow ==
    ASSUME IInv, storage = "postgres", NEW t \in Threads, Store(t)
    PROVE  LET c == req[t].checkout IN
           /\ c \in Checkouts /\ pc[t] = "write"
           /\ rows'[c].status = ResultStatus(req[t])
           /\ rows'[c].receipt = IF req[t].receipt = None THEN rows[c].receipt ELSE req[t].receipt
           /\ \A d \in Checkouts \ {c} : rows'[d] = rows[d]
BY Writer DEF Store, SettledRow, IInv, TypeOK

\* Rows without a result stay without a receipt, in every storage mode.
LEMMA FreshStep == IInv /\ FreshRows /\ [Next]_vars => FreshRows'
<1>. SUFFICES ASSUME IInv, FreshRows, [Next]_vars
              PROVE  FreshRows'
  OBVIOUS
<1>1. ASSUME NEW c \in Checkouts, SavePending(c)
      PROVE  FreshRows'
  BY <1>1 DEF SavePending, PendingRow, FreshRows, IInv, TypeOK
<1>2. ASSUME NEW t \in Threads, Store(t)
      PROVE  FreshRows'
  <2>1. rows'[req[t].checkout].status = ResultStatus(req[t])
        /\ \A d \in Checkouts \ {req[t].checkout} : rows'[d] = rows[d]
    BY <1>2, Writer DEF Store, SettledRow, IInv, TypeOK
  <2>. QED
    BY <2>1, ResultIsTerminal DEF FreshRows, TerminalStatuses
<1>3. CASE Restart
  BY <1>3 DEF Restart, NoRow, FreshRows
<1>4. CASE UNCHANGED rows
  BY <1>4 DEF FreshRows
<1>. QED
  BY <1>1, <1>2, <1>3, <1>4 DEF Next, Handle, Fault, vars, Receive, RejectDuplicate, Admit, AdmitNew,
     SetIfNew, SkipReplay, StoreKey, Process, LoadForUpdate, WriteStatus, AuditProcessed, PruneFails,
     ReplayUnavailable, StorageUnavailable, CommitUnconfirmed, AuditFails, ExpireKey

\* Rows without a result have no receipt in any reachable state.
LEMMA FreshInvariant == Spec => []FreshRows
<1>1. Init => FreshRows
  BY DEF Init, NoRow, FreshRows
<1>. QED
  BY <1>1, FreshStep, Invariance, PTL DEF Spec

-----------------------------------------------------------------------------
\* The results that threads are about to write, when only thread t moves.
LEMMA WritingMoves ==
    ASSUME NEW t \in Threads, OnlyMoves(t), NEW c \in Checkouts
    PROVE  LET others == {Result(req[u]) : u \in {v \in Threads \ {t} : pc[v] = "write" /\ req[v].checkout = c}}
               own == IF pc[t] = "write" /\ req[t].checkout = c THEN {Result(req[t])} ELSE {}
               own2 == IF pc'[t] = "write" /\ req'[t].checkout = c THEN {Result(req'[t])} ELSE {}
           IN  Writing(c) = others \cup own /\ Writing(c)' = others \cup own2
BY DEF OnlyMoves, Writing, Result, ResultStatus

\* A function of the payments that changes for one payment.
LEMMA OneChanges ==
    ASSUME NEW f, NEW g, NEW c \in Checkouts, NEW value,
           f = [d \in Checkouts |-> f[d]], g = [d \in Checkouts |-> g[d]],
           g[c] = value, \A d \in Checkouts \ {c} : g[d] = f[d]
    PROVE  g = [f EXCEPT ![c] = value]
OBVIOUS

\* A thread that neither was nor is about to write to the row of c leaves that set alone.
LEMMA WritesElsewhere ==
    ASSUME NEW t \in Threads, OnlyMoves(t), NEW c \in Checkouts,
           pc[t] = "write" => req[t].checkout # c,
           pc'[t] = "write" => req'[t].checkout # c
    PROVE  Writing(c)' = Writing(c)
BY WritingMoves

\* A thread that starts writing adds its result.
LEMMA StartsWriting ==
    ASSUME NEW t \in Threads, pc[t] # "write", pc'[t] = "write", OnlyMoves(t), UNCHANGED req,
           NEW c \in Checkouts, c = req[t].checkout, NEW r, r = Result(req[t])
    PROVE  /\ Writing(c)' = Writing(c) \cup {r}
           /\ \A d \in Checkouts \ {c} : Writing(d)' = Writing(d)
<1>1. \A d \in Checkouts \ {c} : Writing(d)' = Writing(d)
  BY WritesElsewhere
<1>2. Result(req'[t]) = r
  BY DEF Result, ResultStatus
<1>. QED
  BY <1>1, <1>2, WritingMoves

\* A thread that stops writing takes away its result, unless another has the same.
LEMMA StopsWriting ==
    ASSUME NEW t \in Threads, pc[t] = "write", pc'[t] # "write", OnlyMoves(t),
           NEW c \in Checkouts, c = req[t].checkout, NEW r, r = Result(req[t])
    PROVE  StoreView!OneLess(c, r)
<1>. DEFINE W == [d \in Checkouts |-> Writing(d)]
<1>1. \A d \in Checkouts \ {c} : Writing(d)' = Writing(d)
  BY WritesElsewhere
<1>2. r \in Writing(c) /\ (Writing(c)' = Writing(c) \/ Writing(c)' = Writing(c) \ {r})
  <2>. DEFINE others == {Result(req[u]) :
                           u \in {v \in Threads \ {t} : pc[v] = "write" /\ req[v].checkout = c}}
  <2>1. Writing(c) = others \cup {r} /\ Writing(c)' = others
    BY WritingMoves
  <2>. HIDE DEF others
  <2>. QED
    BY <2>1
<1>3. W[c] = Writing(c) /\ W'[c] = Writing(c)' /\ \A d \in Checkouts \ {c} : W'[d] = W[d]
  BY <1>1
<1>4. W' = W \/ W' = [W EXCEPT ![c] = W[c] \ {r}]
  <2>1. CASE Writing(c)' = Writing(c)
    BY <1>3, <2>1
  <2>2. CASE Writing(c)' = Writing(c) \ {r}
    BY <1>3, <2>2, OneChanges
  <2>. QED
    BY <1>2, <2>1, <2>2
<1>. QED
  BY <1>2, <1>3, <1>4 DEF StoreView!OneLess

\* On PostgreSQL every step of the callbacks is one that StoreReaders expects, or none.
LEMMA StoreStep ==
    ASSUME IInv, FreshRows, storage = "postgres", [Next]_vars
    PROVE  [StoreView!ReadersNext]_StoreView!readersVars
<1>. DEFINE S == [c \in Checkouts |-> rows[c].status]
            R == [c \in Checkouts |-> rows[c].receipt]
            W == [c \in Checkouts |-> Writing(c)]
<1>0. TypeOK
  BY DEF IInv
<1>r. UNCHANGED StoreView!readerState
  BY DEF StoreView!readerState
<1>w. ASSUME NEW t \in Threads, pc[t] \in {"update", "write"}
      PROVE  \E c \in Checkouts : \E r \in ReportedResults[c] :
                c = req[t].checkout /\ r = Result(req[t])
  BY <1>w, Writer, ReportedResult
<1>1. ASSUME NEW c \in Checkouts, SavePending(c)
      PROVE  StoreView!Record(c)
  <2>1. rows[c].status = "absent" /\ rows[c].receipt = None
    BY <1>1 DEF SavePending, IInv, StoredIsRecorded, FreshRows
  <2>2. rows' = [rows EXCEPT ![c] = PendingRow]
    BY <1>1 DEF SavePending
  <2>3. S' = [S EXCEPT ![c] = "pending"] /\ R' = R
    BY <1>0, <2>1, <2>2 DEF PendingRow, TypeOK
  <2>4. W' = W
    BY <1>1 DEF SavePending, Writing, Result, ResultStatus
  <2>. QED
    BY <1>r, <2>1, <2>3, <2>4 DEF StoreView!Record
<1>2. ASSUME NEW t \in Threads, Store(t), OnlyMoves(t), pc'[t] # "write"
      PROVE  StoreView!ReadersNext
  <2>1. pc[t] = "write"
    BY <1>2 DEF Store
  <2>2. PICK c \in Checkouts :
          \E r \in ReportedResults[c] : c = req[t].checkout /\ r = Result(req[t])
    BY <1>w, <2>1
  <2>3. PICK r \in ReportedResults[c] : c = req[t].checkout /\ r = Result(req[t])
    BY <2>2
  <2>4. /\ rows'[c].status = r[1]
        /\ rows'[c].receipt = IF r[2] = None THEN rows[c].receipt ELSE r[2]
        /\ \A d \in Checkouts \ {c} : rows'[d] = rows[d]
    BY <1>2, <2>3, StoredRow DEF Result
  <2>5. S' = [S EXCEPT ![c] = r[1]] /\ R' = [R EXCEPT ![c] = IF r[2] = None THEN @ ELSE r[2]]
    BY <2>4
  <2>6. StoreView!OneLess(c, r)
    BY <1>2, <2>1, <2>3, StopsWriting
  <2>7. StoreView!CallbackWrites(c, r)
    BY <1>r, <2>5, <2>6 DEF StoreView!CallbackWrites
  <2>. QED
    BY <2>7 DEF StoreView!ReadersNext, StoreView!StoreMoves
<1>3. ASSUME NEW t \in Threads, LoadForUpdate(t), OnlyMoves(t), UNCHANGED req, pc'[t] = "write"
      PROVE  StoreView!ReadersNext
  <2>1. /\ pc[t] = "update" /\ UNCHANGED rows
        /\ CanTransition(rows[req[t].checkout].status, ResultStatus(req[t]))
    BY <1>0, <1>3 DEF LoadForUpdate, Finish, TypeOK
  <2>2. PICK c \in Checkouts :
          \E r \in ReportedResults[c] : c = req[t].checkout /\ r = Result(req[t])
    BY <1>w, <2>1
  <2>3. PICK r \in ReportedResults[c] : c = req[t].checkout /\ r = Result(req[t])
    BY <2>2
  <2>4. W' = [W EXCEPT ![c] = @ \cup {r}]
    <3>1. pc[t] # "write"
      BY <2>1
    <3>2. Writing(c)' = Writing(c) \cup {r} /\ \A d \in Checkouts \ {c} : Writing(d)' = Writing(d)
      BY <1>3, <2>3, <3>1, StartsWriting
    <3>3. W'[c] = W[c] \cup {r} /\ \A d \in Checkouts \ {c} : W'[d] = W[d]
      BY <3>2
    <3>. QED
      BY <3>3, OneChanges
  <2>5. S' = S /\ R' = R
    BY <2>1
  <2>6. StoreView!CanTransition(S[c], r[1])
    BY <2>1, <2>3 DEF StoreView!CanTransition, StoreView!AllowedTransitions, StoreView!Statuses,
       StoreView!TerminalStatuses, CanTransition, AllowedTransitions, Statuses, TerminalStatuses,
       Result
  <2>7. StoreView!CallbackLoads(c, r)
    BY <1>r, <2>4, <2>5, <2>6 DEF StoreView!CallbackLoads
  <2>. QED
    BY <2>7 DEF StoreView!ReadersNext, StoreView!StoreMoves
<1>4. ASSUME NEW t \in Threads, pc[t] = "write", pc'[t] # "write", OnlyMoves(t), UNCHANGED rows
      PROVE  StoreView!ReadersNext
  <2>1. PICK c \in Checkouts :
          \E r \in ReportedResults[c] : c = req[t].checkout /\ r = Result(req[t])
    BY <1>w, <1>4
  <2>2. PICK r \in ReportedResults[c] : c = req[t].checkout /\ r = Result(req[t])
    BY <2>1
  <2>3. StoreView!OneLess(c, r)
    BY <1>4, <2>2, StopsWriting
  <2>4. StoreView!CallbackFails(c, r)
    BY <1>r, <1>4, <2>3 DEF StoreView!CallbackFails
  <2>. QED
    BY <2>4 DEF StoreView!ReadersNext, StoreView!StoreMoves
<1>5. ASSUME \A t \in Threads : pc'[t] # "write", UNCHANGED rows
      PROVE  StoreView!ReadersNext
  <2>1. \A c \in Checkouts : Writing(c)' = {}
    BY <1>5 DEF Writing
  <2>2. W' = [c \in Checkouts |-> {}]
    BY <2>1
  <2>3. StoreView!CallbacksEnd
    BY <1>r, <1>5, <2>2 DEF StoreView!CallbacksEnd
  <2>. QED
    BY <2>3 DEF StoreView!ReadersNext, StoreView!StoreMoves
<1>6. ASSUME \A c \in Checkouts : Writing(c)' = Writing(c), UNCHANGED rows
      PROVE  UNCHANGED StoreView!readersVars
  BY <1>r, <1>6 DEF StoreView!readersVars, StoreView!storeState
<1>7. ASSUME NEW t \in Threads, pc[t] # "write", pc'[t] # "write", OnlyMoves(t), UNCHANGED rows
      PROVE  UNCHANGED StoreView!readersVars
  BY <1>6, <1>7, WritesElsewhere
<1>8. CASE UNCHANGED <<rows, pc, req>>
  BY <1>6, <1>8 DEF Writing, Result, ResultStatus
<1>9. CASE \E c \in Checkouts : SavePending(c)
  BY <1>1, <1>9 DEF StoreView!ReadersNext
<1>. QED
  BY <1>2, <1>3, <1>4, <1>5, <1>7, <1>8, <1>9, StoreSteps

\* Whatever callbacks overlap, fail, are repeated or cut off by restarts, on PostgreSQL
\* they do to the store nothing but what receipts, reconciliation and status queries
\* expect of them (app/storage/repositories.py:328-361).
THEOREM StoreRefined == Spec => ImplementsStore
<1>1. Init /\ storage = "postgres" => StoreView!ReadersInit
  <2>. SUFFICES ASSUME Init
                PROVE  StoreView!ReadersInit
    OBVIOUS
  <2>1. \A c \in Checkouts : Writing(c) = {}
    BY DEF Init, Writing
  <2>. QED
    BY <2>1 DEF Init, NoRow, StoreView!ReadersInit
<1>2. IInv /\ FreshRows /\ [Next]_vars =>
        [storage = "postgres" => StoreView!ReadersNext]_StoreView!readersVars
  BY StoreStep
<1>. QED
  BY <1>1, <1>2, Invariance, FreshInvariant, PTL DEF Spec, ImplementsStore

-----------------------------------------------------------------------------
\* With one request at a time nothing happens to a row between its load and its write,
\* save that other payments are recorded.
LEMMA LoadedStep ==
    ASSUME OneAtATime, IInv, Loaded, storage = "postgres", [Next]_vars
    PROVE  Loaded'
<1>0. TypeOK
  BY DEF IInv
<1>a. \A t, u \in Threads : t = u
  BY DEF OneAtATime
<1>1. ASSUME NEW c \in Checkouts, SavePending(c)
      PROVE  Loaded'
  <2>. SUFFICES ASSUME NEW t \in Threads, pc'[t] = "write"
                PROVE  rows'[req'[t].checkout].status = "pending"
    BY DEF Loaded
  <2>1. pc[t] = "write" /\ req' = req /\ rows' = [rows EXCEPT ![c] = PendingRow]
    BY <1>1 DEF SavePending
  <2>2. req[t].checkout \in Checkouts /\ rows[req[t].checkout].status = "pending"
    BY <2>1, Writer DEF Loaded
  <2>. QED
    BY <1>0, <2>1, <2>2 DEF PendingRow, TypeOK
<1>2. ASSUME NEW t \in Threads, LoadForUpdate(t), UNCHANGED req, pc'[t] = "write"
      PROVE  Loaded'
  <2>1. rows' = rows /\ CanTransition(rows[req[t].checkout].status, ResultStatus(req[t]))
    BY <1>0, <1>2 DEF LoadForUpdate, Finish, TypeOK
  <2>2. rows[req[t].checkout].status = "pending"
    BY <2>1, TransitionFromPending
  <2>. QED
    BY <1>2, <1>a, <2>1, <2>2 DEF Loaded
<1>3. ASSUME NEW t \in Threads, pc'[t] # "write"
      PROVE  Loaded'
  BY <1>3, <1>a DEF Loaded
<1>4. CASE UNCHANGED <<rows, pc, req>>
  BY <1>4 DEF Loaded
<1>5. CASE \A t \in Threads : pc'[t] # "write"
  BY <1>5 DEF Loaded
<1>. QED
  BY <1>1, <1>2, <1>3, <1>4, <1>5, StoreSteps

\* So what a callback loaded is still pending when it is written, in every reachable state.
LEMMA LoadedInvariant ==
    ASSUME OneAtATime, StorageModes = {"postgres"}
    PROVE  Spec => [](IInv /\ FreshRows /\ Loaded /\ storage = "postgres")
<1>1. IInv => storage = "postgres"
  BY DEF IInv, TypeOK
<1>2. Init => Loaded
  BY DEF Init, Loaded
<1>3. IInv /\ Loaded /\ [Next]_vars => Loaded'
  BY <1>1, LoadedStep
<1>. QED
  BY <1>1, <1>2, <1>3, Invariance, FreshInvariant, PTL DEF Spec

\* One request at a time, on PostgreSQL: a write settles a pending row.
LEMMA OnlyPendingWritten ==
    ASSUME IInv, Loaded, storage = "postgres", [Next]_vars
    PROVE  \/ \E c \in Checkouts : SavePending(c)
           \/ \E t \in Threads : Store(t) /\ rows[req[t].checkout].status = "pending"
           \/ UNCHANGED rows
<1>1. \A t \in Threads : Store(t) => rows[req[t].checkout].status = "pending"
  BY DEF Store, Loaded
<1>2. \A t \in Threads : LoadForUpdate(t) => UNCHANGED rows
  BY DEF LoadForUpdate
<1>. QED
  BY <1>1, <1>2, StoreSteps

\* With one request at a time, on PostgreSQL, no late or repeated callback changes a
\* settled payment (README.md:168): what overwrites one takes two requests that overlap.
THEOREM FinalIfSerial ==
    ASSUME OneAtATime, StorageModes = {"postgres"}
    PROVE  Spec => TerminalIsFinal
<1>1. IInv /\ FreshRows /\ Loaded /\ storage = "postgres" /\ [Next]_vars =>
        [\A c \in Checkouts : rows[c].status \in TerminalStatuses => rows'[c] = rows[c]]_rows
  <2>. SUFFICES ASSUME IInv, Loaded, storage = "postgres", [Next]_vars, NEW c \in Checkouts,
                       rows[c].status \in TerminalStatuses
                PROVE  rows'[c] = rows[c]
    OBVIOUS
  <2>1. ASSUME NEW d \in Checkouts, SavePending(d)
        PROVE  rows'[c] = rows[c]
    <3>1. rows[d].status = "absent"
      BY <2>1 DEF SavePending, IInv, StoredIsRecorded
    <3>. QED
      BY <2>1, <3>1 DEF SavePending, TerminalStatuses, IInv, TypeOK
  <2>2. ASSUME NEW t \in Threads, Store(t), rows[req[t].checkout].status = "pending"
        PROVE  rows'[c] = rows[c]
    BY <2>2, StoredRow DEF TerminalStatuses
  <2>. QED
    BY <2>1, <2>2, OnlyPendingWritten
<1>. QED
  BY <1>1, LoadedInvariant, PTL DEF Spec, TerminalIsFinal

\* With one request at a time, on PostgreSQL, the pipeline implements the life cycle of a
\* payment: every step records it, settles it with a result that was reported, or leaves
\* it alone (app/callbacks/handlers.py:79-162).
THEOREM LifecycleRefined ==
    ASSUME OneAtATime, StorageModes = {"postgres"}
    PROVE  Spec => ImplementsLifecycle
<1>. DEFINE S == [c \in Checkouts |-> rows[c].status]
            R == [c \in Checkouts |-> rows[c].receipt]
<1>1. Init => Lifecycle!Init
  BY DEF Init, NoRow, Lifecycle!Init
<1>2. IInv /\ FreshRows /\ Loaded /\ storage = "postgres" /\ [Next]_vars =>
        [Lifecycle!Next]_Lifecycle!vars
  <2>. SUFFICES ASSUME IInv, FreshRows, Loaded, storage = "postgres", [Next]_vars
                PROVE  [Lifecycle!Next]_Lifecycle!vars
    OBVIOUS
  <2>1. ASSUME NEW c \in Checkouts, SavePending(c)
        PROVE  Lifecycle!Next
    <3>1. rows[c].status = "absent" /\ rows[c].receipt = None
      BY <2>1 DEF SavePending, IInv, StoredIsRecorded, FreshRows
    <3>2. S' = [S EXCEPT ![c] = "pending"] /\ R' = R
      BY <2>1, <3>1 DEF SavePending, PendingRow, IInv, TypeOK
    <3>3. Lifecycle!Record(c)
      BY <3>1, <3>2 DEF Lifecycle!Record
    <3>. QED
      BY <3>3 DEF Lifecycle!Next
  <2>2. ASSUME NEW t \in Threads, Store(t), rows[req[t].checkout].status = "pending"
        PROVE  Lifecycle!Next
    <3>1. PICK c \in Checkouts : c = req[t].checkout
      BY <2>2, StoredRow
    <3>2. PICK r : r = Result(req[t])
      OBVIOUS
    <3>3. Reports(req[t], c) /\ req[t] \in Payloads
      BY <2>2, <3>1, Writer DEF Store
    <3>4. /\ r \in ReportedResults[c] /\ r[1] \in TerminalStatuses
          /\ r = <<ResultStatus(req[t]), req[t].receipt>>
          /\ r[1] = "completed" => r[2] # None
      BY <3>2, <3>3, ReportedResult
    <3>5. rows[c].receipt = None
      BY <2>2, <3>1 DEF FreshRows
    <3>6. /\ rows'[c].status = r[1] /\ rows'[c].receipt = r[2]
          /\ \A d \in Checkouts \ {c} : rows'[d] = rows[d]
      BY <2>2, <3>1, <3>4, <3>5, StoredRow
    <3>7. S' = [S EXCEPT ![c] = r[1]] /\ R' = [R EXCEPT ![c] = r[2]]
      BY <3>6
    <3>8. Lifecycle!CanTransition(S[c], r[1])
      BY <2>2, <3>1, <3>4 DEF Lifecycle!CanTransition, Lifecycle!AllowedTransitions,
         Lifecycle!Statuses, Lifecycle!TerminalStatuses, TerminalStatuses
    <3>9. Lifecycle!Settle(c, r)
      BY <3>4, <3>7, <3>8 DEF Lifecycle!Settle
    <3>. QED
      BY <3>4, <3>9 DEF Lifecycle!Next
  <2>3. CASE UNCHANGED rows
    BY <2>3 DEF Lifecycle!vars
  <2>. QED
    BY <2>1, <2>2, <2>3, OnlyPendingWritten
<1>. QED
  BY <1>1, <1>2, LoadedInvariant, PTL DEF Spec, ImplementsLifecycle, Lifecycle!Spec

=============================================================================
