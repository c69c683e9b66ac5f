------------------------------ MODULE Callbacks ------------------------------
(***************************************************************************)
(* The STK callback pipeline: POST /callbacks/mpesa/stk                     *)
(* (app/callbacks/routes.py), the replay store (app/callbacks/replay.py),   *)
(* StkCallbackHandler (app/callbacks/handlers.py) and the status update of  *)
(* the transaction repository (app/storage/repositories.py).                *)
(*                                                                         *)
(* The route is a plain `def`, so FastAPI runs every request on a thread of *)
(* its pool: a thread handles one request at a time and may be suspended    *)
(* between any two accesses to the replay store or to the transaction      *)
(* store.  Each such access is one action.                                  *)
(***************************************************************************)
EXTENDS Integers, TransactionStates

CONSTANTS
    Threads,        \* request threads of the API process
    Checkouts,      \* checkout request ids the provider handed out
    Amount,         \* Amount[c]: the amount stored with the payment
    Phone,          \* Phone[c]: its phone number, digits only
    Payloads,       \* the callback requests the network may deliver
    None,           \* a field that is missing or does not parse
    StorageModes,   \* subset of {"memory", "postgres"}: STORAGE_MODE
    ReplayModes     \* subset of {"off", "memory", "redis"}: the replay settings

Receipts == {p.receipt : p \in Payloads} \cup {None}

\* A callback request as the handler reads it.  `trusted`: it passes the shared
\* secret and the source verifier.
Payload ==
    [checkout : Checkouts, code : Int \cup {None}, receipt : Receipts,
     amount : Int \cup {None}, phone : Int \cup {None}, trusted : BOOLEAN]

ASSUME CallbackConstants ==
    /\ Payloads \subseteq Payload
    /\ Amount \in [Checkouts -> Int]
    /\ Phone \in [Checkouts -> Int]
    /\ None \notin Int
    /\ StorageModes \subseteq {"memory", "postgres"}
    /\ ReplayModes \subseteq {"off", "memory", "redis"}

VARIABLES
    storage,        \* STORAGE_MODE, chosen at start-up
    replay,         \* CALLBACK_REPLAY_PROTECTION_ENABLED and CALLBACK_REPLAY_MODE
    rows,           \* rows[c]: the stored transaction, or NoRow
    recorded,       \* the payments that were ever stored
    seen,           \* the replay keys whose window has not passed
    pc,             \* pc[t]: what thread t does next
    req,            \* req[t]: the request thread t works on
    accepted,       \* history: the requests answered as processed
    writers         \* history: writers[c]: the threads that settled payment c

config == <<storage, replay>>
history == <<accepted, writers>>
vars == <<storage, replay, rows, recorded, seen, pc, req, accepted, writers>>

NoRow == [status |-> "absent", code |-> None, receipt |-> None]

PendingRow == [status |-> "pending", code |-> None, receipt |-> None]

Row == [status : Statuses \cup {"absent"}, code : Int \cup {None}, receipt : Receipts]

\* build_callback_replay_key: the fields the fingerprint is computed from.
ReplayKey(p) == <<p.checkout, p.code, p.receipt>>

ReplayKeys == {ReplayKey(p) : p \in Payloads}

\* The status a callback asks for: code 0 is success, everything else a failure.
ResultStatus(p) == IF p.code = 0 THEN "completed" ELSE "failed"

\* _has_success_metadata
HasSuccessMetadata(p) == p.amount # None /\ p.receipt # None /\ p.phone # None

\* Mutant: the amount is not compared.
RefusesAnyAmountPasses(p, row) ==
    \/ p.code = None
    \/ row.status = "absent"
    \/ p.code = 0 /\ ~HasSuccessMetadata(p)
    \/ ~CanTransition(row.status, ResultStatus(p))
    \/ p.phone # None /\ p.phone # Phone[p.checkout]

\* What the handler refuses before it touches the store, given the row it read:
\* a payload it cannot read, an unknown payment, a success without its metadata,
\* a move the state machine forbids, and a wrong amount or phone number.
Refuses(p, row) ==
    \/ p.code = None
    \/ row.status = "absent"
    \/ p.code = 0 /\ ~HasSuccessMetadata(p)
    \/ ~CanTransition(row.status, ResultStatus(p))
    \/ p.amount # None /\ p.amount # Amount[p.checkout]
    \/ p.phone # None /\ p.phone # Phone[p.checkout]

\* Mutant: the status is left out of the update.
SettledRowStatusLost(p, current) ==
    [current EXCEPT !.code = p.code, !.receipt = p.receipt]

\* Mutant: a status the state machine does not know is stored.
SettledRowStatusUnknown(p, current) ==
    [status |-> IF p.code = 0 THEN "success" ELSE "failed", code |-> p.code, receipt |-> p.receipt]

\* Mutant: the in-memory store merges columns as the ORM does.
SettledRowMerged(p, current) ==
    [status |-> ResultStatus(p), code |-> p.code,
     receipt |-> IF p.receipt = None THEN current.receipt ELSE p.receipt]

\* The row after the update.  The in-memory store writes a whole copied record.
\* The ORM sends only the columns whose value differs from the row it loaded, which
\* was pending without a receipt: a callback without one leaves the column alone.
SettledRow(p, current) ==
    [status |-> ResultStatus(p),
     code |-> p.code,
     receipt |-> IF storage = "postgres" /\ p.receipt = None
                 THEN current.receipt
                 ELSE p.receipt]

\* p reports a result for payment c that the handler has every reason to store.
Reports(p, c) ==
    /\ p.trusted
    /\ p.checkout = c
    /\ p.code # None
    /\ p.code = 0 => HasSuccessMetadata(p)
    /\ p.amount \in {None, Amount[c]}
    /\ p.phone \in {None, Phone[c]}

-----------------------------------------------------------------------------
Init ==
    /\ storage \in StorageModes
    /\ replay \in ReplayModes
    /\ rows = [c \in Checkouts |-> NoRow]
    /\ recorded = {}
    /\ seen = {}
    /\ pc = [t \in Threads |-> "idle"]
    /\ req = [t \in Threads |-> None]
    /\ accepted = {}
    /\ writers = [c \in Checkouts |-> {}]

Goto(t, label) == pc' = [pc EXCEPT ![t] = label] /\ UNCHANGED req

\* The request is answered and its thread goes back to the pool.
Finish(t) == pc' = [pc EXCEPT ![t] = "idle"] /\ req' = [req EXCEPT ![t] = None]

\* PaymentService stores the pending transaction after the provider answered;
\* the provider may call back before that.
SavePending(c) ==
    /\ c \notin recorded
    /\ recorded' = recorded \cup {c}
    /\ rows' = [rows EXCEPT ![c] = PendingRow]
    /\ UNCHANGED <<config, seen, pc, req, history>>

\* A request arrives.  The secret and the source are verified before anything else;
\* a request that fails either is answered 401 or 403.
Receive(t, p) ==
    /\ pc[t] = "idle"
    /\ IF p.trusted
         THEN pc' = [pc EXCEPT ![t] = "replay"] /\ req' = [req EXCEPT ![t] = p]
         ELSE UNCHANGED <<pc, req>>
    /\ UNCHANGED <<config, rows, recorded, seen, accepted, writers>>

\* check_and_store finds the key: the callback is answered 409.
RejectDuplicate(t) ==
    /\ pc[t] = "replay"
    /\ replay # "off"
    /\ ReplayKey(req[t]) \in seen
    /\ Finish(t)
    /\ UNCHANGED <<config, rows, recorded, seen, history>>

\* ... or does not.  In memory the key is stored by a step of its own.
AdmitNew(t) ==
    /\ pc[t] = "replay"
    /\ replay = "memory"
    /\ ReplayKey(req[t]) \notin seen
    /\ Goto(t, "store")
    /\ UNCHANGED <<config, rows, recorded, seen, history>>

StoreKey(t) ==
    /\ pc[t] = "store"
    /\ seen' = seen \cup {ReplayKey(req[t])}
    /\ Goto(t, "find")
    /\ UNCHANGED <<config, rows, recorded, history>>

\* Dropping the expired keys walks the table, and raises if another request stores its
\* key meanwhile: the request ends with an error after its own key was stored.
PruneFails(t) ==
    /\ pc[t] = "store"
    /\ seen' = seen \cup {ReplayKey(req[t])}
    /\ Finish(t)
    /\ UNCHANGED <<config, rows, recorded, history>>

\* SET key NX EX window looks the key up and stores it in one step.
SetIfNew(t) ==
    /\ pc[t] = "replay"
    /\ replay = "redis"
    /\ ReplayKey(req[t]) \notin seen
    /\ seen' = seen \cup {ReplayKey(req[t])}
    /\ Goto(t, "find")
    /\ UNCHANGED <<config, rows, recorded, history>>

SkipReplay(t) ==
    /\ pc[t] = "replay"
    /\ replay = "off"
    /\ Goto(t, "find")
    /\ UNCHANGED <<config, rows, recorded, seen, history>>

\* Redis does not answer: 503.  The command may have been applied all the same.
ReplayUnavailable(t) ==
    /\ pc[t] = "replay"
    /\ replay = "redis"
    /\ seen' \in {seen, seen \cup {ReplayKey(req[t])}}
    /\ Finish(t)
    /\ UNCHANGED <<config, rows, recorded, history>>

\* Mutant: the replay key is stored without a window.
ExpireKeyNever(k) == FALSE /\ UNCHANGED vars

\* The replay window of a key passes.
ExpireKey(k) ==
    /\ k \in seen
    /\ seen' = seen \ {k}
    /\ UNCHANGED <<config, rows, recorded, pc, req, history>>

\* process, up to the update: read the row, then refuse or go on.
Process(t) ==
    /\ pc[t] = "find"
    /\ IF Refuses(req[t], rows[req[t].checkout]) THEN Finish(t) ELSE Goto(t, "update")
    /\ UNCHANGED <<config, rows, recorded, seen, history>>

\* Mutant: the move is validated once, on the row that the handler read.
LoadUnchecked(t) ==
    /\ pc[t] = "update"
    /\ Goto(t, "write")
    /\ UNCHANGED <<config, rows, recorded, seen, history>>

\* update_transaction_status reads the row again and validates the move again.
LoadForUpdate(t) ==
    /\ pc[t] = "update"
    /\ IF CanTransition(rows[req[t].checkout].status, ResultStatus(req[t]))
         THEN Goto(t, "write")
         ELSE Finish(t)
    /\ UNCHANGED <<config, rows, recorded, seen, history>>

\* ... and writes it.  Nothing rechecks that the row is still the one it read.
Store(t) ==
    LET c == req[t].checkout IN
    /\ pc[t] = "write"
    /\ rows' = [rows EXCEPT ![c] = SettledRow(req[t], rows[c])]
    /\ writers' = [writers EXCEPT ![c] = @ \cup {t}]
    /\ UNCHANGED <<config, recorded, seen, accepted>>

WriteStatus(t) == Store(t) /\ Goto(t, "audit")

\* The store fails: the callback is answered with an error.  The database may fail in
\* any of the three accesses; in memory, walking the table while a payment is added
\* to it raises.
StorageUnavailable(t) ==
    /\ \/ pc[t] \in {"find", "update"}
       \/ pc[t] = "write" /\ storage = "postgres"
    /\ Finish(t)
    /\ UNCHANGED <<config, rows, recorded, seen, history>>

\* The database commits the update and its answer is lost.
CommitUnconfirmed(t) == storage = "postgres" /\ Store(t) /\ Finish(t)

\* The audit event is saved and the callback is answered as processed.
AuditProcessed(t) ==
    /\ pc[t] = "audit"
    /\ accepted' = accepted \cup {req[t]}
    /\ Finish(t)
    /\ UNCHANGED <<config, rows, recorded, seen, writers>>

\* The audit table cannot be written: the request ends with an unhandled error after
\* the row was committed.
AuditFails(t) ==
    /\ storage = "postgres"
    /\ pc[t] = "audit"
    /\ Finish(t)
    /\ UNCHANGED <<config, rows, recorded, seen, history>>

\* The process dies and starts again: requests in progress are gone, and so is
\* whatever it kept in memory.
Restart ==
    /\ pc' = [t \in Threads |-> "idle"]
    /\ req' = [t \in Threads |-> None]
    /\ seen' = IF replay = "redis" THEN seen ELSE {}
    /\ IF storage = "postgres"
         THEN UNCHANGED <<rows, accepted, writers>>
         ELSE /\ rows' = [c \in Checkouts |-> NoRow]
              /\ accepted' = {}
              /\ writers' = [c \in Checkouts |-> {}]
    /\ UNCHANGED <<config, recorded>>

Admit(t) == AdmitNew(t) \/ SetIfNew(t) \/ SkipReplay(t)

Handle(t) ==
    \/ RejectDuplicate(t) \/ Admit(t) \/ StoreKey(t)
    \/ Process(t) \/ LoadForUpdate(t) \/ WriteStatus(t) \/ AuditProcessed(t)

Fault(t) ==
    \/ PruneFails(t) \/ ReplayUnavailable(t) \/ StorageUnavailable(t)
    \/ CommitUnconfirmed(t) \/ AuditFails(t)

Next ==
    \/ \E c \in Checkouts : SavePending(c)
    \/ \E t \in Threads, p \in Payloads : Receive(t, p)
    \/ \E t \in Threads : Handle(t) \/ Fault(t)
    \/ \E k \in ReplayKeys : ExpireKey(k)
    \/ Restart

Spec == Init /\ [][Next]_vars

\* Fairness.  A thread that can go on is scheduled (WF).  The clock of the replay
\* store moves on.  For a callback that agrees with its payment: the provider delivers
\* it again and again, and no access to the replay store or the database fails or is cut
\* off by a restart every single time this callback makes it (SF).
FairSpec ==
    /\ Spec
    /\ \A c \in Checkouts : WF_vars(SavePending(c))
    /\ \A t \in Threads : WF_vars(Handle(t))
    /\ \A k \in ReplayKeys : WF_vars(ExpireKey(k))
    /\ \A t \in Threads : \A p \in {q \in Payloads : Reports(q, q.checkout)} :
         /\ SF_vars(Receive(t, p))
         /\ SF_vars(Admit(t) /\ req[t] = p)
         /\ SF_vars(StoreKey(t) /\ req[t] = p)
         /\ SF_vars(Process(t) /\ req[t] = p)
         /\ SF_vars(LoadForUpdate(t) /\ req[t] = p)
         /\ SF_vars(WriteStatus(t) /\ req[t] = p)

-----------------------------------------------------------------------------
Labels == {"idle", "replay", "store", "find", "update", "write", "audit"}

\* Type invariant.
TypeOK ==
    /\ storage \in StorageModes
    /\ replay \in ReplayModes
    /\ rows \in [Checkouts -> Row]
    /\ recorded \subseteq Checkouts
    /\ seen \subseteq ReplayKeys
    /\ pc \in [Threads -> Labels]
    /\ req \in [Threads -> Payloads \cup {None}]
    /\ \A t \in Threads : pc[t] # "idle" => req[t] \in Payloads
    /\ accepted \subseteq Payloads
    /\ writers \in [Checkouts -> SUBSET Threads]

\* A settled payment was settled by a callback that passed verification and agrees
\* with the payment; a completed one carries that callback's receipt.  This is
\* what receipts, analytics and reconciliation take from the store on trust
\* (app/callbacks/handlers.py:79-121).
SettledIsBackedByCallback ==
    \A c \in Checkouts : rows[c].status \in TerminalStatuses =>
        \E p \in Payloads :
            /\ Reports(p, c)
            /\ rows[c].status = ResultStatus(p)
            /\ rows[c].code = p.code
            /\ rows[c].status = "completed" => rows[c].receipt = p.receipt

\* A thread that has settled payment c never gets as far as the update of c once more,
\* whichever callbacks it is given afterwards and whatever the other threads write
\* (app/callbacks/handlers.py:84-93).
LateCallbackRefused ==
    \A t \in Threads : pc[t] \in {"update", "write"} => t \notin writers[req[t].checkout]

\* A callback that was answered as processed has left its payment settled, for good
\* (app/callbacks/handlers.py:123-162): a provider that stops retrying on that
\* answer has lost nothing.
AcceptedIsSettled ==
    \A p \in accepted : rows[p.checkout].status \in TerminalStatuses

\* In memory a row is written as a whole, so status, code and receipt come from one
\* callback even when two race (app/storage/repositories.py:188-198).
MemoryRowIsOneCallback ==
    storage = "memory" =>
        \A c \in Checkouts : rows[c].status \in TerminalStatuses =>
            \E p \in Payloads : Reports(p, c) /\ rows[c] = SettledRow(p, PendingRow)

\* Terminal states are final: "terminal states cannot be overwritten by duplicate or
\* late callbacks" (README.md:168).
TerminalIsFinal ==
    [][\A c \in Checkouts : rows[c].status \in TerminalStatuses => rows'[c] = rows[c]]_rows

\* However often Redis, the database or the process fail in between, a payment whose
\* callback keeps being delivered is settled: a replay key used up by a failed
\* attempt (app/callbacks/routes.py:100-105) blocks it for one window at most.
EventuallySettled ==
    \A c \in Checkouts :
        (\E p \in Payloads : Reports(p, c)) => <>(rows[c].status \in TerminalStatuses)

\* The results that callbacks have every reason to store.
Result(p) == <<ResultStatus(p), p.receipt>>

ReportedResults ==
    [c \in Checkouts |-> {Result(p) : p \in {q \in Payloads : Reports(q, c)}}]

\* The transaction store as its readers see it.
Lifecycle == INSTANCE PaymentLifecycle WITH
    Results <- ReportedResults,
    NoReceipt <- None,
    status <- [c \in Checkouts |-> rows[c].status],
    receipt <- [c \in Checkouts |-> rows[c].receipt]

\* With one request at a time, the pipeline implements the life cycle: recorded once,
\* settled once with a result that was reported, then final.
ImplementsLifecycle == Lifecycle!Spec

\* The results that threads are about to write to the row of c.
Writing(c) == {Result(req[t]) : t \in {u \in Threads : pc[u] = "write" /\ req[u].checkout = c}}

\* The store as StoreReaders has it, without its readers.
StoreView == INSTANCE StoreReaders WITH
    Payments <- Checkouts, Results <- ReportedResults, NoReceipt <- None,
    Readers <- {}, Providers <- {"daraja"}, NoAnswer <- None,
    provider <- "daraja",
    status <- [c \in Checkouts |-> rows[c].status],
    receipt <- [c \in Checkouts |-> rows[c].receipt],
    writing <- [c \in Checkouts |-> Writing(c)],
    old <- {}, reading <- <<>>, about <- <<>>, copy <- <<>>, findings <- <<>>,
    reported <- {}, receipts <- {}

\* On PostgreSQL the callbacks do to the store nothing but what the receipts and the
\* reconciliation expect of them, with any number of requests at a time: they write the
\* results that were reported, each to a row they found pending
\* (app/storage/repositories.py:328-361).
ImplementsStore ==
    /\ storage = "postgres" => StoreView!ReadersInit
    /\ [][storage = "postgres" => StoreView!ReadersNext]_StoreView!readersVars

=============================================================================
