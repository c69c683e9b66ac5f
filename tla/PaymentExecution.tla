--------------------------- MODULE PaymentExecution ---------------------------
(***************************************************************************)
(* PaymentService._execute_stk_push (app/services/payment_service.py): look *)
(* the idempotency key up, ask the provider, store the pending transaction, *)
(* audit, answer.  A worker is whatever runs it: a request thread of the    *)
(* API process or an MCP server process, all on one transaction store       *)
(* (app/storage/repositories.py).  The provider may answer late or never,   *)
(* the store may fail, and a worker may die between any two steps.          *)
(***************************************************************************)
EXTENDS Integers, Sequences

CONSTANTS
    Workers,        \* who executes payments
    Keys,           \* idempotency keys, given by the caller or derived
    Blank,          \* the checkout request id of an answer that carries none
    None,           \* no payment
    MaxAsks,        \* bound: requests the provider receives
    StorageModes    \* subset of {"memory", "postgres"}: STORAGE_MODE

Asks == 1..MaxAsks

ASSUME ExecutionConstants ==
    /\ MaxAsks \in Nat
    /\ Blank \notin Int
    /\ None \notin Keys
    /\ StorageModes \subseteq {"memory", "postgres"}

VARIABLES
    storage,        \* STORAGE_MODE, chosen at start-up
    rows,           \* the stored transactions in the order of their insertion
    asked,          \* asked[n]: the key of the n-th request the provider received
    charged,        \* the requests the provider accepted: the customer is prompted
    pc,             \* pc[w]: what worker w does next
    key,            \* key[w]: the idempotency key it works on
    ask,            \* ask[w]: the provider request it got an answer to, or 0
    checkout,       \* checkout[w]: the checkout request id in that answer
    known,          \* history: the key was already stored when w started
    told,           \* history: the payments callers were told of, <<key, checkout>>
    warned,         \* history: the requests whose caller was answered with an error
    abandoned       \* history: the requests whose worker died

history == <<told, warned, abandoned>>
vars == <<storage, rows, asked, charged, pc, key, ask, checkout, known,
          told, warned, abandoned>>

Checkouts == Asks \cup {Blank}

Transaction == [key : Keys, checkout : Checkouts, ask : Asks]

Stored(k) == \E i \in DOMAIN rows : rows[i].key = k

\* find_by_idempotency_key returns the first stored transaction with key k: row i.
Finds(k, i) == rows[i].key = k /\ \A j \in 1..(i - 1) : rows[j].key # k

\* Mutant: the table has no unique columns.
ConflictsNever(w) == FALSE

\* The unique columns of the transactions table: in memory there are none.
Conflicts(w) ==
    /\ storage = "postgres"
    /\ \E i \in DOMAIN rows : rows[i].key = key[w] \/ rows[i].checkout = checkout[w]

-----------------------------------------------------------------------------
Init ==
    /\ storage \in StorageModes
    /\ rows = <<>>
    /\ asked = <<>>
    /\ charged = {}
    /\ pc = [w \in Workers |-> "idle"]
    /\ key = [w \in Workers |-> None]
    /\ ask = [w \in Workers |-> 0]
    /\ checkout = [w \in Workers |-> Blank]
    /\ known = [w \in Workers |-> FALSE]
    /\ told = {}
    /\ warned = {}
    /\ abandoned = {}

Goto(w, label) == pc' = [pc EXCEPT ![w] = label]

\* Worker w has answered its caller.
Finish(w) ==
    /\ Goto(w, "idle")
    /\ key' = [key EXCEPT ![w] = None]
    /\ ask' = [ask EXCEPT ![w] = 0]
    /\ checkout' = [checkout EXCEPT ![w] = Blank]
    /\ known' = [known EXCEPT ![w] = FALSE]

Start(w, k) ==
    /\ pc[w] = "idle"
    /\ Goto(w, "lookup")
    /\ key' = [key EXCEPT ![w] = k]
    /\ known' = [known EXCEPT ![w] = Stored(k)]
    /\ UNCHANGED <<storage, rows, asked, charged, ask, checkout, history>>

\* A stored transaction is returned as it is, whatever its status.
ReturnExisting(w) ==
    /\ pc[w] = "lookup"
    /\ \E i \in DOMAIN rows :
         /\ Finds(key[w], i)
         /\ told' = told \cup {<<key[w], rows[i].checkout>>}
    /\ Finish(w)
    /\ UNCHANGED <<storage, rows, asked, charged, warned, abandoned>>

\* Mutant: a stored transaction does not keep a retry from asking again.
LookupIgnored(w) ==
    /\ pc[w] = "lookup"
    /\ Goto(w, "ask")
    /\ UNCHANGED <<storage, rows, asked, charged, key, ask, checkout, known, history>>

LookupMisses(w) ==
    /\ pc[w] = "lookup"
    /\ ~Stored(key[w])
    /\ Goto(w, "ask")
    /\ UNCHANGED <<storage, rows, asked, charged, key, ask, checkout, known, history>>

\* The database does not answer; in memory, another worker adds a transaction to the
\* table that this one is walking.
LookupFails(w) ==
    /\ pc[w] = "lookup"
    /\ Finish(w)
    /\ UNCHANGED <<storage, rows, asked, charged, history>>

\* The provider receives a request and accepts it or not.
Receive(w, accepts) ==
    /\ pc[w] = "ask"
    /\ Len(asked) < MaxAsks
    /\ asked' = Append(asked, key[w])
    /\ charged' = IF accepts THEN charged \cup {Len(asked) + 1} ELSE charged

\* Mutant: the answer is taken for that to the next request.
AnswerToNext(w, id) ==
    /\ Goto(w, "save")
    /\ ask' = [ask EXCEPT ![w] = Len(asked) + 2]
    /\ checkout' = [checkout EXCEPT ![w] = id]
    /\ UNCHANGED <<storage, rows, key, known, history>>

Answer(w, id) ==
    /\ Goto(w, "save")
    /\ ask' = [ask EXCEPT ![w] = Len(asked) + 1]
    /\ checkout' = [checkout EXCEPT ![w] = id]
    /\ UNCHANGED <<storage, rows, key, known, history>>

AskAccepted(w) == Receive(w, TRUE) /\ Answer(w, Len(asked) + 1)

\* An answer with a ResponseCode other than 0, with or without a checkout request id,
\* is not an exception: the service goes on as with an accepted request.
AskRefused(w) ==
    /\ Receive(w, FALSE)
    /\ \E id \in {Len(asked) + 1, Blank} : Answer(w, id)

\* The answer is late, lost or unreadable: the caller is told that the payment
\* failed, and nothing is stored.
AskLost(w) ==
    /\ \E accepts \in BOOLEAN : Receive(w, accepts)
    /\ warned' = warned \cup {Len(asked) + 1}
    /\ Finish(w)
    /\ UNCHANGED <<storage, rows, told, abandoned>>

\* No request leaves: the circuit is open or there is no OAuth token.
AskUnsent(w) ==
    /\ pc[w] = "ask"
    /\ Finish(w)
    /\ UNCHANGED <<storage, rows, asked, charged, history>>

\* Mutant: the newest transaction is found first.
InsertFirst(w) ==
    rows' = <<[key |-> key[w], checkout |-> checkout[w], ask |-> ask[w]]>> \o rows

Insert(w) ==
    rows' = Append(rows, [key |-> key[w], checkout |-> checkout[w], ask |-> ask[w]])

Save(w) ==
    /\ pc[w] = "save"
    /\ ~Conflicts(w)
    /\ Insert(w)
    /\ Goto(w, "audit")
    /\ UNCHANGED <<storage, asked, charged, key, ask, checkout, known, history>>

\* Mutant: the error is swallowed.
FailSilently(w) ==
    /\ Finish(w)
    /\ UNCHANGED <<storage, asked, charged, told, warned, abandoned>>

\* The caller gets an error.
Fail(w) ==
    /\ warned' = warned \cup {ask[w]}
    /\ Finish(w)
    /\ UNCHANGED <<storage, asked, charged, told, abandoned>>

\* Mutant: a payment that is stored already counts as saved.
SaveConflictsIgnored(w) ==
    /\ pc[w] = "save"
    /\ Conflicts(w)
    /\ Goto(w, "audit")
    /\ UNCHANGED <<storage, rows, asked, charged, key, ask, checkout, known, history>>

\* DuplicateTransactionIntegrityError
SaveConflicts(w) ==
    /\ pc[w] = "save"
    /\ Conflicts(w)
    /\ Fail(w)
    /\ UNCHANGED rows

\* The database fails, before it commits or after.
SaveFails(w) ==
    /\ pc[w] = "save"
    /\ storage = "postgres"
    /\ Fail(w)
    /\ \/ UNCHANGED rows
       \/ ~Conflicts(w) /\ Insert(w)

AuditAndAnswer(w) ==
    /\ pc[w] = "audit"
    /\ told' = told \cup {<<key[w], checkout[w]>>}
    /\ Finish(w)
    /\ UNCHANGED <<storage, rows, asked, charged, warned, abandoned>>

AuditFails(w) ==
    /\ pc[w] = "audit"
    /\ storage = "postgres"
    /\ Fail(w)
    /\ UNCHANGED rows

\* A process dies: its workers are gone, with the store if that was in memory.
Crash(W) ==
    /\ storage = "memory" => W = Workers
    /\ pc' = [w \in Workers |-> IF w \in W THEN "idle" ELSE pc[w]]
    /\ key' = [w \in Workers |-> IF w \in W THEN None ELSE key[w]]
    /\ ask' = [w \in Workers |-> IF w \in W THEN 0 ELSE ask[w]]
    /\ checkout' = [w \in Workers |-> IF w \in W THEN Blank ELSE checkout[w]]
    /\ known' = [w \in Workers |-> w \notin W /\ known[w]]
    /\ IF storage = "postgres"
         THEN /\ abandoned' = abandoned \cup ({ask[w] : w \in W} \ {0})
              /\ UNCHANGED <<rows, told>>
         ELSE /\ abandoned' = DOMAIN asked
              /\ rows' = <<>>
              /\ told' = {}
    /\ UNCHANGED <<storage, asked, charged, warned>>

Execute(w) ==
    \/ ReturnExisting(w) \/ LookupMisses(w) \/ LookupFails(w)
    \/ AskAccepted(w) \/ AskRefused(w) \/ AskLost(w) \/ AskUnsent(w)
    \/ Save(w) \/ SaveConflicts(w) \/ SaveFails(w) \/ AuditAndAnswer(w) \/ AuditFails(w)

Next ==
    \/ \E w \in Workers : (\E k \in Keys : Start(w, k)) \/ Execute(w)
    \/ \E W \in SUBSET Workers \ {{}} : Crash(W)

Spec == Init /\ [][Next]_vars

-----------------------------------------------------------------------------
Labels == {"idle", "lookup", "ask", "save", "audit"}

\* Type invariant.
TypeOK ==
    /\ storage \in StorageModes
    /\ rows \in Seq(Transaction)
    /\ asked \in Seq(Keys) /\ Len(asked) <= MaxAsks
    /\ charged \subseteq DOMAIN asked
    /\ pc \in [Workers -> Labels]
    /\ key \in [Workers -> Keys \cup {None}]
    /\ \A w \in Workers : pc[w] # "idle" => key[w] \in Keys
    /\ ask \in [Workers -> 0..Len(asked)]
    /\ \A w \in Workers : pc[w] \in {"save", "audit"} => ask[w] # 0
    /\ checkout \in [Workers -> Checkouts]
    /\ known \in [Workers -> BOOLEAN]
    /\ told \subseteq Keys \X Checkouts
    /\ warned \subseteq DOMAIN asked
    /\ abandoned \subseteq DOMAIN asked

\* A call that starts after a payment was stored for its key never reaches the
\* provider, whatever the other workers, the provider and the store do meanwhile: this
\* much the lookup guarantees (app/services/payment_service.py:320-332).
LateCallNotSent ==
    \A w \in Workers : pc[w] \in {"ask", "save", "audit"} => ~known[w]

\* On PostgreSQL, every caller that was told of a payment for one key was told of the
\* same payment, also when several of them got past the lookup together
\* (app/storage/models.py:25-55, app/services/payment_service.py:357-393).
CallersAgree ==
    storage = "postgres" => \A a, b \in told : a[1] = b[1] => a[2] = b[2]

\* A payment that a caller was told of is in the store under the caller's key, so that
\* its callback and every retry find it (app/services/payment_service.py:357-371).
ToldIsStored ==
    \A a \in told : \E i \in DOMAIN rows : rows[i].key = a[1] /\ rows[i].checkout = a[2]

\* No payment the customer was prompted for vanishes silently: it is stored, a worker
\* is about to store it, its caller was answered with an error, or the worker died
\* (app/services/payment_service.py:339-369).
ChargeIsAccounted ==
    \A n \in charged :
        \/ \E i \in DOMAIN rows : rows[i].ask = n
        \/ \E w \in Workers : ask[w] = n
        \/ n \in warned
        \/ n \in abandoned

\* "Prevent duplicate provider calls for repeated idempotency keys"
\* (docs/production-readiness-checklist.md:58): the customer is prompted once per key.
PromptedOncePerKey == \A m, n \in charged : asked[m] = asked[n] => m = n

\* Once a lookup of key k finds a transaction it always finds that one, also where
\* racing workers stored several for the key; only a restart with the store in memory
\* forgets it (app/storage/repositories.py:160-170, 314-326).
LookupIsStable ==
    [][rows' # <<>> =>
         \A k \in Keys : \A i \in DOMAIN rows :
            Finds(k, i) => i \in DOMAIN rows' /\ Finds(k, i)' /\ rows'[i] = rows[i]]_vars

=============================================================================
