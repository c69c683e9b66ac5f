# Verification of mpesa-mcp-server

TLA+ models of the payment core of mpesa-mcp-server, the TLC runs that check them on
small instances, and TLAPS proofs of their safety properties for every instance.
Paths `app/...` are under `src/` of the repository.

## The system

An AI assistant (over MCP) or an operator (over HTTP) asks for an M-Pesa STK push. A
policy lets the payment through, refuses it or turns it into an approval request. An
executed payment is a request to the provider followed by a pending transaction in the
store. Later the provider calls back with the result, and the callback settles the
transaction. Receipts, analytics and reconciliation read what was settled.

| Component (`app/...`) | State | Operations | Hard because |
|---|---|---|---|
| Transaction state machine (`transactions/state_machine.py`) | none | `can_transition`, `validate_transition` | pure |
| STK callback pipeline (`callbacks/routes.py`, `callbacks/handlers.py`) | none of its own: works on the next two | verify, replay check, validate, settle, audit | runs on a thread pool; five accesses to two stores per request; each may fail |
| Replay protection (`callbacks/replay.py`) | keys with a time to live, in memory or in Redis | `check_and_store` | look-up-then-store in memory; the key is spent before processing succeeds |
| Transaction store (`storage/repositories.py`, `storage/models.py`) | transactions, in memory or in PostgreSQL | save, find by key or checkout id, update status | no lock or version; unique columns only in PostgreSQL; ORM writes changed columns only |
| Payment service (`services/payment_service.py`) | none of its own | initiate, execute an approved payment | look-up, provider call and save are separate steps; answers may be lost |
| Approvals (`approvals/*.py`) | approval requests, always in memory | create, approve, reject, expire, list | routes write back stale copies; expiry by the clock; lost at restart |
| Payment policy (`safety/policy.py`) | none | evaluate | pure |
| Providers, Daraja client, circuit breaker (`payments/`, `daraja/`) | breaker state, failure count, opening time | initiate, query status, OAuth, retries | breaker updated by concurrent calls; timeouts; retries |
| Rate limiter (`rate_limit/limiter.py`) | counters per key and window, in memory or in Redis | `allow` | INCR and EXPIRE are two commands of callers that fail or die in between |
| MCP tools and tool policy (`mcp/`, `policy/`) | none | ten tools; policy, validation and rate limit in front of every service call | what gates, approvals, retries and restarts add up to |
| Reconciliation, status queries (`reconciliation/`, `services/transaction_service.py`) | none | compare the store with the provider | compares a snapshot with later answers, of which some never come |
| Receipts and analytics (`receipts/`, `services/receipt_service.py`, `analytics/`) | none | read settled transactions | trust rows that racing callbacks have written |
| Audit trail (`audit/`) | events | append | written after the state change it reports; may fail |
| Operator authentication (`auth/`) | a JWKS cache | validate a token, map roles | key rotation |
| Container, start-up (`bootstrap/`, `config/`) | which implementation serves each role | build, restart | what is in memory is per process and lost |

**Processes.** `scripts/start_app.py` and `scripts/run_mcp_server.py` are two processes, each
with a container of its own (`app/bootstrap/container.py:78-162`). They share PostgreSQL
and Redis when configured, and nothing else; the approvals are always per process
(`container.py:88`). The HTTP routes are plain `def` functions, so FastAPI runs them on a
pool of threads. MCP tools run one at a time in the event loop of their process.
So: *threads* that race are API requests, or several processes on one database; *one
request at a time* is one MCP process.

With two processes, an approval created over MCP is not visible to `/approvals/...`, and MCP
reviews are all by `mcp_operator` (`app/mcp/tools.py:520-523`). The concurrent instance of
`Approvals` is the deployment of the integration tests and of the architecture diagram:
one container behind both interfaces.

## Modules

| Module | Models | How |
|---|---|---|
| `TransactionStates` | the state machine | the statuses and `CanTransition`, used by the others |
| `PaymentLifecycle` | what readers of the store are promised | abstract: a payment is recorded pending, settled once with a reported result, then final |
| `Callbacks` | callback pipeline, replay store, status update | one action per access to a shared store; `pc[t]` is where thread `t` is suspended, `req[t]` the request it holds |
| `PaymentExecution` | `_execute_stk_push` with the provider and the store | `lookup`, `ask`, `save`, `audit` are the four places a worker can be suspended or die |
| `Approvals` | approval service, repository, `execute_approved_payment` | one action per repository access; `copy[t]` is the approval as thread `t` read it |
| `DarajaClient` | the circuit breaker and the calls that go through it | `pc[c]` is where caller `c` is in its call; the breaker's methods are cut where they read the clock |
| `RateLimiter` | both rate limiters | `at[c]` is where caller `c` is in `allow()`; in Redis a caller can be between INCR, EXPIRE and TTL |
| `StoreReaders` | reconciliation, status queries, receipts, on a store that callbacks change | `copy[rd]` are the rows as reader `rd` has read them, `about[rd]` those it has still to ask the provider about |
| `McpServer` | the MCP process: the gate, all ten tools, the payment policy, its approvals, payment execution | extends the last two; `pc`, `tool`, `subject` are the one call it serves |
| `MC...` | values of the constants for TLC | |
| `..._proofs` | theorems about the module of that name | `CallbacksRefinement_proofs`: what `Callbacks` implements |

**Callbacks.** A request is a record of the fields the handler tells apart (checkout id, result
code, receipt, amount, phone) and `trusted`, the outcome of the secret and the source check.
`Receive` is the route up to the replay check; `RejectDuplicate`, `AdmitNew`+`StoreKey`,
`SetIfNew`, `SkipReplay` are `check_and_store` of the two stores and its absence; `Process` is
the handler up to the update; `LoadForUpdate` and `Store` are `update_transaction_status`,
which reads, validates, and writes without a condition on what it read. Faults are actions:
Redis or the database fails before or after it did its work, the in-memory tables raise when they
change under a walk, the process restarts. `writers` and `accepted` are history.
`SettledRow` models the difference between the stores: the in-memory one replaces the record,
the ORM sends only the columns that differ from what it loaded.
Two mappings say what the pipeline is for others: `Lifecycle` (status and receipt of each row, for `PaymentLifecycle`)
and `StoreView` (the same with the results about to be written, for `StoreReaders` without its readers).

**PaymentExecution.** `asked[n]` is the key of the n-th request the provider received and `n` is
also the checkout id it answers with (or `Blank`). `charged` are the requests it accepted, that is, the
customer's phone rang. An answer can be an acceptance, a refusal (stored as pending just
the same: only exceptions stop the service), lost after the provider took the request or not, or
the request never left. `told`, `warned`, `abandoned` are history: what callers learned.

**Approvals.** Reviews are a set of operators (`review_count` is its size). `due[a]` is the clock
having passed `expires_at`. `Get` and `Review` are the two checks of
`execute_approved_payment` and `approve_request`, `SaveReview` the save of the whole copy,
`Execute` the payment; `Load` and `Write` are `update_status`; `List` and `Walk` the sweep.

**DarajaClient.** The breaker has no lock, and CPython 3.12 (the pinned version) switches threads only
at calls and loop ends. So a method of the breaker is atomic up to its call of the clock and from
there on: `BeforeCall` and `Elapsed` are the two halves of `before_call`/`state`, `RecordFailure`
and `StoreOpenedAt` those of `record_failure`, `RecordSuccess` is one step. Times are kept as
ages (`opened_ago`, `read_ago[c]`), which `Tick` advances and which stop growing where the code no
longer tells them apart. `healthy` is the provider: while it is not, the OAuth step and the
request may also fail, or answer in a form the code does not count as a failure. The retry loop
and the HTTP error kinds are part of those two outcomes.

**RateLimiter.** Time is a tick; `left[k]` is what remains of the window of key `k`. `AllowInMemory` is one step,
since that limiter serves one process. `Incr`, `Expire` and `Ttl` are the three commands; `LimiterFails`
is Redis failing before or after it executed one, `LimiterCrash` the death of the caller's process, and
the `lost` keys are those whose EXPIRE was lost with either. `recent[i]` is how many
admissions of one key there were at most `i` ticks ago.

**StoreReaders.** A pass of reconciliation reads all rows (`StartReconciliation`), asks the provider row by row
(`Compare`) and reports (`Report`). Meanwhile callbacks load a row and write it in two steps
(`CallbackLoads`, `CallbackWrites`), as in `Callbacks` on PostgreSQL, so that two of them may overwrite each other; a callback may
also fail instead of writing (`CallbackFails`), and a restart ends all of them (`CallbacksEnd`). `writing[p]` is a set of results, so that
one which was written may be written again by another callback with the same. That this is what callbacks do is `ImplementsStore`.
`Answers` is what the three providers can say to a status query, an exception included.

**McpServer.** A call goes from `Call` (policy and validation passed) through the limiter to the service. `Initiate`,
`InitiateBlocked`, `RequestApproval` are `initiate_stk_push` and `initiate_payment` by the verdict of the payment policy;
`NothingToReview`, `ExpireOverdue`, `Approve`, `Reject` are the approval tools, for the one reviewer that
this process has; `Lookup`, `Ask`, `Save` are `_execute_stk_push`, with `AskFails` and `SaveFails` its errors (the racing
workers are those of `PaymentExecution`); `StartRead`, `ContinueRead`, `Receipt`, `ReadNothing` are the tools that read. `Die` and
`Start` restart the process, which forgets its approvals and its windows in memory. The other processes
appear where they share something: `PeerCalls` and the rest in the Redis limiter, `StoreChanges` in PostgreSQL.
`prompts[p]` counts the customer's prompts since the agent last got an error for `p`.

## Checks

| Run | Instance | Distinct states | Shows |
|---|---|---|---|
| `callbacks_threads` | 2 threads, 2 payments, 7 payloads, 2 stores x 3 replay modes | 1.3 M | what the pipeline guarantees when callbacks race; on PostgreSQL it does to the store what `StoreReaders` expects |
| `callbacks_serial` | 1 thread, 1 payment, 5 payloads, PostgreSQL, 3 replay modes | 2.2 k | it implements `PaymentLifecycle`; a payment whose callback keeps coming is settled |
| `callbacks_terminal` | 2 threads, PostgreSQL, Redis | violation | two racing callbacks overwrite a terminal state |
| `execution_workers` | 2 workers, 2 keys, up to 3 provider requests, both stores | 315 k | what the idempotency look-up and the unique columns guarantee |
| `execution_duplicate` | 2 workers, 1 key, 2 requests | violation | two workers past the look-up both prompt the customer |
| `approvals_threads` | 2 threads, a one-reviewer and a two-reviewer approval, 2 operators | 2.3 M | the quorum survives stale copies; overdue requests are refused |
| `approvals_serial` | 1 thread, the same approvals, executions counted to 2 | 63 k | at most one execution, none after closing; overdue approvals are closed |
| `approvals_twice` | 2 threads, the same approvals, executions counted to 2 | violation | two overlapping requests to approve both execute the payment |
| `daraja_callers` | 2 callers, threshold 2, recovery window 2, suspension 1 | 118 k | state, count and opening time agree; the breaker closes after the last outage |
| `daraja_break` | 2 callers, threshold 1 | violation | a late success makes the check of another call raise `TypeError` |
| `mcp_server` | ten deployments of one MCP process, 5 payments, 1 approval at a time, a peer process at the same Redis | 42 k | gate, approvals, lookup, limiter and readers together: nothing over the limit or barred is prompted, and what the agent wants is stored in the end |
| `reconciliation_alarm` | 1 payment that the provider completes, Daraja | violation | a failed status query is reported as a failed payment |

**Bounds.** Two threads are enough for every race of two read-then-write sequences, and the safety
properties are proved for any number. The payloads of `MCCallbacks` are one of each kind the
handler tells apart: success, failure, untrusted, wrong amount, wrong phone, metadata missing, result
code missing (in the serial run), and a success of another payment. Three provider requests on two keys
let a key be asked for twice while the other one is in progress. `MaxExecutions` is 1 where executions
are not looked at and 2 where `ExecutedOnce` counts them. Threads, workers, keys
and operators are symmetric; no liveness property is checked under symmetry.
The breaker's window of two ticks with suspensions of one tells "young", "recovered" and "read before"
apart; failures are counted up to the threshold, since more change nothing. `MaxAsks` stops the provider, never the workers: a worker that cannot ask may still fail unsent.

The ten deployments of `mcp_server` (chosen in `Init`) put one question each, so that their states do not
multiply: payments that are blocked, above the limit, and for two reviewers, unlimited by rate; a payment by both tools with
windows in memory, and by one tool in Redis with a peer; an approval with windows of its own; a payment with everything
that reads it, for each provider; and no initiation at all. The amounts `zero`, `small`/`silent`, `large`, `high` lie on each
side of 0, `MAX_STK_AMOUNT` and `HIGH_RISK_AMOUNT_THRESHOLD`; only `small` is called back, with a success and a failure that may
race, and `silent` never is. One phone number is enough because the limiter's keys do not touch each other. A window
lasts two ticks and admits two payments or one review, which makes a burst of three possible and the bound of
`BurstBound` (twice the limit less one) tight. The approval id is used again when its approval is closed and its windows
have ended (`Free`). Counters stop one above the limit (`Cap`). Payments age only where reconciliation may run, the
only reader of their age. Peers ask for the watched key only. `Window` is positive: the settings accept 0 and less, which
are not modelled; limits may be any integer.

**Fairness.** A thread that can go on is scheduled (weak fairness of its handler): the thread pool.
For `EventuallySettled` the provider redelivers (strong fairness of `Receive`), keys
expire, and no access of a callback that agrees with its payment fails every single time (strong
fairness of each access): nothing weaker can settle a payment, and the audit is not
assumed to succeed. That instance leaves out payloads that share the replay key
`<checkout, code, receipt>` of a good one while disagreeing in amount or phone: the code lets
those block the good one for a window each time, which redelivery alone cannot beat. For
`OverdueIsClosed` operators keep looking at the pending list (or calling
`/approvals/expire-stale`; nothing in the server does it by itself) and not
every sweep fails at its first step; a failing audit may still end each sweep in the middle.
For `EventuallyCloses` calls keep coming, since the breaker looks at the clock only when it is called.
`FairSpec` of `McpServer`: the process serves the call it has begun, peers finish theirs, the clock ticks (weak
fairness); the agent goes on initiating what it wants, approving what is pending and running reconciliation (strong
fairness: each waits for the one process to be idle); and faults end (`Fault` lists them: deaths, failing Redis, database, provider
or audit, and approvals that come due under review). Approvals still come due at any other time, and windows still fill. `StoredEventually`
excuses two things, both real: a lost EXPIRE, which limits a key for good, and other processes that never
stop asking for the same key, which can take every window. Payments that take an approval are covered by it only where the limiter
is off (`Payable`): that the windows of the approval tools cannot keep such a payment from being stored is not checked. `StuckIsReported` needs no answer from the provider.

### Disagreements with the documentation

- `TerminalIsFinal`: README.md:168 says terminal states cannot be overwritten by duplicate or
  late callbacks. With one at a time that is so (`FinalIfSerial` is proved), and a thread that
  has settled a payment never updates it again (`LateCallbackRefused`); of two callbacks that overlap the later write wins (`app/storage/repositories.py:348`).
- `PromptedOncePerKey`: docs/production-readiness-checklist.md:58 says duplicate provider calls are
  prevented for repeated keys. They are for calls that start after the first was stored
  (`LateCallNotSent` is proved), not for calls that overlap (`app/services/payment_service.py:320`).
- `ExecutedOnce`: docs/production-readiness-checklist.md:75 and docs/demo-guide.md:394 say that an approved payment is executed exactly once. With one
  request at a time it is (`OnceIfSerial` is proved); two requests to approve that both read the approval as pending
  (`app/approvals/service.py:117`) both execute it, and with two reviewers a late first review on a stale copy reopens a closed approval, which can
  then be executed again. The idempotency look-up prevents the second prompt only if the executions themselves do not overlap.
- Without a run of its own: `reject_request` does not check that the approval is pending (`app/approvals/service.py:228`; `approve_request` does, line 117), so
  the record of an executed payment can say rejected, where README.md:135 speaks of rejecting a pending request. `Reject` models it.
- `CheckDoesNotBreak`: the breaker tests its opening time, reads the clock, and then uses the opening time
  (`app/daraja/client.py:101-102`). A call from before the opening that succeeds in between sets it to
  `None`, and the check raises `TypeError`, which no caller turns into a provider error
  (docstring at line 107; README.md:316).
- `FailureFindingIsTrue`: the status that Daraja's client returns says what became of the *query*, and is `failed` when that timed
  out, was refused or met the open breaker (`app/daraja/client.py:355-420`). Reconciliation takes it for the payment's
  (`app/reconciliation/service.py:103`) and says "provider reports failed" of a payment that was completed, just in the
  case for which docs/production-validation-runbook.md:166 recommends it.

## Proofs

All theorems hold for every value of the constants that satisfies the assumption named in the module
(`CallbackConstants`, `ExecutionConstants`, `ApprovalConstants`, `ClientConstants`, `LimiterConstants`, `ReaderConstants`,
`McpConstants`); these say what kind of value each constant is, that the model's "none" values are not data, that a callback carries
a receipt number whenever it reports success, and that the limiter has the keys it may be asked for. No theorem assumes finite threads,
payments, operators, peers or deployments.

Each of the first four (`Callbacks` to `DarajaClient`) has the same shape: `TypeCorrect`, then an inductive invariant `IInv` with
`InvInit` and `InvStep`, then one theorem per property, a consequence of `IInv`. Lemmas about a
step of *one* thread that leaves the shared state alone are stated once and used for most actions.

- **Callbacks.** The properties are not inductive: a thread about to write needs to be known to hold
  a checked request (`CheckedReports`), a row is stored only if recorded (`StoredIsRecorded`: otherwise
  `SavePending` could reset a settled row), and a thread in `writers` has left a terminal row
  (`WrittenIsSettled`, `AuditedIsSettled`). `RowSettled` shows that *any* checked write keeps
  the row's facts, which is why races cost finality and nothing else.
- **CallbacksRefinement.** Three results on PostgreSQL. `StoreRefined`, for any number of threads: every step of the pipeline is, through
  `StoreView`, a step of the store of `StoreReaders` or none. A thread at `write` found its row pending, and what it writes is a
  result reported for that row (`CheckedReports`); when it ends, its result leaves `writing` unless another thread has the same one.
  Attempting this proof showed that `StoreReaders` had no callback that fails after its load, no restart, no two callbacks with
  one result, and no failure that carries a receipt number; it has them now, and its theorems were proved again. `FinalIfSerial` and
  `LifecycleRefined` are about one request at a time and rest on `Loaded`, the fact that races destroy: what a thread is
  about to write to is still pending; and on `FreshRows`, by which a row that is not settled has no receipt to keep.
- **PaymentExecution.** `CallersAgree` follows from `ToldIsStored` and `KeysUnique`, and `KeysUnique`
  from the guard of `Save`. `ChargeIsAccounted` needs `AskedBeforeSave` (a worker that gives up
  before an answer holds no request) and `SavedIsStored` (one that finishes after the save has its row).
  `LookupStable` is the action property: the store grows at its end or is lost (`RowsGrow`).
- **Approvals.** `ReviewersAsked` and `CopyAsked` follow reviews into stale copies and back;
  `LateRefused` follows a late request: what was due stays due, and what one reviewer closes
  stays closed, so the second check refuses. `OnceIfSerial` and `ClosedIfSerial` are about one thread, as in an MCP process; they are
  false of two. `Serial` is what is inductive then: the copy that a request works on is what the repository holds, an
  approval whose payment was executed is not open any more, and one that is about to be executed is approved and was not.
- **DarajaClient.** `CountedIfOpen` needs a fact about time, `ClosedIsYoung`: a failure that reaches the
  threshold, is suspended, and stores its opening time after a success leaves a closed breaker with an
  opening time, and a caller still comparing could half-open it. It does not, because that time is no older
  than a suspension (`MaxDelay < Recovery`, the assumption that a thread is not suspended for a whole
  recovery window). It takes three callers, so it is the proof that shows it and not the run of two.
  `SoundIfSerial` is the other side of `daraja_break`: of one caller the check is never broken (`ComparesTime`).
- **RateLimiter.** `CounterExpires` is inductive with the types: a counter that becomes positive puts its caller at
  `expire`, which only sets the end of the window or ends in `lost`; the tick that ends a window clears its counter.
  `BurstsBounded` needs no sum, since `recent` is cumulative, but an invariant about the window that is open and the one before it (`Spread`): what is younger
  than the window was admitted by its counter, all but its first request if it started later than that; and the window
  before it left at most its limit less one that still count, since its first request is a whole window old when it ends.
  That a late EXPIRE cannot stretch this is `ExpiringAlone`: who sets the end of a window is alone in it, and it had none.
- **StoreReaders.** `ReceiptIsBacked` needs `StoredIsBacked`: a failure that overwrites a success leaves its number
  on the row, but any write of "completed" brings its own. `CleanIsSettled` needs `SettledStaysSettled`: between settled
  statuses callbacks may overwrite each other, but none goes back to pending, so an old copy that was settled is good enough.
- **McpServer.** The composition is taken apart rather than proved again: `ImplementsLimiter` and `ImplementsReaders`
  show that every step of the system is, for the limiter and for the readers, one of their own or none
  (`LimiterInside`, `ReadersInside`), so that their theorems hold here (`CountersExpireHere`, `BurstsBoundedHere`, `ReadersTellTheTruth`, `TypeCorrect`).
  The rest rests on `Process`, by which a service is only run for something of its kind. `QuorumProtects` follows
  the payment under way (`Released`): it is within the limit or was released by one reviewer where one is enough. `BarredStaysBarred`:
  without a call of the initiating tools there is no approval that the others could act upon
  (`NothingInitiated`). `SecondPromptFollowsError` and `StoredIsNotPrompted` need that a payment that has prompted
  the customer is stored, in the process's hands, or was answered with an error (`Once`), and that callbacks only write rows that exist.

`OnceIfSerial`, `ClosedIfSerial`, `FinalIfSerial`, `LifecycleRefined` and `SoundIfSerial` assume that there is one thread, which is what
the runs that check these properties have (and PostgreSQL for the two of `Callbacks`): the violations `callbacks_terminal`, `approvals_twice` and `daraja_break` are what happens without
that assumption. It is the deployment of one MCP process, and of an API whose callbacks do not overlap.

Only model-checked: the liveness properties `EventuallySettled`, `OverdueIsClosed`, `EventuallyCloses`, `LimitedUntilReset`, `StoredEventually` and
`StuckIsReported`. Liveness under fairness is out of the prover's reach. All safety invariants, action properties and refinements
that the passing runs check are proved. No recursive definition is used in any module.

## Plan

1. *Done*: `TransactionStates`, `Callbacks`, `PaymentLifecycle`, `PaymentExecution`, `Approvals`,
   `DarajaClient`, `RateLimiter`, `StoreReaders`, and `McpServer`, which composes the last two with the gate, the
   policy, the approvals and the execution of payments; each with its proofs, and the refinements of `PaymentLifecycle`
   and `StoreReaders` by `Callbacks`.
2. Proofs: that the payments of `McpServer` are executed as `PaymentExecution` does it for one worker, and its approvals reviewed as
   `Approvals` does for one thread.
3. A window of length 0 or less, and the derivation of idempotency keys from their fields.

## Not modelled

- **Operator authentication** (`auth/`): an identity provider is built for every request
  (`app/auth/security.py:157`) and keeps nothing for the next, so there is no state for steps to disagree about; token checks and
  role mapping are functions of one request.
- **Operator API, dashboard, frontend**: read-only views, besides the approval routes (`Approvals`) and the admin's
  reconciliation (a reader of `StoreReaders`).
- **Analytics**: counts over one read. Their tools are the step `ReadNothing` of `McpServer`.
- **Observability, settings validation, health checks, start-up scripts**: log and metric output, correlation ids, and
  straight-line code whose state no other part reads.
- **Migrations**: run once, offline. The unique constraints they create are modelled where the store uses them.
- Calls that the tool policy or the validation of the input turns away: they change nothing.
- CIDR matching, phone normalisation and the derivation of idempotency keys are abstracted to their
  outcomes. The order of a list of reviewers, timestamps and reasons are left out.

`PROJECT.json` lists every component with its status and every hazard with the properties that cover it.
