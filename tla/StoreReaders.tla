----------------------------- MODULE StoreReaders -----------------------------
(***************************************************************************)
(* The readers of the transaction store: reconciliation                     *)
(* (app/reconciliation/service.py), receipts (app/services/                 *)
(* receipt_service.py, app/receipts/generator.py) and status queries        *)
(* (app/services/transaction_service.py).  They write nothing but audit     *)
(* events.  Meanwhile payments are recorded, grow old, and are settled by   *)
(* callbacks of the API process, which load a row and write it in two steps *)
(* as in Callbacks: overlapping ones may overwrite each other's result.     *)
(***************************************************************************)
EXTENDS TransactionStates

CONSTANTS
    Payments,       \* stored payments, by idempotency key or checkout request id
    Results,        \* Results[p]: the results <<status, receipt>> that the
                    \* provider reports for p in its callbacks
    NoReceipt,      \* mpesa_receipt_number is None
    Readers,        \* who reads: an MCP process, or the admin's request
    Providers,      \* subset of DOMAIN Answers: PAYMENT_PROVIDER and DARAJA_MODE
    NoAnswer        \* the status query raised

ASSUME ReaderConstants ==
    /\ Providers \subseteq {"mock", "daraja", "airtel"}
    /\ \A p \in Payments : \A r \in Results[p] :
         /\ r = <<r[1], r[2]>> /\ r[1] \in TerminalStatuses
         /\ r[1] = "completed" => r[2] # NoReceipt

VARIABLES
    provider,       \* the configured provider
    status,         \* status[p]: "absent" until the payment is stored
    receipt,        \* receipt[p]: the M-Pesa receipt number stored with it
    writing,        \* writing[p]: results of callbacks that found p pending and are
                    \* about to write
    old,            \* payments older than RECONCILIATION_STALE_PENDING_MINUTES
    reading,        \* reading[rd]: what reader rd is doing
    about,          \* about[rd]: the payments it has still to query
    copy,           \* copy[rd]: status of the payments as rd has read them
    findings,       \* findings[rd]: the findings of its reconciliation so far
    reported,       \* history: payments that a reconciliation reported as stale
    receipts        \* history: receipts handed out, <<payment, status, receipt>>

storeState == <<status, receipt, writing, old>>
readerState == <<provider, reading, about, copy, findings, reported, receipts>>
readersVars == <<storeState, readerState>>

StoredStatuses == Statuses \cup {"absent"}

\* check_transaction_status.  The mock has completed everything and Airtel's mock
\* nothing.  Daraja's answer says whether the query was accepted; "failed" stands for a
\* query that was refused, timed out or met the open circuit breaker.
Answers == [mock |-> {"completed"}, airtel |-> {"query_accepted"},
            daraja |-> {"query_accepted", "failed", NoAnswer}]

FinalProviderStatuses == {"completed", "failed"}

Reconcilable == {"pending", "completed", "failed"}

-----------------------------------------------------------------------------
ReadersInit ==
    /\ provider \in Providers
    /\ status = [p \in Payments |-> "absent"]
    /\ receipt = [p \in Payments |-> NoReceipt]
    /\ writing = [p \in Payments |-> {}]
    /\ old = {}
    /\ reading = [rd \in Readers |-> "nothing"]
    /\ about = [rd \in Readers |-> {}]
    /\ copy = [rd \in Readers |-> [p \in Payments |-> "absent"]]
    /\ findings = [rd \in Readers |-> {}]
    /\ reported = {}
    /\ receipts = {}

Record(p) ==
    /\ status[p] = "absent"
    /\ status' = [status EXCEPT ![p] = "pending"]
    /\ UNCHANGED <<receipt, writing, old, readerState>>

PassStaleAge(p) ==
    /\ status[p] # "absent"
    /\ old' = old \cup {p}
    /\ UNCHANGED <<status, receipt, writing, readerState>>

\* A callback validates the transition of the row it loaded ...
CallbackLoads(p, r) ==
    /\ CanTransition(status[p], r[1])
    /\ writing' = [writing EXCEPT ![p] = @ \cup {r}]
    /\ UNCHANGED <<status, receipt, old, readerState>>

\* The callback does not write its result any more, unless another has the same.
OneLess(p, r) ==
    /\ r \in writing[p]
    /\ \/ writing' = [writing EXCEPT ![p] = @ \ {r}]
       \/ UNCHANGED writing

\* ... and writes its result; only columns that changed since the load are written.
CallbackWrites(p, r) ==
    /\ OneLess(p, r)
    /\ status' = [status EXCEPT ![p] = r[1]]
    /\ receipt' = [receipt EXCEPT ![p] = IF r[2] = NoReceipt THEN @ ELSE r[2]]
    /\ UNCHANGED <<old, readerState>>

\* The store fails before the result is written: the callback ends without it.
CallbackFails(p, r) ==
    /\ OneLess(p, r)
    /\ UNCHANGED <<status, receipt, old, readerState>>

\* The API process starts again: no callback is under way.
CallbacksEnd ==
    /\ writing' = [p \in Payments |-> {}]
    /\ UNCHANGED <<status, receipt, old, readerState>>

-----------------------------------------------------------------------------
\* Mutant: a receipt number is enough.
HasReceiptNumber(p) == receipt[p] # NoReceipt

\* ReceiptGenerator.generate
Receiptable(p) == status[p] = "completed" /\ receipt[p] # NoReceipt

\* generate_receipt, whichever reference the payment is asked for by; its audit event may
\* fail, and then nobody gets the receipt.
GenerateReceipt(rd, p) ==
    /\ reading[rd] = "nothing"
    /\ Receiptable(p)
    /\ receipts' = receipts \cup {<<p, status[p], receipt[p]>>}
    /\ UNCHANGED <<provider, reading, about, copy, findings, reported, storeState>>

\* TransactionService.check_transaction_status reads the row, which may not exist ...
StartQuery(rd, p) ==
    /\ reading[rd] = "nothing"
    /\ reading' = [reading EXCEPT ![rd] = "status"]
    /\ about' = [about EXCEPT ![rd] = {p}]
    /\ copy' = [copy EXCEPT ![rd][p] = status[p]]
    /\ UNCHANGED <<provider, findings, reported, receipts, storeState>>

ReaderDone(rd) ==
    /\ reading' = [reading EXCEPT ![rd] = "nothing"]
    /\ about' = [about EXCEPT ![rd] = {}]
    /\ copy' = [copy EXCEPT ![rd] = [p \in Payments |-> "absent"]]
    /\ findings' = [findings EXCEPT ![rd] = {}]
    /\ UNCHANGED <<provider, receipts, storeState>>

\* ... and tells the provider's answer with that copy, or fails with the query.
AnswerQuery(rd) ==
    /\ reading[rd] = "status"
    /\ ReaderDone(rd)
    /\ UNCHANGED reported

Finding(p, kind) == [payment |-> p, kind |-> kind]

\* run_reconciliation takes all rows once; which pending ones are stale is decided by
\* the time it began.
StartReconciliation(rd) ==
    /\ reading[rd] = "nothing"
    /\ reading' = [reading EXCEPT ![rd] = "reconcile"]
    /\ copy' = [copy EXCEPT ![rd] = status]
    /\ about' = [about EXCEPT ![rd] = {p \in Payments : status[p] \in Reconcilable}]
    /\ findings' = [findings EXCEPT ![rd] =
                        {Finding(p, "stale") : p \in {q \in old : status[q] = "pending"}}]
    /\ UNCHANGED <<provider, reported, receipts, storeState>>

\* Mutant: a pending payment that the provider has completed is no mismatch.
MismatchesOfFinal(p, local, answer) ==
    IF answer \notin FinalProviderStatuses THEN {Finding(p, "unknown")}
    ELSE IF local # answer /\ local # "pending" THEN {Finding(p, answer)}
    ELSE {}

\* _provider_mismatch_findings: a finding for an answer that is not final, and for one
\* that differs from the local status.
Mismatches(p, local, answer) ==
    IF answer \notin FinalProviderStatuses THEN {Finding(p, "unknown")}
    ELSE IF local # answer THEN {Finding(p, answer)}
    ELSE {}

\* Mutant: an exception of the provider ends the pass.
CompareOrRaise(rd, p) ==
    /\ reading[rd] = "reconcile" /\ p \in about[rd]
    /\ \E answer \in Answers[provider] :
         IF answer = NoAnswer
           THEN ReaderDone(rd)
           ELSE /\ findings' = [findings EXCEPT ![rd] =
                                    @ \cup Mismatches(p, copy[rd][p], answer)]
                /\ about' = [about EXCEPT ![rd] = @ \ {p}]
                /\ UNCHANGED <<provider, reading, copy, receipts, storeState>>
    /\ UNCHANGED reported

\* One row: the provider is asked, and its answer compared with the copy of the row.
Compare(rd, p) ==
    /\ reading[rd] = "reconcile" /\ p \in about[rd]
    /\ \E answer \in Answers[provider] :
         findings' = [findings EXCEPT ![rd] = @ \cup Mismatches(p, copy[rd][p], answer)]
    /\ about' = [about EXCEPT ![rd] = @ \ {p}]
    /\ UNCHANGED <<provider, reading, copy, reported, receipts, storeState>>

Report(rd) ==
    /\ reading[rd] = "reconcile" /\ about[rd] = {}
    /\ reported' = reported \cup {f.payment : f \in {g \in findings[rd] : g.kind = "stale"}}
    /\ ReaderDone(rd)

\* The process of a reader dies, or its request is given up.
ReaderDies(rd) == ReaderDone(rd) /\ UNCHANGED reported

Read(rd) == AnswerQuery(rd) \/ Report(rd) \/ \E p \in Payments : Compare(rd, p)

StoreMoves ==
    \/ \E p \in Payments :
         \/ PassStaleAge(p)
         \/ \E r \in Results[p] :
              CallbackLoads(p, r) \/ CallbackWrites(p, r) \/ CallbackFails(p, r)
    \/ CallbacksEnd

\* The readers by themselves, on payments recorded by anyone.
ReadersNext ==
    \/ \E p \in Payments : Record(p)
    \/ StoreMoves
    \/ \E rd \in Readers :
         \/ \E p \in Payments : GenerateReceipt(rd, p) \/ StartQuery(rd, p)
         \/ StartReconciliation(rd) \/ Read(rd) \/ ReaderDies(rd)

ReadersSpec == ReadersInit /\ [][ReadersNext]_readersVars

-----------------------------------------------------------------------------
Kinds == {"stale", "unknown"} \cup FinalProviderStatuses

\* Type invariant of the readers.
ReadersTypeOK ==
    /\ provider \in Providers
    /\ status \in [Payments -> StoredStatuses]
    /\ DOMAIN receipt = Payments
    /\ \A p \in Payments : writing[p] \subseteq Results[p]
    /\ old \subseteq Payments
    /\ reading \in [Readers -> {"nothing", "status", "reconcile"}]
    /\ about \in [Readers -> SUBSET Payments]
    /\ copy \in [Readers -> [Payments -> StoredStatuses]]
    /\ findings \in [Readers -> SUBSET [payment : Payments, kind : Kinds]]
    /\ reported \subseteq Payments

\* Every receipt handed out says "completed" and carries a number that the provider
\* reported with a success of that payment, though a failure that overwrites a success
\* leaves the number on the failed row (app/receipts/generator.py:41-53).
ReceiptIsBacked == \A t \in receipts : <<t[2], t[3]>> \in Results[t[1]] /\ t[2] = "completed"

\* A reconciliation that has looked at a payment and reports nothing about it leaves no
\* doubt: the payment is settled by then, although the rows were read at the start and
\* the provider asked one row at a time (app/reconciliation/service.py:65-71).
CleanIsSettled ==
    \A rd \in Readers : reading[rd] = "reconcile" =>
        \A p \in Payments \ about[rd] :
            copy[rd][p] # "absent" /\ (\A f \in findings[rd] : f.payment # p)
                => status[p] \in TerminalStatuses

\* "Use reconciliation before deciding whether a payment was accepted by the provider"
\* (docs/production-validation-runbook.md:166): where a finding says "provider reports
\* failed" (app/reconciliation/service.py:109, 119) the provider has a failure to report.
FailureFindingIsTrue ==
    \A rd \in Readers : \A f \in findings[rd] :
        f.kind = "failed" => \E r \in Results[f.payment] : r[1] # "completed"

=============================================================================
