-------------------------- MODULE StoreReaders_proofs --------------------------
(***************************************************************************)
(* Proofs about StoreReaders, for every set of payments, results, readers   *)
(* and providers: what a receipt and the silence of a reconciliation are    *)
(* worth while callbacks overwrite each other.                              *)
(***************************************************************************)
EXTENDS StoreReaders, TLAPS

\* A payment's stored receipt number, if it counts as completed, came with a success.
StoredIsBacked ==
    \A p \in Payments :
        status[p] = "completed" /\ receipt[p] # NoReceipt => <<"completed", receipt[p]>> \in Results[p]

\* A row that a reader has read as settled is settled.
SettledStaysSettled ==
    \A rd \in Readers : \A p \in Payments :
        copy[rd][p] \in TerminalStatuses => status[p] \in TerminalStatuses

ReadersInv == ReadersTypeOK /\ StoredIsBacked /\ ReceiptIsBacked /\ SettledStaysSettled /\ CleanIsSettled

\* A callback that has loaded a row writes a result of the provider.
LEMMA WrittenResult ==
    ASSUME ReadersTypeOK, NEW p \in Payments, NEW r \in Results[p]
    PROVE  /\ r[1] \in TerminalStatuses /\ r[1] \in Statuses
           /\ r[1] = "completed" => r[2] # NoReceipt /\ <<"completed", r[2]>> \in Results[p]
BY ReaderConstants DEF Statuses

\* The findings of one comparison are about the row compared.
LEMMA MismatchesType ==
    ASSUME NEW p \in Payments, NEW local, NEW answer
    PROVE  /\ Mismatches(p, local, answer) \subseteq [payment : Payments, kind : Kinds]
           /\ \A f \in Mismatches(p, local, answer) : f.payment = p
           /\ Mismatches(p, local, answer) = {} => local = answer /\ local \in TerminalStatuses
<1>1. CASE answer \notin FinalProviderStatuses
  <2>1. Mismatches(p, local, answer) = {[payment |-> p, kind |-> "unknown"]}
    BY <1>1 DEF Mismatches, Finding
  <2>2. "unknown" \in Kinds
    BY DEF Kinds
  <2>3. [payment |-> p, kind |-> "unknown"] \in [payment : Payments, kind : Kinds]
    BY <2>2
  <2>4. Mismatches(p, local, answer) # {}
    BY <2>1
  <2>5. \A f \in Mismatches(p, local, answer) : f = [payment |-> p, kind |-> "unknown"]
    BY <2>1
  <2>. QED
    BY <2>3, <2>4, <2>5
<1>2. CASE answer \in FinalProviderStatuses /\ local # answer
  <2>1. Mismatches(p, local, answer) = {[payment |-> p, kind |-> answer]}
    BY <1>2 DEF Mismatches, Finding
  <2>2. answer \in Kinds
    BY <1>2 DEF Kinds
  <2>3. [payment |-> p, kind |-> answer] \in [payment : Payments, kind : Kinds]
    BY <2>2
  <2>4. Mismatches(p, local, answer) # {}
    BY <2>1
  <2>5. \A f \in Mismatches(p, local, answer) : f = [payment |-> p, kind |-> answer]
    BY <2>1
  <2>. QED
    BY <2>3, <2>4, <2>5
<1>3. CASE answer \in FinalProviderStatuses /\ local = answer
  <2>1. Mismatches(p, local, answer) = {}
    BY <1>3 DEF Mismatches
  <2>. QED
    BY <1>3, <2>1 DEF FinalProviderStatuses, TerminalStatuses
<1>. QED
  BY <1>1, <1>2, <1>3

\* A reader that is done keeps nothing.
LEMMA DoneType ==
    ASSUME ReadersTypeOK, NEW rd \in Readers, ReaderDone(rd)
    PROVE  /\ provider' \in Providers
           /\ reading' \in [Readers -> {"nothing", "status", "reconcile"}]
           /\ about' \in [Readers -> SUBSET Payments]
           /\ copy' \in [Readers -> [Payments -> StoredStatuses]]
           /\ findings' \in [Readers -> SUBSET [payment : Payments, kind : Kinds]]
BY DEF ReadersTypeOK, ReaderDone, StoredStatuses

\* A callback that writes its result, or fails to, adds none.
LEMMA OneLessWriting ==
    ASSUME NEW p \in Payments, NEW r, OneLess(p, r)
    PROVE  \A q \in Payments : /\ writing'[q] \subseteq writing[q]
                               /\ q # p => writing'[q] = writing[q]
<1>1. CASE writing' = [writing EXCEPT ![p] = @ \ {r}]
  BY <1>1
<1>2. CASE UNCHANGED writing
  BY <1>2
<1>. QED
  BY <1>1, <1>2 DEF OneLess

\* Nothing is stored at first and nobody reads.
LEMMA ReadersInvInit == ReadersInit => ReadersInv
BY DEF ReadersInit, ReadersInv, ReadersTypeOK, StoredIsBacked, ReceiptIsBacked, SettledStaysSettled,
       CleanIsSettled, StoredStatuses, TerminalStatuses

\* Every step of a payment, a callback or a reader keeps the readers well-formed.
LEMMA ReadersTypeStep == ReadersTypeOK /\ [ReadersNext]_readersVars => ReadersTypeOK'
<1>. SUFFICES ASSUME ReadersTypeOK, [ReadersNext]_readersVars
              PROVE  ReadersTypeOK'
  OBVIOUS
<1>. USE DEF storeState, readerState
<1>1. ASSUME NEW p \in Payments, Record(p)
      PROVE  ReadersTypeOK'
  BY <1>1 DEF Record, ReadersTypeOK, StoredStatuses, Statuses
<1>2. ASSUME NEW p \in Payments, PassStaleAge(p)
      PROVE  ReadersTypeOK'
  BY <1>2 DEF PassStaleAge, ReadersTypeOK
<1>3. ASSUME NEW p \in Payments, NEW r \in Results[p], CallbackLoads(p, r)
      PROVE  ReadersTypeOK'
  BY <1>3 DEF CallbackLoads, ReadersTypeOK
<1>4. ASSUME NEW p \in Payments, NEW r \in Results[p], CallbackWrites(p, r) \/ CallbackFails(p, r)
      PROVE  ReadersTypeOK'
  <2>1. status' \in [Payments -> StoredStatuses] /\ DOMAIN receipt' = Payments
    BY <1>4, WrittenResult DEF CallbackWrites, CallbackFails, ReadersTypeOK, StoredStatuses
  <2>2. \A q \in Payments : writing'[q] \subseteq writing[q]
    BY <1>4, OneLessWriting DEF CallbackWrites, CallbackFails
  <2>. QED
    BY <1>4, <2>1, <2>2 DEF CallbackWrites, CallbackFails, ReadersTypeOK
<1>5. ASSUME NEW rd \in Readers, NEW p \in Payments, GenerateReceipt(rd, p)
      PROVE  ReadersTypeOK'
  BY <1>5 DEF GenerateReceipt, ReadersTypeOK
<1>6. ASSUME NEW rd \in Readers, NEW p \in Payments, StartQuery(rd, p)
      PROVE  ReadersTypeOK'
  BY <1>6 DEF StartQuery, ReadersTypeOK
<1>7. ASSUME NEW rd \in Readers, StartReconciliation(rd)
      PROVE  ReadersTypeOK'
  <2>1. {Finding(p, "stale") : p \in {q \in old : status[q] = "pending"}}
            \subseteq [payment : Payments, kind : Kinds]
    BY DEF ReadersTypeOK, Finding, Kinds
  <2>. QED
    BY <1>7, <2>1 DEF StartReconciliation, ReadersTypeOK
<1>8. ASSUME NEW rd \in Readers, NEW p \in Payments, Compare(rd, p)
      PROVE  ReadersTypeOK'
  <2>1. PICK answer \in Answers[provider] :
            findings' = [findings EXCEPT ![rd] = @ \cup Mismatches(p, copy[rd][p], answer)]
    BY <1>8 DEF Compare
  <2>2. findings' \in [Readers -> SUBSET [payment : Payments, kind : Kinds]]
    BY <2>1, MismatchesType DEF ReadersTypeOK
  <2>. QED
    BY <1>8, <2>2 DEF Compare, ReadersTypeOK
<1>9. ASSUME NEW rd \in Readers, AnswerQuery(rd) \/ Report(rd) \/ ReaderDies(rd)
      PROVE  ReadersTypeOK'
  <2>1. ReaderDone(rd)
    BY <1>9 DEF AnswerQuery, Report, ReaderDies
  <2>2. reported' \subseteq Payments
    BY <1>9 DEF AnswerQuery, Report, ReaderDies, ReadersTypeOK
  <2>. QED
    BY <2>1, <2>2, DoneType DEF ReaderDone, ReadersTypeOK
<1>10. CASE CallbacksEnd
  BY <1>10 DEF CallbacksEnd, ReadersTypeOK
<1>11. CASE UNCHANGED readersVars
  BY <1>11 DEF readersVars, ReadersTypeOK
<1>. QED
  BY <1>1, <1>2, <1>3, <1>4, <1>5, <1>6, <1>7, <1>8, <1>9, <1>10, <1>11 DEF ReadersNext, StoreMoves,
     Read

\* A settled payment stays settled, though not with the same result.
LEMMA StaysSettled ==
    ASSUME ReadersTypeOK, [ReadersNext]_readersVars, NEW p \in Payments, status[p] \in TerminalStatuses
    PROVE  status'[p] \in TerminalStatuses
<1>. USE DEF storeState, readerState
<1>1. ASSUME NEW q \in Payments, Record(q)
      PROVE  status'[p] \in TerminalStatuses
  BY <1>1 DEF Record, ReadersTypeOK, TerminalStatuses
<1>2. ASSUME NEW q \in Payments, NEW r \in Results[q], CallbackWrites(q, r)
      PROVE  status'[p] \in TerminalStatuses
  BY <1>2, WrittenResult DEF CallbackWrites, ReadersTypeOK
<1>3. CASE UNCHANGED status
  BY <1>3
<1>. QED
  BY <1>1, <1>2, <1>3 DEF ReadersNext, StoreMoves, Read, PassStaleAge, CallbackLoads,
     CallbackFails, CallbacksEnd, GenerateReceipt, StartQuery, StartReconciliation, Compare, AnswerQuery, Report,
     ReaderDies, ReaderDone, readersVars

\* Receipts: only a callback changes what is stored, and only a receipt what is handed out.
LEMMA ReceiptStep ==
    ASSUME ReadersTypeOK, StoredIsBacked, ReceiptIsBacked, [ReadersNext]_readersVars
    PROVE  StoredIsBacked' /\ ReceiptIsBacked'
<1>. USE DEF storeState, readerState
<1>1. ASSUME NEW p \in Payments, Record(p)
      PROVE  StoredIsBacked' /\ ReceiptIsBacked'
  BY <1>1 DEF Record, ReadersTypeOK, StoredIsBacked, ReceiptIsBacked
<1>2. ASSUME NEW p \in Payments, NEW r \in Results[p], CallbackWrites(p, r)
      PROVE  StoredIsBacked' /\ ReceiptIsBacked'
  <2>1. StoredIsBacked'
    <3>1. /\ status' = [status EXCEPT ![p] = r[1]]
          /\ receipt' = [receipt EXCEPT ![p] = IF r[2] = NoReceipt THEN @ ELSE r[2]]
      BY <1>2 DEF CallbackWrites
    <3>2. \A q \in Payments \ {p} : status'[q] = status[q] /\ receipt'[q] = receipt[q]
      BY <3>1 DEF ReadersTypeOK
    <3>3. status'[p] = r[1] /\ (r[2] # NoReceipt => receipt'[p] = r[2])
      BY <3>1 DEF ReadersTypeOK
    <3>4. r[1] = "completed" => r[2] # NoReceipt /\ <<"completed", r[2]>> \in Results[p]
      BY WrittenResult
    <3>. QED
      BY <3>2, <3>3, <3>4 DEF StoredIsBacked
  <2>. QED
    BY <1>2, <2>1 DEF CallbackWrites, ReceiptIsBacked
<1>3. ASSUME NEW rd \in Readers, NEW p \in Payments, GenerateReceipt(rd, p)
      PROVE  StoredIsBacked' /\ ReceiptIsBacked'
  BY <1>3 DEF GenerateReceipt, Receiptable, StoredIsBacked, ReceiptIsBacked
<1>4. CASE UNCHANGED <<status, receipt, receipts>>
  BY <1>4 DEF StoredIsBacked, ReceiptIsBacked
<1>. QED
  BY <1>1, <1>2, <1>3, <1>4 DEF ReadersNext, StoreMoves, Read, PassStaleAge, CallbackLoads,
     CallbackFails, CallbacksEnd, StartQuery, StartReconciliation, Compare, AnswerQuery, Report, ReaderDies, ReaderDone, readersVars

\* Reconciliation: rows are settled when they are read or stay under suspicion.
LEMMA CleanStep ==
    ASSUME ReadersTypeOK, SettledStaysSettled, CleanIsSettled, [ReadersNext]_readersVars
    PROVE  SettledStaysSettled' /\ CleanIsSettled'
<1>. USE DEF storeState, readerState
<1>0. \A p \in Payments : status[p] \in TerminalStatuses => status'[p] \in TerminalStatuses
  BY StaysSettled
<1>1. ASSUME NEW rd \in Readers, NEW p \in Payments, StartQuery(rd, p)
      PROVE  SettledStaysSettled' /\ CleanIsSettled'
  BY <1>1 DEF StartQuery, ReadersTypeOK, SettledStaysSettled, CleanIsSettled
<1>2. ASSUME NEW rd \in Readers, StartReconciliation(rd)
      PROVE  SettledStaysSettled' /\ CleanIsSettled'
  <2>1. SettledStaysSettled'
    BY <1>2 DEF StartReconciliation, ReadersTypeOK, SettledStaysSettled
  <2>2. ASSUME NEW p \in Payments, p \notin about'[rd], copy'[rd][p] # "absent"
        PROVE  status'[p] \in TerminalStatuses
    BY <1>2, <2>2 DEF StartReconciliation, ReadersTypeOK, Reconcilable, StoredStatuses, Statuses,
       TerminalStatuses
  <2>3. \A d \in Readers \ {rd} : /\ reading'[d] = reading[d] /\ about'[d] = about[d]
                                  /\ copy'[d] = copy[d] /\ findings'[d] = findings[d]
    BY <1>2 DEF StartReconciliation, ReadersTypeOK
  <2>. QED
    BY <1>0, <2>1, <2>2, <2>3 DEF CleanIsSettled
<1>3. ASSUME NEW rd \in Readers, NEW p \in Payments, Compare(rd, p)
      PROVE  SettledStaysSettled' /\ CleanIsSettled'
  <2>1. PICK answer \in Answers[provider] :
            findings' = [findings EXCEPT ![rd] = @ \cup Mismatches(p, copy[rd][p], answer)]
    BY <1>3 DEF Compare
  <2>2. /\ UNCHANGED <<status, copy, reading>> /\ about' = [about EXCEPT ![rd] = @ \ {p}]
        /\ \A d \in Readers : findings[d] \subseteq findings'[d]
        /\ Mismatches(p, copy[rd][p], answer) \subseteq findings'[rd]
    BY <1>3, <2>1 DEF Compare, ReadersTypeOK
  <2>3. (\A f \in findings'[rd] : f.payment # p) => status[p] \in TerminalStatuses
    <3>1. SUFFICES ASSUME \A f \in findings'[rd] : f.payment # p
                   PROVE  copy[rd][p] \in TerminalStatuses
      BY DEF SettledStaysSettled
    <3>2. Mismatches(p, copy[rd][p], answer) = {}
      BY <2>2, <3>1, MismatchesType
    <3>. QED
      BY <3>2, MismatchesType
  <2>4. SettledStaysSettled'
    BY <2>2 DEF SettledStaysSettled
  <2>5. ASSUME NEW d \in Readers, reading'[d] = "reconcile",
               NEW q \in Payments \ about'[d], copy'[d][q] # "absent",
               \A f \in findings'[d] : f.payment # q
        PROVE  status'[q] \in TerminalStatuses
    <3>1. CASE d = rd /\ q = p
      BY <2>2, <2>3, <2>5, <3>1
    <3>2. CASE ~(d = rd /\ q = p)
      <4>1. q \notin about[d]
        BY <2>2, <2>5, <3>2 DEF ReadersTypeOK
      <4>. QED
        BY <2>2, <2>5, <4>1 DEF CleanIsSettled
    <3>. QED
      BY <3>1, <3>2
  <2>. QED
    BY <2>4, <2>5 DEF CleanIsSettled
<1>4. ASSUME NEW rd \in Readers, AnswerQuery(rd) \/ Report(rd) \/ ReaderDies(rd)
      PROVE  SettledStaysSettled' /\ CleanIsSettled'
  <2>1. ReaderDone(rd)
    BY <1>4 DEF AnswerQuery, Report, ReaderDies
  <2>. QED
    BY <2>1 DEF ReaderDone, ReadersTypeOK, SettledStaysSettled, CleanIsSettled, TerminalStatuses
<1>5. CASE UNCHANGED <<reading, about, copy, findings>>
  BY <1>0, <1>5 DEF SettledStaysSettled, CleanIsSettled
<1>. QED
  BY <1>1, <1>2, <1>3, <1>4, <1>5 DEF ReadersNext, StoreMoves, Read, Record, PassStaleAge,
     CallbackLoads, CallbackWrites, CallbackFails, CallbacksEnd, GenerateReceipt, readersVars

-----------------------------------------------------------------------------
\* The inductive invariant of the readers: what is stored as completed is backed by the
\* provider, and what a reader has read as settled has stayed so.
THEOREM ReadersInvariance == ReadersSpec => []ReadersInv
<1>1. ReadersInv /\ [ReadersNext]_readersVars => ReadersInv'
  BY ReadersTypeStep, ReceiptStep, CleanStep DEF ReadersInv
<1>. QED
  BY <1>1, ReadersInvInit, PTL DEF ReadersSpec

\* Type correctness of the readers (app/reconciliation/service.py,
\* app/services/receipt_service.py, app/services/transaction_service.py).
THEOREM ReadersTypeCorrect == ReadersSpec => []ReadersTypeOK
BY ReadersInvariance, PTL DEF ReadersInv

\* No callback that overwrites another makes a receipt say what the provider did not
\* (app/receipts/generator.py:41-53).
THEOREM ReceiptsBacked == ReadersSpec => []ReceiptIsBacked
BY ReadersInvariance, PTL DEF ReadersInv

\* Whatever callbacks do between the reading of the rows and the provider's answers, a
\* payment that reconciliation is silent about is settled
\* (app/reconciliation/service.py:65-71).
THEOREM SilenceIsGolden == ReadersSpec => []CleanIsSettled
BY ReadersInvariance, PTL DEF ReadersInv

=============================================================================
