----------------------- MODULE PaymentExecution_proofs -----------------------
(***************************************************************************)
(* Proofs about PaymentExecution, for every set of workers and keys, any    *)
(* number of provider requests and both stores: type correctness, the      *)
(* safety invariants, and that lookups are stable.                         *)
(***************************************************************************)
EXTENDS PaymentExecution, TLAPS

\* Inserting a transaction adds a last row and leaves the others alone.
LEMMA InsertAppends ==
    ASSUME TypeOK, NEW w \in Workers, Insert(w), pc[w] = "save"
    PROVE  /\ rows' \in Seq(Transaction)
           /\ DOMAIN rows' = 1..(Len(rows) + 1)
           /\ \A i \in DOMAIN rows : i \in DOMAIN rows' /\ rows'[i] = rows[i]
           /\ rows'[Len(rows) + 1] =
                [key |-> key[w], checkout |-> checkout[w], ask |-> ask[w]]
<1>1. [key |-> key[w], checkout |-> checkout[w], ask |-> ask[w]] \in Transaction
  <2>1. key[w] \in Keys /\ checkout[w] \in Checkouts
    BY DEF TypeOK
  <2>2. ask[w] \in 0..Len(asked) /\ ask[w] # 0 /\ Len(asked) \in Nat /\ Len(asked) <= MaxAsks
    BY DEF TypeOK
  <2>3. ask[w] \in Asks
    BY <2>2, ExecutionConstants DEF Asks
  <2>. QED
    BY <2>1, <2>3 DEF Transaction
<1>2. rows \in Seq(Transaction)
  BY DEF TypeOK
<1>. QED
  BY <1>1, <1>2 DEF Insert

-----------------------------------------------------------------------------
\* Before the first call the store is empty and every worker is idle.
LEMMA TypeInit == Init => TypeOK
BY ExecutionConstants DEF Init, TypeOK, Labels, Checkouts

\* Every step of a worker, and a crash, keep the store and the workers well-formed.
LEMMA TypeStep == TypeOK /\ [Next]_vars => TypeOK'
<1>. SUFFICES ASSUME TypeOK, [Next]_vars
              PROVE  TypeOK'
  OBVIOUS
<1>. DEFINE WorkersOK ==
              /\ pc' \in [Workers -> Labels]
              /\ key' \in [Workers -> Keys \cup {None}]
              /\ \A w \in Workers : pc'[w] # "idle" => key'[w] \in Keys
              /\ ask' \in [Workers -> 0..Len(asked')]
              /\ \A w \in Workers : pc'[w] \in {"save", "audit"} => ask'[w] # 0
              /\ checkout' \in [Workers -> Checkouts]
              /\ known' \in [Workers -> BOOLEAN]
<1>a. /\ Len(asked) \in Nat /\ DOMAIN asked = 1..Len(asked)
      /\ asked \in Seq(Keys) /\ Len(asked) <= MaxAsks
  BY DEF TypeOK
<1>f. ASSUME NEW w \in Workers, Finish(w), asked' = asked \/ Len(asked') = Len(asked) + 1
      PROVE  WorkersOK
  BY <1>a, <1>f DEF TypeOK, Finish, Goto, Labels, Checkouts
<1>r. ASSUME NEW w \in Workers, NEW accepts \in BOOLEAN, Receive(w, accepts)
      PROVE  /\ asked' \in Seq(Keys) /\ Len(asked') <= MaxAsks
             /\ Len(asked') = Len(asked) + 1 /\ DOMAIN asked' = 1..(Len(asked) + 1)
             /\ Len(asked) + 1 \in Checkouts
             /\ charged' \subseteq DOMAIN asked'
  BY <1>a, <1>r, ExecutionConstants DEF TypeOK, Receive, Checkouts, Asks
<1>1. ASSUME NEW w \in Workers, NEW k \in Keys, Start(w, k)
      PROVE  TypeOK'
  BY <1>1 DEF TypeOK, Start, Goto, history, Labels, Stored
<1>2. ASSUME NEW w \in Workers, ReturnExisting(w)
      PROVE  TypeOK'
  <2>1. PICK i \in DOMAIN rows : told' = told \cup {<<key[w], rows[i].checkout>>}
    BY <1>2 DEF ReturnExisting
  <2>2. <<key[w], rows[i].checkout>> \in Keys \X Checkouts
    <3>1. rows[i] \in Transaction
      BY DEF TypeOK
    <3>2. rows[i].checkout \in Checkouts
      BY <3>1 DEF Transaction
    <3>. QED
      BY <1>2, <3>2 DEF ReturnExisting, TypeOK
  <2>. QED
    BY <1>2, <1>f, <2>1, <2>2 DEF ReturnExisting, TypeOK
<1>3. ASSUME NEW w \in Workers, LookupMisses(w)
      PROVE  TypeOK'
  BY <1>3 DEF TypeOK, LookupMisses, Goto, history, Labels
<1>4. ASSUME NEW w \in Workers, LookupFails(w) \/ AskUnsent(w)
      PROVE  TypeOK'
  BY <1>4, <1>f DEF LookupFails, AskUnsent, history, TypeOK
<1>5. ASSUME NEW w \in Workers, AskAccepted(w) \/ AskRefused(w)
      PROVE  TypeOK'
  <2>1. PICK accepts \in BOOLEAN, answered \in {Len(asked) + 1, Blank} :
          Receive(w, accepts) /\ Answer(w, answered)
    BY <1>5 DEF AskAccepted, AskRefused
  <2>2. WorkersOK
    BY <1>a, <1>r, <2>1 DEF Receive, Answer, Goto, Labels, TypeOK, Checkouts
  <2>. QED
    BY <1>a, <1>r, <2>1, <2>2 DEF Answer, history, TypeOK
<1>6. ASSUME NEW w \in Workers, AskLost(w)
      PROVE  TypeOK'
  <2>1. PICK accepts \in BOOLEAN : Receive(w, accepts)
    BY <1>6 DEF AskLost
  <2>. QED
    BY <1>a, <1>6, <1>f, <1>r, <2>1 DEF AskLost, TypeOK
<1>7. ASSUME NEW w \in Workers, Save(w)
      PROVE  TypeOK'
  BY <1>7, InsertAppends DEF Save, Goto, history, Labels, TypeOK
<1>8. ASSUME NEW w \in Workers, SaveConflicts(w) \/ SaveFails(w) \/ AuditFails(w)
      PROVE  TypeOK'
  <2>1. Fail(w) /\ pc[w] \in {"save", "audit"} /\ rows' \in Seq(Transaction)
    BY <1>8, InsertAppends DEF SaveConflicts, SaveFails, AuditFails, TypeOK
  <2>2. ask[w] \in DOMAIN asked
    BY <1>a, <2>1 DEF TypeOK
  <2>. QED
    BY <1>a, <1>f, <2>1, <2>2, <1>8
       DEF Fail, SaveConflicts, SaveFails, AuditFails, TypeOK
<1>9. ASSUME NEW w \in Workers, AuditAndAnswer(w)
      PROVE  TypeOK'
  <2>1. <<key[w], checkout[w]>> \in Keys \X Checkouts
    BY <1>9 DEF AuditAndAnswer, TypeOK
  <2>. QED
    BY <1>9, <1>f, <2>1 DEF AuditAndAnswer, TypeOK
<1>10. ASSUME NEW W \in SUBSET Workers, Crash(W)
       PROVE  TypeOK'
  <2>1. WorkersOK
    BY <1>a, <1>10 DEF Crash, TypeOK, Labels, Checkouts
  <2>2. {ask[w] : w \in W} \ {0} \subseteq DOMAIN asked
    BY <1>a DEF TypeOK
  <2>3. /\ rows' \in Seq(Transaction) /\ told' \subseteq Keys \X Checkouts
        /\ abandoned' \subseteq DOMAIN asked
    <3>1. CASE storage = "postgres"
      BY <1>10, <2>2, <3>1 DEF Crash, TypeOK
    <3>2. CASE storage # "postgres"
      BY <1>10, <3>2 DEF Crash, TypeOK
    <3>. QED
      BY <3>1, <3>2
  <2>4. UNCHANGED <<storage, asked, charged, warned>>
    BY <1>10 DEF Crash
  <2>. QED
    BY <2>1, <2>3, <2>4 DEF TypeOK
<1>11. CASE UNCHANGED vars
  BY <1>11 DEF vars, TypeOK
<1>. QED
  BY <1>1, <1>2, <1>3, <1>4, <1>5, <1>6, <1>7, <1>8, <1>9, <1>10, <1>11 DEF Next, Execute

\* Type correctness of payment execution.
THEOREM TypeCorrect == Spec => []TypeOK
BY TypeInit, TypeStep, PTL DEF Spec

-----------------------------------------------------------------------------
\* The transactions that are stored stay where they are.
RowsKept == \A i \in DOMAIN rows : i \in DOMAIN rows' /\ rows'[i] = rows[i]

\* A transaction is never changed or moved: the store grows at its end or is lost.
LEMMA RowsGrow == TypeOK /\ [Next]_vars => rows' = <<>> \/ RowsKept
<1>. SUFFICES ASSUME TypeOK, [Next]_vars
              PROVE  rows' = <<>> \/ RowsKept
  OBVIOUS
<1>1. ASSUME NEW w \in Workers, Save(w) \/ SaveFails(w)
      PROVE  RowsKept
  <2>1. CASE UNCHANGED rows
    BY <2>1 DEF RowsKept
  <2>2. CASE Insert(w) /\ pc[w] = "save"
    BY <2>2, InsertAppends DEF RowsKept
  <2>. QED
    BY <1>1, <2>1, <2>2 DEF Save, SaveFails
<1>2. ASSUME NEW w \in Workers, (\E k \in Keys : Start(w, k)) \/ Execute(w),
             ~Save(w), ~SaveFails(w)
      PROVE  UNCHANGED rows
  BY <1>2 DEF Start, Execute, ReturnExisting, LookupMisses, LookupFails, AskAccepted,
              AskRefused, AskLost, AskUnsent, Answer, SaveConflicts, AuditAndAnswer, AuditFails
<1>3. ASSUME NEW W \in SUBSET Workers, Crash(W)
      PROVE  UNCHANGED rows \/ rows' = <<>>
  BY <1>3 DEF Crash
<1>. QED
  BY <1>1, <1>2, <1>3 DEF Next, Execute, vars, RowsKept

\* Once a lookup finds a transaction it finds that one until the store is lost
\* (app/storage/repositories.py:160-170, 314-326).
THEOREM LookupStable == Spec => LookupIsStable
<1>1. TypeOK /\ [Next]_vars =>
        [rows' # <<>> =>
           \A k \in Keys : \A i \in DOMAIN rows :
              Finds(k, i) => i \in DOMAIN rows' /\ Finds(k, i)' /\ rows'[i] = rows[i]]_vars
  <2>. SUFFICES ASSUME TypeOK, [Next]_vars, rows' # <<>>,
                       NEW k \in Keys, NEW i \in DOMAIN rows, Finds(k, i)
                PROVE  i \in DOMAIN rows' /\ Finds(k, i)' /\ rows'[i] = rows[i]
    OBVIOUS
  <2>1. RowsKept
    BY RowsGrow
  <2>2. \A j \in 1..(i - 1) : j \in DOMAIN rows
    BY DEF TypeOK
  <2>. QED
    BY <2>1, <2>2 DEF RowsKept, Finds
<1>. QED
  BY <1>1, TypeCorrect, PTL DEF Spec, LookupIsStable

-----------------------------------------------------------------------------
\* A worker that has yet to look its key up knows no more than the store does.
KnownIsStored == \A w \in Workers : pc[w] = "lookup" /\ known[w] => Stored(key[w])

\* Only a worker with the provider's answer has a provider request.
AskedBeforeSave == \A w \in Workers : pc[w] \in {"idle", "lookup", "ask"} => ask[w] = 0

\* A worker that is past its save has its payment in the store.
SavedIsStored ==
    \A w \in Workers :
        pc[w] = "audit" =>
            \E i \in DOMAIN rows :
                rows[i] = [key |-> key[w], checkout |-> checkout[w], ask |-> ask[w]]

\* The unique column of the PostgreSQL table.
KeysUnique ==
    storage = "postgres" =>
        \A i, j \in DOMAIN rows : rows[i].key = rows[j].key => i = j

\* The inductive invariant.
IInv ==
    /\ TypeOK
    /\ KnownIsStored
    /\ LateCallNotSent
    /\ AskedBeforeSave
    /\ SavedIsStored
    /\ ToldIsStored
    /\ KeysUnique
    /\ ChargeIsAccounted

\* In the initial state nothing is stored and every worker is idle.
LEMMA InvInit == Init => IInv
<1>. SUFFICES ASSUME Init
              PROVE  IInv
  OBVIOUS
<1>1. TypeOK
  BY TypeInit
<1>2. KnownIsStored /\ LateCallNotSent /\ AskedBeforeSave /\ SavedIsStored
  BY DEF Init, KnownIsStored, LateCallNotSent, AskedBeforeSave, SavedIsStored
<1>3. ToldIsStored /\ KeysUnique /\ ChargeIsAccounted
  BY DEF Init, ToldIsStored, KeysUnique, ChargeIsAccounted
<1>. QED
  BY <1>1, <1>2, <1>3 DEF IInv

\* What a step of one worker w has to respect so that every part of the invariant but
\* KeysUnique is kept: the store only grows, and w claims nothing that is not stored.
LEMMA WorkerMoves ==
    ASSUME IInv, TypeOK', NEW w \in Workers, RowsKept,
           \A u \in Workers \ {w} :
               /\ pc'[u] = pc[u] /\ key'[u] = key[u] /\ ask'[u] = ask[u]
               /\ checkout'[u] = checkout[u] /\ known'[u] = known[u],
           pc'[w] = "lookup" /\ known'[w] =>
               \E i \in DOMAIN rows : rows[i].key = key'[w],
           pc'[w] \in {"ask", "save", "audit"} => ~known'[w],
           pc'[w] \in {"idle", "lookup", "ask"} => ask'[w] = 0,
           pc'[w] = "audit" =>
               \E i \in DOMAIN rows' :
                   rows'[i] = [key |-> key'[w], checkout |-> checkout'[w], ask |-> ask'[w]],
           \A a \in told' \ told :
               \E i \in DOMAIN rows : rows[i].key = a[1] /\ rows[i].checkout = a[2],
           warned \subseteq warned', abandoned \subseteq abandoned',
           \A n \in charged' \ charged : ask'[w] = n \/ n \in warned',
           \/ ask[w] = 0
           \/ ask'[w] = ask[w]
           \/ ask[w] \in warned'
           \/ \E i \in DOMAIN rows : rows[i].ask = ask[w]
    PROVE  /\ KnownIsStored' /\ LateCallNotSent' /\ AskedBeforeSave' /\ SavedIsStored'
           /\ ToldIsStored' /\ ChargeIsAccounted'
<1>1. KnownIsStored'
  <2>. SUFFICES ASSUME NEW u \in Workers, pc'[u] = "lookup", known'[u]
                PROVE  \E i \in DOMAIN rows' : rows'[i].key = key'[u]
    BY DEF KnownIsStored, Stored
  <2>1. PICK i \in DOMAIN rows : rows[i].key = key'[u]
    <3>1. CASE u = w
      BY <3>1
    <3>2. CASE u # w
      BY <3>2 DEF IInv, KnownIsStored, Stored
    <3>. QED
      BY <3>1, <3>2
  <2>. QED
    BY <2>1 DEF RowsKept
<1>2. LateCallNotSent' /\ AskedBeforeSave'
  BY DEF IInv, LateCallNotSent, AskedBeforeSave
<1>3. SavedIsStored'
  <2>. SUFFICES ASSUME NEW u \in Workers \ {w}, pc'[u] = "audit"
                PROVE  \E i \in DOMAIN rows' :
                          rows'[i] = [key |-> key'[u], checkout |-> checkout'[u], ask |-> ask'[u]]
    BY DEF SavedIsStored
  <2>1. PICK i \in DOMAIN rows :
               rows[i] = [key |-> key[u], checkout |-> checkout[u], ask |-> ask[u]]
    BY DEF IInv, SavedIsStored
  <2>. QED
    BY <2>1 DEF RowsKept
<1>4. ToldIsStored'
  <2>. SUFFICES ASSUME NEW a \in told'
                PROVE  \E i \in DOMAIN rows' : rows'[i].key = a[1] /\ rows'[i].checkout = a[2]
    BY DEF ToldIsStored
  <2>1. PICK i \in DOMAIN rows : rows[i].key = a[1] /\ rows[i].checkout = a[2]
    BY DEF IInv, ToldIsStored
  <2>. QED
    BY <2>1 DEF RowsKept
<1>5. ChargeIsAccounted'
  <2>. SUFFICES ASSUME NEW n \in charged', n \notin warned', n \notin abandoned'
                PROVE  \/ \E i \in DOMAIN rows' : rows'[i].ask = n
                       \/ \E u \in Workers : ask'[u] = n
    BY DEF ChargeIsAccounted
  <2>1. CASE n \notin charged
    BY <2>1
  <2>2. CASE \E i \in DOMAIN rows : rows[i].ask = n
    BY <2>2 DEF RowsKept
  <2>3. ASSUME NEW u \in Workers, ask[u] = n, n \in charged
        PROVE  \/ \E i \in DOMAIN rows' : rows'[i].ask = n
               \/ \E v \in Workers : ask'[v] = n
    <3>1. n # 0
      BY <2>3 DEF IInv, TypeOK
    <3>2. CASE u = w
      BY <2>3, <3>1, <3>2, <2>2
    <3>3. CASE u # w
      BY <2>3, <3>3
    <3>. QED
      BY <3>2, <3>3
  <2>. QED
    BY <2>1, <2>2, <2>3 DEF IInv, ChargeIsAccounted
<1>. QED
  BY <1>1, <1>2, <1>3, <1>4, <1>5

\* A worker that answers its caller, or gives up, with the store as it is keeps the
\* invariant if it leaves no payment unaccounted for.
LEMMA Finishes ==
    ASSUME IInv, TypeOK', NEW w \in Workers, Finish(w),
           UNCHANGED <<storage, rows, abandoned>>,
           \A a \in told' \ told :
               \E i \in DOMAIN rows : rows[i].key = a[1] /\ rows[i].checkout = a[2],
           warned \subseteq warned',
           \A n \in charged' \ charged : n \in warned',
           \/ ask[w] = 0
           \/ ask[w] \in warned'
           \/ \E i \in DOMAIN rows : rows[i].ask = ask[w]
    PROVE  IInv'
<1>1. /\ \A u \in Workers \ {w} :
             /\ pc'[u] = pc[u] /\ key'[u] = key[u] /\ ask'[u] = ask[u]
             /\ checkout'[u] = checkout[u] /\ known'[u] = known[u]
      /\ pc'[w] = "idle" /\ ask'[w] = 0
  BY DEF Finish, Goto, IInv, TypeOK
<1>2. RowsKept
  BY DEF RowsKept
<1>3. KnownIsStored' /\ LateCallNotSent' /\ AskedBeforeSave' /\ SavedIsStored'
      /\ ToldIsStored' /\ ChargeIsAccounted'
  BY <1>1, <1>2, WorkerMoves
<1>4. KeysUnique'
  BY DEF IInv, KeysUnique
<1>. QED
  BY <1>3, <1>4 DEF IInv

\* Inserting a transaction that does not conflict keeps the keys unique.
LEMMA InsertUnique ==
    ASSUME IInv, NEW w \in Workers, pc[w] = "save", Insert(w), ~Conflicts(w),
           UNCHANGED storage
    PROVE  KeysUnique' /\ RowsKept
<1>1. /\ DOMAIN rows' = 1..(Len(rows) + 1) /\ DOMAIN rows = 1..Len(rows) /\ Len(rows) \in Nat
      /\ \A i \in DOMAIN rows : i \in DOMAIN rows' /\ rows'[i] = rows[i]
      /\ rows'[Len(rows) + 1].key = key[w]
  <2>1. TypeOK /\ rows \in Seq(Transaction)
    BY DEF IInv, TypeOK
  <2>2. rows'[Len(rows) + 1] = [key |-> key[w], checkout |-> checkout[w], ask |-> ask[w]]
    BY <2>1, InsertAppends
  <2>. QED
    BY <2>1, <2>2, InsertAppends
<1>2. KeysUnique'
  <2>. SUFFICES ASSUME storage = "postgres", NEW i \in DOMAIN rows', NEW j \in DOMAIN rows',
                       rows'[i].key = rows'[j].key
                PROVE  i = j
    BY DEF KeysUnique
  <2>1. \A m \in DOMAIN rows : rows[m].key # key[w]
    BY DEF Conflicts
  <2>2. \A m \in DOMAIN rows' : m \in DOMAIN rows \/ m = Len(rows) + 1
    BY <1>1
  <2>. QED
    BY <1>1, <2>1, <2>2 DEF IInv, KeysUnique
<1>. QED
  BY <1>1, <1>2 DEF RowsKept

\* Every step of every worker, and a crash, keep the inductive invariant.
LEMMA InvStep == IInv /\ [Next]_vars => IInv'
<1>. SUFFICES ASSUME IInv, [Next]_vars
              PROVE  IInv'
  OBVIOUS
<1>t. TypeOK /\ TypeOK'
  BY TypeStep DEF IInv
<1>n. Len(asked) \in Nat /\ DOMAIN asked = 1..Len(asked)
  BY <1>t DEF TypeOK
<1>1. ASSUME NEW w \in Workers, NEW k \in Keys, Start(w, k)
      PROVE  IInv'
  <2>1. KnownIsStored' /\ LateCallNotSent' /\ AskedBeforeSave' /\ SavedIsStored'
        /\ ToldIsStored' /\ ChargeIsAccounted'
    <3>1. RowsKept
      BY <1>1 DEF Start, RowsKept
    <3>2. /\ pc'[w] = "lookup" /\ key'[w] = k /\ known'[w] = Stored(k)
          /\ ask'[w] = ask[w] /\ ask[w] = 0
          /\ \A u \in Workers \ {w} :
                /\ pc'[u] = pc[u] /\ key'[u] = key[u] /\ ask'[u] = ask[u]
                /\ checkout'[u] = checkout[u] /\ known'[u] = known[u]
      BY <1>1, <1>t DEF Start, Goto, TypeOK, IInv, AskedBeforeSave
    <3>. QED
      BY <1>1, <1>t, <3>1, <3>2, WorkerMoves DEF Start, history, Stored
  <2>2. KeysUnique'
    BY <1>1 DEF Start, IInv, KeysUnique
  <2>. QED
    BY <1>t, <2>1, <2>2 DEF IInv
<1>2. ASSUME NEW w \in Workers, ReturnExisting(w)
      PROVE  IInv'
  <2>1. ask[w] = 0
    BY <1>2 DEF ReturnExisting, IInv, AskedBeforeSave
  <2>2. \A a \in told' \ told :
          \E i \in DOMAIN rows : rows[i].key = a[1] /\ rows[i].checkout = a[2]
    BY <1>2 DEF ReturnExisting, Finds
  <2>. QED
    BY <1>2, <1>t, <2>1, <2>2, Finishes DEF ReturnExisting
<1>3. ASSUME NEW w \in Workers, LookupMisses(w)
      PROVE  IInv'
  <2>1. /\ pc[w] = "lookup" /\ pc'[w] = "ask" /\ ask[w] = 0
        /\ \A u \in Workers \ {w} : pc'[u] = pc[u]
        /\ UNCHANGED <<storage, rows, charged, key, ask, checkout, known, told, warned, abandoned>>
    BY <1>3 DEF LookupMisses, Goto, history, IInv, TypeOK, AskedBeforeSave
  <2>2. ~known[w]
    BY <1>3, <2>1 DEF LookupMisses, IInv, KnownIsStored, TypeOK
  <2>3. RowsKept
    BY <2>1 DEF RowsKept
  <2>4. KnownIsStored' /\ LateCallNotSent' /\ AskedBeforeSave' /\ SavedIsStored'
        /\ ToldIsStored' /\ ChargeIsAccounted'
    BY <1>t, <2>1, <2>2, <2>3, WorkerMoves
  <2>5. KeysUnique'
    BY <2>1 DEF IInv, KeysUnique
  <2>. QED
    BY <1>t, <2>4, <2>5 DEF IInv
<1>4. ASSUME NEW w \in Workers, LookupFails(w) \/ AskUnsent(w)
      PROVE  IInv'
  <2>1. ask[w] = 0
    BY <1>4 DEF LookupFails, AskUnsent, IInv, AskedBeforeSave
  <2>. QED
    BY <1>4, <1>t, <2>1, Finishes DEF LookupFails, AskUnsent, history
<1>5. ASSUME NEW w \in Workers, AskAccepted(w) \/ AskRefused(w)
      PROVE  IInv'
  <2>1. PICK accepts \in BOOLEAN, answered \in {Len(asked) + 1, Blank} :
          Receive(w, accepts) /\ Answer(w, answered)
    BY <1>5 DEF AskAccepted, AskRefused
  <2>2. /\ pc[w] = "ask" /\ pc'[w] = "save" /\ ask[w] = 0 /\ ask'[w] = Len(asked) + 1
        /\ charged' \subseteq charged \cup {Len(asked) + 1}
        /\ \A u \in Workers \ {w} :
              pc'[u] = pc[u] /\ ask'[u] = ask[u] /\ checkout'[u] = checkout[u]
        /\ UNCHANGED <<storage, rows, key, known, told, warned, abandoned>>
    BY <2>1 DEF Receive, Answer, Goto, history, IInv, TypeOK, AskedBeforeSave
  <2>3. ~known[w]
    BY <2>2 DEF IInv, LateCallNotSent
  <2>4. RowsKept
    BY <2>2 DEF RowsKept
  <2>5. KnownIsStored' /\ LateCallNotSent' /\ AskedBeforeSave' /\ SavedIsStored'
        /\ ToldIsStored' /\ ChargeIsAccounted'
    BY <1>t, <2>2, <2>3, <2>4, WorkerMoves
  <2>6. KeysUnique'
    BY <2>2 DEF IInv, KeysUnique
  <2>. QED
    BY <1>t, <2>5, <2>6 DEF IInv
<1>6. ASSUME NEW w \in Workers, AskLost(w)
      PROVE  IInv'
  <2>1. PICK accepts \in BOOLEAN : Receive(w, accepts)
    BY <1>6 DEF AskLost
  <2>2. ask[w] = 0 /\ \A n \in charged' \ charged : n \in warned'
    BY <1>6, <2>1 DEF AskLost, Receive, IInv, AskedBeforeSave
  <2>. QED
    BY <1>6, <1>t, <2>2, Finishes DEF AskLost
<1>7. ASSUME NEW w \in Workers, Save(w)
      PROVE  IInv'
  <2>1. KeysUnique' /\ RowsKept
    BY <1>7, InsertUnique DEF Save
  <2>2. /\ pc[w] = "save" /\ pc'[w] = "audit"
        /\ \A u \in Workers \ {w} : pc'[u] = pc[u]
        /\ UNCHANGED <<storage, charged, key, ask, checkout, known, told, warned, abandoned>>
    BY <1>7, <1>t DEF Save, Goto, history, TypeOK
  <2>3. ~known[w]
    BY <2>2 DEF IInv, LateCallNotSent
  <2>4. \E i \in DOMAIN rows' :
          rows'[i] = [key |-> key[w], checkout |-> checkout[w], ask |-> ask[w]]
    <3>1. Len(rows) \in Nat
      BY <1>t DEF TypeOK
    <3>2. pc[w] = "save" /\ Insert(w)
      BY <1>7 DEF Save
    <3>3. DOMAIN rows' = 1..(Len(rows) + 1)
      BY <1>t, <3>2, InsertAppends
    <3>4. rows'[Len(rows) + 1] = [key |-> key[w], checkout |-> checkout[w], ask |-> ask[w]]
      BY <1>t, <3>2, InsertAppends
    <3>. QED
      BY <3>1, <3>3, <3>4
  <2>5. KnownIsStored' /\ LateCallNotSent' /\ AskedBeforeSave' /\ SavedIsStored'
        /\ ToldIsStored' /\ ChargeIsAccounted'
    BY <1>t, <2>1, <2>2, <2>3, <2>4, WorkerMoves
  <2>. QED
    BY <1>t, <2>1, <2>5 DEF IInv
<1>8. ASSUME NEW w \in Workers, SaveConflicts(w) \/ SaveFails(w) \/ AuditFails(w)
      PROVE  IInv'
  <2>1. Fail(w)
    BY <1>8 DEF SaveConflicts, SaveFails, AuditFails
  <2>2. KeysUnique' /\ RowsKept
    <3>1. CASE UNCHANGED rows
      BY <2>1, <3>1 DEF Fail, IInv, KeysUnique, RowsKept
    <3>2. CASE pc[w] = "save" /\ ~Conflicts(w) /\ Insert(w)
      BY <2>1, <3>2, InsertUnique DEF Fail
    <3>. QED
      BY <1>8, <3>1, <3>2 DEF SaveConflicts, SaveFails, AuditFails
  <2>3. /\ pc'[w] = "idle" /\ ask'[w] = 0 /\ ask[w] \in warned' /\ warned \subseteq warned'
        /\ \A u \in Workers \ {w} :
              /\ pc'[u] = pc[u] /\ key'[u] = key[u] /\ ask'[u] = ask[u]
              /\ checkout'[u] = checkout[u] /\ known'[u] = known[u]
        /\ UNCHANGED <<charged, told, abandoned>>
    BY <2>1, <1>t DEF Fail, Finish, Goto, TypeOK
  <2>4. KnownIsStored' /\ LateCallNotSent' /\ AskedBeforeSave' /\ SavedIsStored'
        /\ ToldIsStored' /\ ChargeIsAccounted'
    BY <1>t, <2>2, <2>3, WorkerMoves
  <2>. QED
    BY <1>t, <2>2, <2>4 DEF IInv
<1>9. ASSUME NEW w \in Workers, AuditAndAnswer(w)
      PROVE  IInv'
  <2>1. PICK i \in DOMAIN rows :
               rows[i] = [key |-> key[w], checkout |-> checkout[w], ask |-> ask[w]]
    BY <1>9 DEF AuditAndAnswer, IInv, SavedIsStored
  <2>. QED
    BY <1>9, <1>t, <2>1, Finishes DEF AuditAndAnswer
<1>10. ASSUME NEW W \in SUBSET Workers, Crash(W)
       PROVE  IInv'
  <2>1. \A u \in Workers :
          \/ u \in W /\ pc'[u] = "idle" /\ ask'[u] = 0
          \/ /\ u \notin W /\ pc'[u] = pc[u] /\ key'[u] = key[u] /\ ask'[u] = ask[u]
             /\ checkout'[u] = checkout[u] /\ known'[u] = known[u]
    BY <1>10, <1>t DEF Crash, TypeOK
  <2>2. CASE storage = "postgres"
    <3>1. /\ UNCHANGED <<storage, rows, charged, warned, told>>
          /\ abandoned' = abandoned \cup ({ask[w] : w \in W} \ {0})
      BY <1>10, <2>2 DEF Crash
    <3>2. KnownIsStored' /\ LateCallNotSent' /\ AskedBeforeSave' /\ SavedIsStored'
      BY <2>1, <3>1 DEF IInv, KnownIsStored, Stored, LateCallNotSent, AskedBeforeSave,
                        SavedIsStored
    <3>3. ToldIsStored' /\ KeysUnique'
      BY <3>1 DEF IInv, ToldIsStored, KeysUnique
    <3>4. ChargeIsAccounted'
      <4>. SUFFICES ASSUME NEW n \in charged, NEW w \in Workers, ask[w] = n
                    PROVE  (\E u \in Workers : ask'[u] = n) \/ n \in abandoned'
        BY <3>1 DEF IInv, ChargeIsAccounted
      <4>1. n # 0
        BY <1>t, <1>n DEF TypeOK
      <4>2. CASE w \in W
        BY <3>1, <4>1, <4>2
      <4>3. CASE w \notin W
        BY <2>1, <4>3
      <4>. QED
        BY <4>2, <4>3
    <3>. QED
      BY <1>t, <3>2, <3>3, <3>4 DEF IInv
  <2>3. CASE storage # "postgres"
    <3>1. W = Workers /\ storage' = storage /\ rows' = <<>> /\ told' = {}
          /\ abandoned' = DOMAIN asked /\ charged' = charged
      BY <1>10, <1>t, <2>3, ExecutionConstants DEF Crash, TypeOK
    <3>2. KnownIsStored' /\ LateCallNotSent' /\ AskedBeforeSave' /\ SavedIsStored'
      BY <2>1, <3>1 DEF KnownIsStored, LateCallNotSent, AskedBeforeSave, SavedIsStored
    <3>3. ToldIsStored' /\ KeysUnique' /\ ChargeIsAccounted'
      BY <1>t, <2>3, <3>1 DEF ToldIsStored, KeysUnique, ChargeIsAccounted, TypeOK
    <3>. QED
      BY <1>t, <3>2, <3>3 DEF IInv
  <2>. QED
    BY <2>2, <2>3
<1>11. CASE UNCHANGED vars
  <2>1. KnownIsStored' /\ LateCallNotSent' /\ AskedBeforeSave' /\ SavedIsStored'
    BY <1>11 DEF vars, IInv, KnownIsStored, Stored, LateCallNotSent, AskedBeforeSave,
                 SavedIsStored
  <2>2. ToldIsStored' /\ KeysUnique' /\ ChargeIsAccounted'
    BY <1>11 DEF vars, history, IInv, ToldIsStored, KeysUnique, ChargeIsAccounted
  <2>. QED
    BY <1>t, <2>1, <2>2 DEF IInv
<1>. QED
  BY <1>1, <1>2, <1>3, <1>4, <1>5, <1>6, <1>7, <1>8, <1>9, <1>10, <1>11 DEF Next, Execute

-----------------------------------------------------------------------------
\* The inductive invariant holds in every reachable state.
THEOREM Invariance == Spec => []IInv
BY InvInit, InvStep, PTL DEF Spec

\* A call that starts after a payment was stored for its key is never sent to the
\* provider (app/services/payment_service.py:320-332), for any number of workers.
THEOREM LateNotSent == Spec => []LateCallNotSent
<1>1. IInv => LateCallNotSent
  BY DEF IInv
<1>. QED
  BY <1>1, Invariance, PTL

\* A payment a caller was told of is stored under its key
\* (app/services/payment_service.py:357-371).
THEOREM ToldStored == Spec => []ToldIsStored
<1>1. IInv => ToldIsStored
  BY DEF IInv
<1>. QED
  BY <1>1, Invariance, PTL

\* On PostgreSQL the callers that used one key were all told of one payment: each was
\* told of a stored payment, and the table holds one per key
\* (app/storage/models.py:25-55).
THEOREM CallersAgreed == Spec => []CallersAgree
<1>1. IInv => CallersAgree
  <2>. SUFFICES ASSUME IInv, storage = "postgres", NEW a \in told, NEW b \in told, a[1] = b[1]
                PROVE  a[2] = b[2]
    BY DEF CallersAgree
  <2>1. PICK i \in DOMAIN rows : rows[i].key = a[1] /\ rows[i].checkout = a[2]
    BY DEF IInv, ToldIsStored
  <2>2. PICK j \in DOMAIN rows : rows[j].key = b[1] /\ rows[j].checkout = b[2]
    BY DEF IInv, ToldIsStored
  <2>3. i = j
    BY <2>1, <2>2 DEF IInv, KeysUnique
  <2>. QED
    BY <2>1, <2>2, <2>3
<1>. QED
  BY <1>1, Invariance, PTL

\* No payment the customer was prompted for vanishes silently
\* (app/services/payment_service.py:339-369).
THEOREM ChargeAccounted == Spec => []ChargeIsAccounted
<1>1. IInv => ChargeIsAccounted
  BY DEF IInv
<1>. QED
  BY <1>1, Invariance, PTL

=============================================================================
