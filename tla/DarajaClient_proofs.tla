------------------------- MODULE DarajaClient_proofs -------------------------
(***************************************************************************)
(* Proofs about DarajaClient, for every set of callers, every threshold and *)
(* every recovery window: type correctness, and that the breaker's state,   *)
(* its failure count and its opening time agree however calls overlap.      *)
(***************************************************************************)
EXTENDS DarajaClient, TLAPS

\* The threshold in force is at least one.
LEMMA OpensAtPositive == OpensAt \in Nat /\ OpensAt >= 1
BY ClientConstants DEF OpensAt

\* One more failure stays in range, and reaches the threshold when the code says so.
LEMMA CountedType ==
    ASSUME failure_count \in 0..OpensAt
    PROVE  /\ Counted \in 0..OpensAt
           /\ ReachesThreshold <=> Counted >= OpensAt
BY OpensAtPositive DEF Counted, ReachesThreshold

\* Where a caller goes is somewhere it can be.
LEMMA MoveType ==
    ASSUME TypeOK, NEW c \in Callers,
           Finish(c) \/ \E label \in Labels : Goto(c, label)
    PROVE  pc' \in [Callers -> Labels] /\ kind' \in [Callers -> Kinds \cup {None}]
<1>1. CASE Finish(c)
  BY <1>1 DEF TypeOK, Finish, Labels
<1>2. CASE \E label \in Labels : Goto(c, label)
  BY <1>2 DEF TypeOK, Goto
<1>. QED
  BY <1>1, <1>2

\* The breaker starts closed and every caller idle.
LEMMA TypeInit == Init => TypeOK
BY ClientConstants, OpensAtPositive DEF Init, TypeOK, Labels

\* Every step of every call keeps the breaker and the callers well-formed.
LEMMA TypeStep == TypeOK /\ [Next]_vars => TypeOK'
<1>. SUFFICES ASSUME TypeOK, [Next]_vars
              PROVE  TypeOK'
  OBVIOUS
<1>. USE ClientConstants, OpensAtPositive
<1>1. ASSUME NEW c \in Callers, NEW k \in Kinds, Start(c, k)
      PROVE  TypeOK'
  BY <1>1 DEF TypeOK, Start, breaker, Labels
<1>2. ASSUME NEW c \in Callers, BeforeCall(c)
      PROVE  TypeOK'
  <2>1. Finish(c) \/ \E label \in Labels : Goto(c, label)
    BY <1>2 DEF BeforeCall, Labels
  <2>2. errors' \subseteq Errors
    BY <1>2 DEF TypeOK, BeforeCall, Errors
  <2>3. read_ago' \in [Callers -> 0..MaxDelay]
    BY <1>2 DEF TypeOK, BeforeCall
  <2>4. UNCHANGED <<enabled, healthy, state, failure_count, opened_ago>>
    BY <1>2 DEF BeforeCall, breaker
  <2>. QED
    BY <2>1, <2>2, <2>3, <2>4, MoveType DEF TypeOK
<1>3. ASSUME NEW c \in Callers, Elapsed(c)
      PROVE  TypeOK'
  <2>1. Finish(c) \/ \E label \in Labels : Goto(c, label)
    BY <1>3 DEF Elapsed, Labels
  <2>2. errors' \subseteq Errors /\ state' \in {"closed", "open", "half_open"}
    BY <1>3 DEF TypeOK, Elapsed, Errors
  <2>3. read_ago' \in [Callers -> 0..MaxDelay]
    BY <1>3 DEF TypeOK, Elapsed
  <2>4. UNCHANGED <<enabled, healthy, failure_count, opened_ago>>
    BY <1>3 DEF Elapsed
  <2>. QED
    BY <2>1, <2>2, <2>3, <2>4, MoveType DEF TypeOK
<1>4. ASSUME NEW c \in Callers, Token(c) \/ Request(c)
      PROVE  TypeOK'
  <2>1. Finish(c) \/ \E label \in Labels : Goto(c, label)
    BY <1>4 DEF Token, Request, Labels
  <2>. QED
    BY <1>4, <2>1, MoveType DEF TypeOK, Token, Request, breaker, Errors
<1>5. ASSUME NEW c \in Callers, RecordSuccess(c)
      PROVE  TypeOK'
  BY <1>5, MoveType DEF TypeOK, RecordSuccess, breaker
<1>6. ASSUME NEW c \in Callers, RecordFailure(c)
      PROVE  TypeOK'
  <2>1. Finish(c) \/ \E label \in Labels : Goto(c, label)
    BY <1>6 DEF RecordFailure, Labels
  <2>. QED
    BY <1>6, <2>1, MoveType, CountedType DEF TypeOK, RecordFailure, breaker, Errors
<1>7. ASSUME NEW c \in Callers, StoreOpenedAt(c)
      PROVE  TypeOK'
  <2>1. opened_ago' \in 0..MaxAge
    BY <1>7 DEF TypeOK, StoreOpenedAt, MaxAge
  <2>. QED
    BY <1>7, <2>1, MoveType DEF TypeOK, StoreOpenedAt
<1>8. ASSUME Tick
      PROVE  TypeOK'
  <2>1. read_ago' \in [Callers -> 0..MaxDelay]
    BY <1>8 DEF TypeOK, Tick
  <2>2. opened_ago' \in 0..MaxAge \cup {None}
    BY <1>8 DEF TypeOK, Tick, MaxAge
  <2>. QED
    BY <1>8, <2>1, <2>2 DEF TypeOK, Tick
<1>9. ASSUME OutageBeginsOrEnds
      PROVE  TypeOK'
  BY <1>9 DEF TypeOK, OutageBeginsOrEnds, breaker
<1>10. ASSUME UNCHANGED vars
       PROVE  TypeOK'
  BY <1>10 DEF TypeOK, vars
<1>. QED
  BY <1>1, <1>2, <1>3, <1>4, <1>5, <1>6, <1>7, <1>8, <1>9, <1>10 DEF Next, Call

\* Type correctness: the breaker stays in its three states, counts failures from zero up
\* to its threshold, and every caller is at a known step of a call.
THEOREM TypeCorrect == Spec => []TypeOK
BY TypeInit, TypeStep, PTL DEF Spec

-----------------------------------------------------------------------------
\* An opening time that was stored after a success had closed the breaker is too young
\* for a caller that is still comparing it: the caller read the clock before the success.
ClosedIsYoung ==
    \A c \in Callers :
        state = "closed" /\ pc[c] = "elapsed" /\ opened_ago # None =>
            opened_ago - read_ago[c] <= MaxDelay

\* The breaker is open or half open exactly when its failures are counted, and an open
\* one has, or is about to get, its opening time.
IInv == OpenIsTimed /\ OpenIfCounted /\ CountedIfOpen /\ ClosedIsYoung

LEMMA InvInit == Init => IInv
BY OpensAtPositive DEF Init, IInv, OpenIsTimed, OpenIfCounted, CountedIfOpen, ClosedIsYoung

\* A step of one caller that leaves the breaker alone keeps the invariant, unless it
\* stores an opening time or starts to compare with that of a closed breaker.
LEMMA BreakerUntouched ==
    ASSUME TypeOK, IInv, NEW c \in Callers, UNCHANGED breaker,
           NEW label \in Labels, pc' = [pc EXCEPT ![c] = label],
           pc[c] # "opening", label = "elapsed" => state = "open",
           \A d \in Callers \ {c} : read_ago'[d] = read_ago[d]
    PROVE  IInv'
<1>1. pc'[c] = label /\ \A d \in Callers \ {c} : pc'[d] = pc[d]
  BY DEF TypeOK
<1>2. OpenIsTimed'
  BY <1>1 DEF IInv, OpenIsTimed, breaker
<1>3. ClosedIsYoung'
  BY <1>1 DEF IInv, ClosedIsYoung, breaker
<1>. QED
  BY <1>2, <1>3 DEF IInv, OpenIfCounted, CountedIfOpen, OpensAt, breaker

\* Every step keeps the breaker's state, count and opening time in agreement.
LEMMA InvStep == TypeOK /\ IInv /\ [Next]_vars => IInv'
<1>. SUFFICES ASSUME TypeOK, IInv, [Next]_vars
              PROVE  IInv'
  OBVIOUS
<1>1. ASSUME NEW c \in Callers, NEW k \in Kinds, Start(c, k)
      PROVE  IInv'
  BY <1>1, BreakerUntouched DEF Start, Labels
<1>2. ASSUME NEW c \in Callers, BeforeCall(c) \/ Token(c) \/ Request(c)
      PROVE  IInv'
  <2>1. /\ UNCHANGED breaker
        /\ pc[c] # "opening"
        /\ \A d \in Callers \ {c} : read_ago'[d] = read_ago[d]
    BY <1>2 DEF BeforeCall, Token, Request, TypeOK
  <2>2. \E label \in Labels :
          pc' = [pc EXCEPT ![c] = label] /\ (label = "elapsed" => state = "open")
    BY <1>2 DEF BeforeCall, Token, Request, Goto, Finish, Labels
  <2>. QED
    BY <2>1, <2>2, BreakerUntouched
<1>3. ASSUME NEW c \in Callers, Elapsed(c)
      PROVE  IInv'
  <2>1. CASE UNCHANGED state
    <3>1. \E label \in Labels : pc' = [pc EXCEPT ![c] = label] /\ label # "elapsed"
      BY <1>3 DEF Elapsed, Goto, Finish, Labels
    <3>2. \A d \in Callers \ {c} : read_ago'[d] = read_ago[d]
      BY <1>3 DEF Elapsed, TypeOK
    <3>. QED
      BY <1>3, <2>1, <3>1, <3>2, BreakerUntouched DEF Elapsed, breaker
  <2>2. CASE Recovered(c) /\ state' = "half_open"
    <3>1. state # "closed"
      BY <1>3, <2>2, ClientConstants
      DEF Elapsed, Recovered, IInv, ClosedIsYoung, TypeOK, MaxAge
    <3>2. UNCHANGED <<failure_count, opened_ago>>
      BY <1>3 DEF Elapsed
    <3>. QED
      BY <2>2, <3>1, <3>2
      DEF IInv, OpenIsTimed, OpenIfCounted, CountedIfOpen, ClosedIsYoung, OpensAt
  <2>. QED
    BY <1>3, <2>1, <2>2 DEF Elapsed
<1>4. ASSUME NEW c \in Callers, RecordSuccess(c)
      PROVE  IInv'
  <2>1. CASE enabled
    BY <1>4, <2>1, OpensAtPositive
    DEF RecordSuccess, IInv, OpenIsTimed, OpenIfCounted, CountedIfOpen, ClosedIsYoung, OpensAt
  <2>2. CASE ~enabled
    BY <1>4, <2>2, BreakerUntouched DEF RecordSuccess, Finish, Labels
  <2>. QED
    BY <2>1, <2>2
<1>5. ASSUME NEW c \in Callers, RecordFailure(c)
      PROVE  IInv'
  <2>1. CASE ~enabled
    BY <1>5, <2>1, BreakerUntouched DEF RecordFailure, Finish, Labels
  <2>2. CASE enabled /\ ~ReachesThreshold
    <3>1. UNCHANGED <<state, opened_ago, read_ago>> /\ failure_count' = Counted
      BY <1>5, <2>2 DEF RecordFailure
    <3>2. /\ pc'[c] = "idle" /\ pc[c] = "failed"
          /\ \A d \in Callers \ {c} : pc'[d] = pc[d]
      BY <1>5, <2>2 DEF RecordFailure, Finish, TypeOK
    <3>3. failure_count < OpensAt /\ failure_count' < OpensAt
      BY <2>2, <3>1, CountedType, OpensAtPositive
      DEF TypeOK, Counted, ReachesThreshold
    <3>4. state = "closed"
      BY <3>3, OpensAtPositive DEF IInv, CountedIfOpen, TypeOK
    <3>. QED
      BY <3>1, <3>2, <3>3, <3>4, OpensAtPositive, CountedType
      DEF TypeOK, IInv, OpenIsTimed, OpenIfCounted, CountedIfOpen, ClosedIsYoung, OpensAt
  <2>3. CASE enabled /\ ReachesThreshold
    <3>1. state' = "open" /\ failure_count' = Counted /\ pc'[c] = "opening"
      BY <1>5, <2>3 DEF RecordFailure, Goto, TypeOK
    <3>2. Counted >= OpensAt
      BY <2>3, CountedType DEF TypeOK
    <3>. QED
      BY <3>1, <3>2
      DEF IInv, OpenIsTimed, OpenIfCounted, CountedIfOpen, ClosedIsYoung, OpensAt
  <2>. QED
    BY <1>5, <2>1, <2>2, <2>3 DEF RecordFailure
<1>6. ASSUME NEW c \in Callers, StoreOpenedAt(c)
      PROVE  IInv'
  <2>1. opened_ago' \in 0..MaxDelay /\ UNCHANGED <<state, failure_count>>
    BY <1>6 DEF StoreOpenedAt, TypeOK
  <2>2. /\ pc'[c] = "idle"
        /\ \A d \in Callers : read_ago'[d] \in 0..MaxDelay
    BY <1>6, ClientConstants DEF StoreOpenedAt, Finish, TypeOK
  <2>3. OpenIsTimed'
    BY <2>1, ClientConstants DEF OpenIsTimed
  <2>4. ClosedIsYoung'
    BY <2>1, <2>2, ClientConstants DEF ClosedIsYoung
  <2>. QED
    BY <2>1, <2>3, <2>4 DEF IInv, OpenIfCounted, CountedIfOpen, OpensAt
<1>7. ASSUME Tick
      PROVE  IInv'
  <2>1. UNCHANGED <<state, failure_count, pc>> /\ (opened_ago' = None <=> opened_ago = None)
    BY <1>7, ClientConstants DEF Tick, TypeOK, MaxAge
  <2>2. ClosedIsYoung'
    <3>. SUFFICES ASSUME NEW c \in Callers,
                         state = "closed", pc[c] = "elapsed", opened_ago # None
                  PROVE  opened_ago' - read_ago'[c] <= MaxDelay
      BY <2>1 DEF ClosedIsYoung
    <3>1. read_ago'[c] = read_ago[c] + 1
      BY <1>7 DEF Tick, Suspended, TypeOK
    <3>2. opened_ago' <= opened_ago + 1 /\ opened_ago' \in Int
      BY <1>7, ClientConstants DEF Tick, TypeOK, MaxAge
    <3>3. opened_ago - read_ago[c] <= MaxDelay
      BY DEF IInv, ClosedIsYoung
    <3>. QED
      BY <3>1, <3>2, <3>3, ClientConstants DEF TypeOK, MaxAge
  <2>. QED
    BY <2>1, <2>2 DEF IInv, OpenIsTimed, OpenIfCounted, CountedIfOpen, OpensAt
<1>8. ASSUME OutageBeginsOrEnds
      PROVE  IInv'
  BY <1>8 DEF OutageBeginsOrEnds, breaker, IInv, OpenIsTimed, OpenIfCounted, CountedIfOpen,
              ClosedIsYoung, OpensAt
<1>9. ASSUME UNCHANGED vars
      PROVE  IInv'
  BY <1>9 DEF vars, IInv, OpenIsTimed, OpenIfCounted, CountedIfOpen, ClosedIsYoung, OpensAt
<1>. QED
  BY <1>1, <1>2, <1>3, <1>4, <1>5, <1>6, <1>7, <1>8, <1>9 DEF Next, Call

\* The invariant holds in every reachable state of every behaviour of the client.
THEOREM Invariance == Spec => []IInv
BY TypeInit, TypeStep, InvInit, InvStep, PTL DEF Spec

\* An open breaker always has an opening time or a caller about to store one, so it never
\* rejects calls for good, whatever answers overlap.
THEOREM OpenTimed == Spec => []OpenIsTimed
<1>1. IInv => OpenIsTimed
  BY DEF IInv
<1>. QED
  BY <1>1, Invariance, PTL

\* The threshold is never passed without the breaker leaving its closed state.
THEOREM CountedOpens == Spec => []OpenIfCounted
<1>1. IInv => OpenIfCounted
  BY DEF IInv
<1>. QED
  BY <1>1, Invariance, PTL

\* The breaker is open or half open only on failures counted since the last success,
\* although a late opening time or a late comparison may follow that success.
THEOREM OpenCounted == Spec => []CountedIfOpen
<1>1. IInv => CountedIfOpen
  BY DEF IInv
<1>. QED
  BY <1>1, Invariance, PTL

-----------------------------------------------------------------------------
\* With one caller nobody takes the opening time away while it is compared.
ComparesTime ==
    /\ \A c \in Callers : pc[c] = "elapsed" => opened_ago # None
    /\ CheckDoesNotBreak

\* No step of that caller, of the clock or of the provider disturbs this.
LEMMA ComparesStep ==
    ASSUME TypeOK, \A c, d \in Callers : c = d, ComparesTime, [Next]_vars
    PROVE  ComparesTime'
<1>1. ASSUME NEW c \in Callers, NEW label, label # "elapsed", pc' = [pc EXCEPT ![c] = label],
             errors' = errors \/ \E e \in Errors \ {"TypeError"} : errors' = errors \cup {e}
      PROVE  ComparesTime'
  <2>1. \A d \in Callers : pc'[d] # "elapsed"
    BY <1>1 DEF TypeOK
  <2>. QED
    BY <1>1, <2>1 DEF ComparesTime, CheckDoesNotBreak
<1>2. ASSUME NEW c \in Callers, NEW k \in Kinds, Start(c, k)
      PROVE  ComparesTime'
  BY <1>1, <1>2 DEF Start
<1>3. ASSUME NEW c \in Callers, BeforeCall(c)
      PROVE  ComparesTime'
  <2>1. CASE opened_ago # None /\ UNCHANGED <<opened_ago, errors>>
    BY <2>1 DEF ComparesTime, CheckDoesNotBreak
  <2>2. CASE ~(opened_ago # None /\ UNCHANGED <<opened_ago, errors>>)
    BY <1>1, <1>3, <2>2 DEF BeforeCall, Goto, Finish, Errors, breaker
  <2>. QED
    BY <2>1, <2>2
<1>4. ASSUME NEW c \in Callers, Elapsed(c)
      PROVE  ComparesTime'
  <2>1. opened_ago # None
    BY <1>4 DEF Elapsed, ComparesTime
  <2>. QED
    BY <1>1, <1>4, <2>1 DEF Elapsed, Goto, Finish, Errors
<1>5. ASSUME NEW c \in Callers, Token(c) \/ Request(c) \/ RecordSuccess(c) \/ StoreOpenedAt(c)
      PROVE  ComparesTime'
  BY <1>1, <1>5 DEF Token, Request, RecordSuccess, StoreOpenedAt, Goto, Finish, Errors
<1>6. ASSUME NEW c \in Callers, RecordFailure(c)
      PROVE  ComparesTime'
  BY <1>1, <1>6 DEF RecordFailure, Goto, Finish, Errors
<1>7. CASE Tick
  <2>1. opened_ago # None => opened_ago' # None
    BY <1>7, ClientConstants DEF Tick, TypeOK, MaxAge
  <2>. QED
    BY <1>7, <2>1 DEF Tick, ComparesTime, CheckDoesNotBreak
<1>8. CASE OutageBeginsOrEnds \/ UNCHANGED vars
  BY <1>8 DEF OutageBeginsOrEnds, vars, breaker, ComparesTime, CheckDoesNotBreak
<1>. QED
  BY <1>2, <1>3, <1>4, <1>5, <1>6, <1>7, <1>8 DEF Next, Call

\* One caller at a time is never broken by the check of the breaker ("Reject calls while
\* the circuit is open.", app/daraja/client.py:107): that it raises a TypeError takes a
\* second one, whose success clears the opening time between the two reads of it.
THEOREM SoundIfSerial ==
    ASSUME \A c, d \in Callers : c = d
    PROVE  Spec => []CheckDoesNotBreak
<1>1. Init => ComparesTime
  BY DEF Init, ComparesTime, CheckDoesNotBreak
<1>2. TypeOK /\ ComparesTime /\ [Next]_vars => ComparesTime'
  BY ComparesStep
<1>3. ComparesTime => CheckDoesNotBreak
  BY DEF ComparesTime
<1>. QED
  BY <1>1, <1>2, <1>3, TypeCorrect, PTL DEF Spec

=============================================================================
