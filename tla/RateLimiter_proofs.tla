-------------------------- MODULE RateLimiter_proofs --------------------------
(***************************************************************************)
(* Proofs about RateLimiter, for every set of callers and keys, every limit *)
(* and every window: type correctness, that a counter in use has an end     *)
(* however INCR, EXPIRE, failures, deaths and the clock interleave, and what *)
(* the windows let through in the length of one.                            *)
(***************************************************************************)
EXTENDS RateLimiter, TLAPS

\* The bound of a counter lies above one, so that a counter it stops is not a new one.
LEMMA CapAboveOne == ASSUME NEW k \in RateKeys PROVE Cap(k) \in Nat /\ Cap(k) >= 2 /\ Cap(k) > Limit[k]
BY LimiterConstants DEF Cap

\* The caller that answers a request has a key and moves on with the value of a counter.
LEMMA ReachType ==
    ASSUME LimiterTypeOK, NEW c \in Callers, NEW label \in LimiterLabels, NEW n \in Nat,
           Reach(c, label, n), label # "idle" => on'[c] \in RateKeys,
           on' \in [Callers -> RateKeys \cup {NoKey}],
           \A d \in Callers \ {c} : on'[d] = on[d]
    PROVE  /\ at' \in [Callers -> LimiterLabels]
           /\ got' \in [Callers -> Nat]
           /\ \A d \in Callers : at'[d] # "idle" => on'[d] \in RateKeys
BY DEF LimiterTypeOK, Reach

\* Counting one more keeps the counters below their bounds, and starts at one.
LEMMA CountUpType ==
    ASSUME LimiterTypeOK, NEW k \in RateKeys, CountUp(k)
    PROVE  /\ count' \in [RateKeys -> Nat]
           /\ \A j \in RateKeys : count'[j] <= Cap(j)
           /\ \A j \in RateKeys : j # k => count'[j] = count[j]
           /\ count'[k] > 0 /\ (count'[k] = 1 <=> count[k] = 0)
<1>1. Cap(k) \in Nat /\ Cap(k) >= 2
  BY CapAboveOne
<1>2. \A j \in RateKeys : Cap(j) \in Nat
  BY CapAboveOne
<1>. QED
  BY <1>1, <1>2 DEF LimiterTypeOK, CountUp

\* Remembering an admission keeps the history well-formed.
LEMMA RememberType ==
    ASSUME LimiterTypeOK, NEW c \in Callers, Remember(c) \/ UNCHANGED recent
    PROVE  recent' \in [Ages -> Nat]
<1>1. 0 \in Ages
  BY LimiterConstants DEF Ages
<1>. QED
  BY <1>1 DEF LimiterTypeOK, Remember

-----------------------------------------------------------------------------
\* The limiter starts without windows.
LEMMA LimiterTypeInit == LimiterInit => LimiterTypeOK
<1>1. \A k \in RateKeys : Cap(k) \in Nat
  BY CapAboveOne
<1>. QED
  BY <1>1, LimiterConstants DEF LimiterInit, LimiterTypeOK, LimiterLabels, Ages

\* Every command, failure and tick keeps the limiter well-formed.
LEMMA LimiterTypeStep == LimiterTypeOK /\ [LimiterNext]_limiterState => LimiterTypeOK'
<1>. SUFFICES ASSUME LimiterTypeOK, [LimiterNext]_limiterState
              PROVE  LimiterTypeOK'
  OBVIOUS
<1>0. /\ \A k \in RateKeys : Cap(k) \in Nat /\ Cap(k) > Limit[k]
      /\ Limit \in [RateKeys -> Int] /\ Window \in Nat \ {0} /\ 0 \in Ages
  BY CapAboveOne, LimiterConstants DEF Ages
<1>1. ASSUME NEW c \in Callers, NEW k \in RateKeys, CallLimiter(c, k)
      PROVE  LimiterTypeOK'
  <2>1. Reach(c, "asked", 0) /\ on' = [on EXCEPT ![c] = k]
    BY <1>1 DEF CallLimiter
  <2>. QED
    BY <1>1, <2>1, ReachType DEF LimiterTypeOK, CallLimiter, LimiterLabels, Cap
<1>2. ASSUME NEW c \in Callers, AllowInMemory(c)
      PROVE  LimiterTypeOK'
  <2>. DEFINE k == on[c]
  <2>1. k \in RateKeys
    BY <1>2 DEF LimiterTypeOK, AllowInMemory
  <2>2. (Reach(c, "limited", 0) \/ Reach(c, "allowed", 0)) /\ on' = on
    BY <1>2 DEF AllowInMemory
  <2>3. /\ at' \in [Callers -> LimiterLabels] /\ got' \in [Callers -> Nat]
        /\ \A d \in Callers : at'[d] # "idle" => on'[d] \in RateKeys
    BY <2>1, <2>2, ReachType DEF LimiterTypeOK, LimiterLabels
  <2>4. recent' \in [Ages -> Nat]
    BY <1>2, RememberType DEF AllowInMemory
  <2>5. /\ count' \in [RateKeys -> Nat] /\ \A j \in RateKeys : count'[j] <= Cap(j)
        /\ left' \in [RateKeys -> 0..Window]
    <3>1. CASE count[k] >= Limit[k]
      BY <1>0, <1>2, <3>1 DEF LimiterTypeOK, AllowInMemory
    <3>2. CASE ~(count[k] >= Limit[k])
      <4>1. /\ count' = [count EXCEPT ![k] = @ + 1]
            /\ left' = [left EXCEPT ![k] = IF count[k] = 0 THEN Window ELSE @]
        BY <1>2, <3>2 DEF AllowInMemory
      <4>2. count[k] \in Nat /\ Limit[k] \in Int /\ count[k] + 1 <= Cap(k)
        BY <1>0, <2>1, <3>2 DEF LimiterTypeOK
      <4>. QED
        BY <1>0, <2>1, <4>1, <4>2 DEF LimiterTypeOK
    <3>. QED
      BY <3>1, <3>2
  <2>. QED
    BY <1>2, <2>2, <2>3, <2>4, <2>5 DEF LimiterTypeOK, AllowInMemory, Cap
<1>3. ASSUME NEW c \in Callers, Incr(c)
      PROVE  LimiterTypeOK'
  <2>. DEFINE k == on[c]
  <2>1. k \in RateKeys /\ CountUp(k) /\ on' = on
    BY <1>3 DEF LimiterTypeOK, Incr
  <2>2. /\ count' \in [RateKeys -> Nat] /\ \A j \in RateKeys : count'[j] <= Cap(j)
        /\ count'[k] \in Nat
    BY <2>1, CountUpType
  <2>3. Reach(c, "expire", count'[k]) \/ Reach(c, "ttl", count'[k])
    BY <1>3 DEF Incr
  <2>4. /\ at' \in [Callers -> LimiterLabels] /\ got' \in [Callers -> Nat]
        /\ \A d \in Callers : at'[d] # "idle" => on'[d] \in RateKeys
    BY <2>1, <2>2, <2>3, ReachType DEF LimiterTypeOK, LimiterLabels
  <2>5. recent' \in [Ages -> Nat]
    BY <1>3, RememberType DEF Incr
  <2>. QED
    BY <1>3, <2>2, <2>4, <2>5 DEF LimiterTypeOK, Incr, Cap
<1>4. ASSUME NEW c \in Callers, Expire(c) \/ Ttl(c)
      PROVE  LimiterTypeOK'
  <2>1. on[c] \in RateKeys /\ got[c] \in Nat /\ on' = on
    BY <1>4 DEF LimiterTypeOK, Expire, Ttl
  <2>2. Reach(c, "ttl", got[c]) \/ Reach(c, "limited", 0) \/ Reach(c, "allowed", 0)
    BY <1>4 DEF Expire, Ttl
  <2>3. /\ at' \in [Callers -> LimiterLabels] /\ got' \in [Callers -> Nat]
        /\ \A d \in Callers : at'[d] # "idle" => on'[d] \in RateKeys
    BY <2>1, <2>2, ReachType DEF LimiterTypeOK, LimiterLabels
  <2>4. left' \in [RateKeys -> 0..Window]
    BY <1>0, <1>4 DEF LimiterTypeOK, Expire, Ttl
  <2>. QED
    BY <1>4, <2>3, <2>4 DEF LimiterTypeOK, Expire, Ttl, Cap
<1>5. ASSUME NEW c \in Callers, LimiterFails(c)
      PROVE  LimiterTypeOK'
  <2>1. on[c] \in RateKeys /\ on' = on /\ Reach(c, "unavailable", 0)
    BY <1>5 DEF LimiterTypeOK, LimiterFails
  <2>2. /\ at' \in [Callers -> LimiterLabels] /\ got' \in [Callers -> Nat]
        /\ \A d \in Callers : at'[d] # "idle" => on'[d] \in RateKeys
    BY <2>1, ReachType DEF LimiterTypeOK, LimiterLabels
  <2>3. CountUp(on[c]) \/ UNCHANGED count
    BY <1>5 DEF LimiterFails
  <2>4. /\ count' \in [RateKeys -> Nat] /\ \A j \in RateKeys : count'[j] <= Cap(j)
    BY <2>1, <2>3, CountUpType DEF LimiterTypeOK
  <2>5. left' \in [RateKeys -> 0..Window] /\ lost' \subseteq RateKeys
    BY <1>0, <1>5, <2>1 DEF LimiterTypeOK, LimiterFails
  <2>. QED
    BY <1>5, <2>2, <2>4, <2>5 DEF LimiterTypeOK, LimiterFails, Cap
<1>6. ASSUME NEW c \in Callers, LimiterReturns(c) \/ LimiterCrash(c)
      PROVE  LimiterTypeOK'
  <2>1. Reach(c, "idle", 0) /\ on' = [on EXCEPT ![c] = NoKey]
    BY <1>6 DEF LimiterReturns, LimiterCrash
  <2>2. /\ at' \in [Callers -> LimiterLabels] /\ got' \in [Callers -> Nat]
        /\ \A d \in Callers : at'[d] # "idle" => on'[d] \in RateKeys
        /\ on' \in [Callers -> RateKeys \cup {NoKey}]
    BY <2>1, ReachType DEF LimiterTypeOK, LimiterLabels
  <2>3. /\ count' \in [RateKeys -> Nat] /\ \A j \in RateKeys : count'[j] <= Cap(j)
        /\ left' \in [RateKeys -> 0..Window] /\ recent' \in [Ages -> Nat]
    BY <1>0, <1>6 DEF LimiterTypeOK, LimiterReturns, LimiterCrash
  <2>4. lost' \subseteq RateKeys
    BY <1>6 DEF LimiterTypeOK, LimiterReturns, LimiterCrash
  <2>. QED
    BY <1>6, <2>2, <2>3, <2>4 DEF LimiterTypeOK, LimiterReturns, LimiterCrash, Cap
<1>7. CASE LimiterTick
  <2>1. recent' \in [Ages -> Nat]
    BY <1>0, <1>7 DEF LimiterTypeOK, LimiterTick, Ages
  <2>2. left' \in [RateKeys -> 0..Window]
    BY <1>0, <1>7 DEF LimiterTypeOK, LimiterTick
  <2>3. count' \in [RateKeys -> Nat] /\ \A j \in RateKeys : count'[j] <= Cap(j)
    BY <1>0, <1>7 DEF LimiterTypeOK, LimiterTick
  <2>. QED
    BY <1>7, <2>1, <2>2, <2>3 DEF LimiterTypeOK, LimiterTick, Cap
<1>8. CASE UNCHANGED limiterState
  BY <1>8 DEF LimiterTypeOK, limiterState, Cap
<1>. QED
  BY <1>1, <1>2, <1>3, <1>4, <1>5, <1>6, <1>7, <1>8 DEF LimiterNext, LimiterAnswers

\* The limiter is well-formed: counters stay within their bounds, windows within their
\* length, and a caller inside allow() has a key (app/rate_limit/limiter.py:54-155).
THEOREM LimiterTypeCorrect == LimiterSpec => []LimiterTypeOK
BY LimiterTypeInit, LimiterTypeStep, PTL DEF LimiterSpec

-----------------------------------------------------------------------------
\* What disturbs a counter's end: only its own caller, and only with one to put in place.
LEMMA ExpiresStep ==
    LimiterTypeOK /\ CounterExpires /\ [LimiterNext]_limiterState => CounterExpires'
<1>. SUFFICES ASSUME LimiterTypeOK, CounterExpires, [LimiterNext]_limiterState,
                     NEW k \in RateKeys, count'[k] > 0
              PROVE  \/ left'[k] > 0 \/ k \in lost'
                     \/ \E c \in Callers : at'[c] = "expire" /\ on'[c] = k
  BY DEF CounterExpires
<1>. DEFINE Ends == left[k] > 0 \/ k \in lost \/ \E c \in Callers : at[c] = "expire" /\ on[c] = k
<1>0. Window > 0 /\ count[k] \in Nat /\ left[k] \in Nat /\ (count[k] > 0 => Ends)
  BY LimiterConstants DEF LimiterTypeOK, CounterExpires
<1>1. ASSUME NEW c \in Callers, at[c] # "expire", NEW label, NEW n, Reach(c, label, n),
             \A d \in Callers \ {c} : on'[d] = on[d],
             Ends, left[k] > 0 => left'[k] > 0, lost \subseteq lost'
      PROVE  \/ left'[k] > 0 \/ k \in lost'
             \/ \E d \in Callers : at'[d] = "expire" /\ on'[d] = k
  BY <1>1 DEF LimiterTypeOK, Reach
<1>2. ASSUME NEW c \in Callers, NEW j \in RateKeys, CallLimiter(c, j)
      PROVE  \/ left'[k] > 0 \/ k \in lost'
             \/ \E d \in Callers : at'[d] = "expire" /\ on'[d] = k
  BY <1>0, <1>1, <1>2 DEF LimiterTypeOK, CallLimiter
<1>3. ASSUME NEW c \in Callers, AllowInMemory(c)
      PROVE  \/ left'[k] > 0 \/ k \in lost'
             \/ \E d \in Callers : at'[d] = "expire" /\ on'[d] = k
  <2>1. /\ at[c] # "expire" /\ on' = on /\ lost' = lost
        /\ Reach(c, "limited", 0) \/ Reach(c, "allowed", 0)
    BY <1>3 DEF AllowInMemory
  <2>2. CASE count[k] = 0
    BY <1>0, <1>3, <2>2 DEF LimiterTypeOK, AllowInMemory
  <2>3. CASE count[k] > 0
    <3>1. left'[k] = left[k]
      BY <1>3, <2>3 DEF LimiterTypeOK, AllowInMemory
    <3>. QED
      BY <1>0, <1>1, <2>1, <2>3, <3>1
  <2>. QED
    BY <1>0, <2>2, <2>3
<1>4. ASSUME NEW c \in Callers, Incr(c)
      PROVE  \/ left'[k] > 0 \/ k \in lost'
             \/ \E d \in Callers : at'[d] = "expire" /\ on'[d] = k
  <2>1. /\ at[c] # "expire" /\ on[c] \in RateKeys /\ CountUp(on[c])
        /\ on' = on /\ lost' = lost /\ left' = left
    BY <1>4 DEF LimiterTypeOK, Incr
  <2>2. CASE on[c] = k /\ count[k] = 0
    <3>1. count'[k] = 1
      BY <2>1, <2>2, CountUpType
    <3>. QED
      BY <1>4, <2>1, <2>2, <3>1 DEF LimiterTypeOK, Incr, Reach
  <2>3. CASE ~(on[c] = k /\ count[k] = 0)
    <3>1. count[k] > 0
      BY <1>0, <2>1, <2>3, CountUpType
    <3>. QED
      BY <1>0, <1>1, <1>4, <2>1, <3>1 DEF Incr
  <2>. QED
    BY <2>2, <2>3
<1>5. ASSUME NEW c \in Callers, Expire(c)
      PROVE  \/ left'[k] > 0 \/ k \in lost'
             \/ \E d \in Callers : at'[d] = "expire" /\ on'[d] = k
  BY <1>0, <1>5 DEF LimiterTypeOK, Expire, Reach
<1>6. ASSUME NEW c \in Callers, Ttl(c) \/ LimiterReturns(c)
      PROVE  \/ left'[k] > 0 \/ k \in lost'
             \/ \E d \in Callers : at'[d] = "expire" /\ on'[d] = k
  BY <1>0, <1>1, <1>6 DEF LimiterTypeOK, Ttl, LimiterReturns
<1>7. ASSUME NEW c \in Callers, LimiterFails(c)
      PROVE  \/ left'[k] > 0 \/ k \in lost'
             \/ \E d \in Callers : at'[d] = "expire" /\ on'[d] = k
  <2>1. CASE at[c] = "expire"
    BY <1>0, <1>7, <2>1 DEF LimiterTypeOK, LimiterFails, Reach
  <2>2. CASE at[c] # "expire"
    <3>1. /\ on[c] \in RateKeys /\ on' = on /\ left' = left /\ lost \subseteq lost'
          /\ Reach(c, "unavailable", 0)
      BY <1>7, <2>2 DEF LimiterTypeOK, LimiterFails
    <3>2. count[k] > 0 \/ k \in lost'
      BY <1>0, <1>7, <2>2, <3>1, CountUpType DEF LimiterFails
    <3>. QED
      BY <1>0, <1>1, <2>2, <3>1, <3>2
  <2>. QED
    BY <2>1, <2>2
<1>8. ASSUME NEW c \in Callers, LimiterCrash(c)
      PROVE  \/ left'[k] > 0 \/ k \in lost'
             \/ \E d \in Callers : at'[d] = "expire" /\ on'[d] = k
  <2>1. limiter # "memory" /\ UNCHANGED <<count, left>>
    BY <1>8 DEF LimiterCrash
  <2>. QED
    BY <1>0, <1>8, <2>1 DEF LimiterTypeOK, LimiterCrash, Reach
<1>9. CASE LimiterTick
  BY <1>0, <1>9 DEF LimiterTypeOK, LimiterTick
<1>10. CASE UNCHANGED limiterState
  BY <1>0, <1>10 DEF limiterState
<1>. QED
  BY <1>2, <1>3, <1>4, <1>5, <1>6, <1>7, <1>8, <1>9, <1>10 DEF LimiterNext, LimiterAnswers

\* However many processes share Redis, and whatever fails between INCR and EXPIRE, a
\* counter without an end is one whose EXPIRE was lost (app/rate_limit/limiter.py:112-116).
THEOREM CountersExpire == LimiterSpec => []CounterExpires
<1>1. LimiterInit => CounterExpires
  BY DEF LimiterInit, CounterExpires
<1>. QED
  BY <1>1, ExpiresStep, LimiterTypeCorrect, PTL DEF LimiterSpec

-----------------------------------------------------------------------------
\* A caller about to set the end of a window is alone in that, and the counter has none.
ExpiringAlone ==
    /\ \A c \in Callers : at[c] = "expire" =>
         /\ limiter = "redis" /\ count[on[c]] > 0 /\ left[on[c]] = 0
         /\ \A d \in Callers : at[d] = "expire" /\ on[d] = on[c] => d = c
    /\ \A k \in RateKeys : left[k] > 0 => count[k] > 0

\* Only INCR on a key that is not stored makes a caller set an end.
LEMMA ExpiringStep == LimiterTypeOK /\ ExpiringAlone /\ [LimiterNext]_limiterState => ExpiringAlone'
<1>. SUFFICES ASSUME LimiterTypeOK, ExpiringAlone, [LimiterNext]_limiterState
              PROVE  ExpiringAlone'
  OBVIOUS
<1>0. Window \in Nat \ {0} /\ \A k \in RateKeys : count[k] \in Nat /\ left[k] \in Nat
  BY LimiterConstants DEF LimiterTypeOK
<1>01. \A k \in RateKeys : count'[k] \in Nat
  BY LimiterTypeStep DEF LimiterTypeOK
<1>1. ASSUME NEW c \in Callers, NEW label, NEW n, Reach(c, label, n), label # "expire",
             \A d \in Callers \ {c} : on'[d] = on[d],
             UNCHANGED <<limiter, left>>, \A k \in RateKeys : count'[k] >= count[k]
      PROVE  ExpiringAlone'
  <2>1. \A d \in Callers : at'[d] = "expire" => d # c /\ at[d] = "expire" /\ on'[d] = on[d]
    BY <1>1 DEF Reach, LimiterTypeOK
  <2>2. \A k \in RateKeys : count'[k] > 0 \/ count[k] = 0
    BY <1>0, <1>01, <1>1
  <2>3. \A d \in Callers : at[d] = "expire" => on[d] \in RateKeys
    BY DEF LimiterTypeOK
  <2>. QED
    BY <1>1, <2>1, <2>2, <2>3, <1>0 DEF ExpiringAlone
<1>2. ASSUME NEW c \in Callers, NEW k \in RateKeys, CallLimiter(c, k)
      PROVE  ExpiringAlone'
  <2>1. Reach(c, "asked", 0) /\ \A d \in Callers \ {c} : on'[d] = on[d]
    BY <1>2 DEF CallLimiter, LimiterTypeOK
  <2>. QED
    BY <1>0, <1>1, <1>2, <2>1 DEF CallLimiter
<1>3. ASSUME NEW c \in Callers, AllowInMemory(c)
      PROVE  ExpiringAlone'
  <2>1. \A d \in Callers : at'[d] # "expire"
    BY <1>3 DEF AllowInMemory, Reach, LimiterTypeOK, ExpiringAlone
  <2>2. \A k \in RateKeys : left'[k] > 0 => count'[k] > 0
    BY <1>0, <1>3 DEF AllowInMemory, LimiterTypeOK, ExpiringAlone
  <2>. QED
    BY <2>1, <2>2 DEF ExpiringAlone
<1>4. ASSUME NEW c \in Callers, Incr(c)
      PROVE  ExpiringAlone'
  <2>. DEFINE k == on[c]
  <2>1. k \in RateKeys /\ CountUp(k) /\ UNCHANGED <<on, left, limiter>> /\ limiter = "redis"
    BY <1>4 DEF LimiterTypeOK, Incr
  <2>2. /\ count'[k] > 0 /\ (count'[k] = 1 <=> count[k] = 0)
        /\ \A j \in RateKeys : j # k => count'[j] = count[j]
    BY <2>1, CountUpType
  <2>3. \A d \in Callers : d # c => at'[d] = at[d]
    BY <1>4 DEF Incr, Reach, LimiterTypeOK
  <2>4. at'[c] = "expire" => count[k] = 0
    BY <1>4, <2>2 DEF Incr, Reach, LimiterTypeOK
  <2>5. \A d \in Callers : at[d] = "expire" => count[on[d]] > 0 /\ on[d] \in RateKeys
    BY DEF ExpiringAlone, LimiterTypeOK
  <2>6. count[k] = 0 => left[k] = 0 /\ \A d \in Callers : at[d] = "expire" => on[d] # k
    BY <1>0, <2>1, <2>5 DEF ExpiringAlone
  <2>7. \A j \in RateKeys : count[j] > 0 => count'[j] > 0
    BY <2>2
  <2>8. ASSUME NEW d \in Callers, at'[d] = "expire"
        PROVE  /\ limiter' = "redis" /\ count'[on'[d]] > 0 /\ left'[on'[d]] = 0
               /\ \A b \in Callers : at'[b] = "expire" /\ on'[b] = on'[d] => b = d
    <3>1. CASE d = c
      BY <2>1, <2>2, <2>3, <2>4, <2>6, <2>8, <3>1
    <3>2. CASE d # c
      BY <2>1, <2>3, <2>4, <2>5, <2>6, <2>7, <2>8, <3>2 DEF ExpiringAlone
    <3>. QED
      BY <3>1, <3>2
  <2>. QED
    BY <2>1, <2>7, <2>8 DEF ExpiringAlone
<1>5. ASSUME NEW c \in Callers, at[c] = "expire", left' = [left EXCEPT ![on[c]] = Window],
             UNCHANGED <<limiter, count, on>>, NEW label, NEW n, Reach(c, label, n),
             label # "expire"
      PROVE  ExpiringAlone'
  <2>1. on[c] \in RateKeys /\ \A d \in Callers : at[d] = "expire" => on[d] \in RateKeys
    BY <1>5 DEF LimiterTypeOK
  <2>2. \A d \in Callers : at'[d] = "expire" => at[d] = "expire" /\ on[d] # on[c]
    BY <1>5 DEF Reach, LimiterTypeOK, ExpiringAlone
  <2>3. \A k \in RateKeys : k # on[c] => left'[k] = left[k]
    BY <1>5 DEF LimiterTypeOK
  <2>4. count[on[c]] > 0
    BY <1>5 DEF ExpiringAlone
  <2>. QED
    BY <1>5, <2>1, <2>2, <2>3, <2>4 DEF ExpiringAlone
<1>6. ASSUME NEW c \in Callers, Expire(c)
      PROVE  ExpiringAlone'
  BY <1>5, <1>6 DEF Expire
<1>7. ASSUME NEW c \in Callers, Ttl(c)
      PROVE  ExpiringAlone'
  <2>1. PICK label \in {"limited", "allowed"} : Reach(c, label, 0)
    BY <1>7 DEF Ttl
  <2>. QED
    BY <1>0, <1>1, <1>7, <2>1 DEF Ttl
<1>8. ASSUME NEW c \in Callers, LimiterReturns(c)
      PROVE  ExpiringAlone'
  <2>1. Reach(c, "idle", 0) /\ \A d \in Callers \ {c} : on'[d] = on[d]
    BY <1>8 DEF LimiterReturns, LimiterTypeOK
  <2>. QED
    BY <1>0, <1>1, <1>8, <2>1 DEF LimiterReturns
<1>9. ASSUME NEW c \in Callers, LimiterFails(c)
      PROVE  ExpiringAlone'
  <2>1. Reach(c, "unavailable", 0) /\ on[c] \in RateKeys /\ UNCHANGED <<limiter, on>>
    BY <1>9 DEF LimiterFails, LimiterTypeOK
  <2>2. CASE at[c] = "expire" /\ left' = [left EXCEPT ![on[c]] = Window] /\ UNCHANGED count
    BY <1>5, <2>1, <2>2
  <2>3. CASE UNCHANGED left /\ (UNCHANGED count \/ CountUp(on[c]))
    <3>1. \A k \in RateKeys : count'[k] >= count[k]
      BY <1>0, <2>3 DEF CountUp, LimiterTypeOK
    <3>. QED
      BY <1>1, <2>1, <2>3, <3>1
  <2>. QED
    BY <1>9, <2>2, <2>3 DEF LimiterFails
<1>10. ASSUME NEW c \in Callers, LimiterCrash(c)
       PROVE  ExpiringAlone'
  <2>1. Reach(c, "idle", 0) /\ UNCHANGED limiter /\ \A d \in Callers \ {c} : on'[d] = on[d]
    BY <1>10 DEF LimiterCrash, LimiterTypeOK
  <2>2. CASE limiter = "memory"
    <3>1. \A d \in Callers : at'[d] # "expire"
      BY <2>1, <2>2 DEF Reach, LimiterTypeOK, ExpiringAlone
    <3>. QED
      BY <1>10, <2>2, <3>1 DEF LimiterCrash, ExpiringAlone
  <2>3. CASE limiter # "memory"
    BY <1>0, <1>1, <1>10, <2>1, <2>3 DEF LimiterCrash
  <2>. QED
    BY <2>2, <2>3
<1>11. CASE LimiterTick
  BY <1>0, <1>11 DEF LimiterTick, LimiterTypeOK, ExpiringAlone
<1>12. CASE UNCHANGED limiterState
  BY <1>12 DEF limiterState, ExpiringAlone
<1>. QED
  BY <1>2, <1>3, <1>4, <1>6, <1>7, <1>8, <1>9, <1>10, <1>11, <1>12 DEF LimiterNext, LimiterAnswers

\* What of the requests in a window was admitted.
Admissions(k) == IF count[k] > Limit[k] THEN Limit[k] ELSE count[k]

\* How the admissions of the watched key are spread.  Without a window there is room for
\* a first request.  In one, those of the window before it are all but its first request
\* at most, and what is younger than the window is all but its own first request.
Spread ==
    LET k == watched IN
    IF Limit[k] <= 0 THEN \A i \in Ages : recent[i] = 0
    ELSE IF count[k] = 0 THEN \A i \in Ages : recent[i] <= Limit[k] - 1
    ELSE \A i \in Ages :
           /\ recent[i] <= Admissions(k) + Limit[k] - 1
           /\ left[k] > 0 /\ i + left[k] < Window => recent[i] <= Admissions(k) - 1

\* The watched key admits one request more.
Admit(k) ==
    /\ count[k] < Limit[k] /\ count'[k] = count[k] + 1
    /\ \/ left'[k] = left[k]
       \/ count[k] = 0 /\ left'[k] = Window
    /\ recent' = [i \in Ages |-> recent[i] + 1]

\* What a step does to the watched key.
LEMMA WatchedStep ==
    ASSUME LimiterTypeOK, ExpiringAlone, [LimiterNext]_limiterState
    PROVE  LET k == watched IN
           /\ watched' = watched
           /\ \/ Admit(k)
              \/ count'[k] >= count[k] /\ left'[k] = left[k] /\ recent' = recent
              \/ count[k] > 0 /\ count'[k] = count[k] /\ left'[k] = Window /\ recent' = recent
              \/ count'[k] = 0 /\ left'[k] = 0 /\ recent' = [i \in Ages |-> 0]
              \/ LimiterTick
<1>. DEFINE k == watched
            Rises == count'[k] >= count[k] /\ left'[k] = left[k] /\ recent' = recent
            Goal == \/ Admit(k) \/ Rises
                    \/ count[k] > 0 /\ count'[k] = count[k] /\ left'[k] = Window /\ recent' = recent
                    \/ count'[k] = 0 /\ left'[k] = 0 /\ recent' = [i \in Ages |-> 0]
                    \/ LimiterTick
<1>0. /\ k \in RateKeys /\ count[k] \in Nat /\ left[k] \in Nat /\ Limit[k] \in Int
      /\ count[k] <= Cap(k) /\ Cap(k) \in Nat /\ Cap(k) > Limit[k]
  BY LimiterConstants, CapAboveOne DEF LimiterTypeOK
<1>1. UNCHANGED watched
  BY DEF LimiterNext, LimiterAnswers, CallLimiter, AllowInMemory, Incr, Expire, Ttl, LimiterFails,
     LimiterReturns, LimiterCrash, LimiterTick, limiterState
<1>2. ASSUME NEW c \in Callers, AllowInMemory(c)
      PROVE  Goal
  <2>1. on[c] \in RateKeys
    BY <1>2 DEF AllowInMemory, LimiterTypeOK
  <2>2. CASE on[c] # k
    BY <1>0, <1>2, <2>1, <2>2 DEF AllowInMemory, Remember, LimiterTypeOK
  <2>3. CASE on[c] = k /\ count[k] >= Limit[k]
    BY <1>0, <1>2, <2>3 DEF AllowInMemory
  <2>4. CASE on[c] = k /\ ~(count[k] >= Limit[k])
    BY <1>0, <1>2, <2>4 DEF AllowInMemory, Remember, Admit, LimiterTypeOK
  <2>. QED
    BY <2>2, <2>3, <2>4
<1>3. ASSUME NEW j \in RateKeys, CountUp(j)
      PROVE  /\ count'[k] >= count[k] /\ (j # k => count'[k] = count[k])
             /\ j = k /\ count'[k] <= Limit[k] => count'[k] = count[k] + 1
  BY <1>0, <1>3 DEF CountUp, LimiterTypeOK
<1>4. ASSUME NEW c \in Callers, Incr(c)
      PROVE  Goal
  <2>1. on[c] \in RateKeys /\ CountUp(on[c]) /\ left' = left
    BY <1>4 DEF Incr, LimiterTypeOK
  <2>2. CASE on[c] = k /\ count'[on[c]] <= Limit[on[c]]
    <3>1. recent' = [i \in Ages |-> recent[i] + 1]
      BY <1>4, <2>2 DEF Incr, Remember
    <3>. QED
      BY <1>0, <1>3, <2>1, <2>2, <3>1 DEF Admit
  <2>3. CASE ~(on[c] = k /\ count'[on[c]] <= Limit[on[c]])
    <3>1. recent' = recent
      BY <1>4, <2>3 DEF Incr, Remember
    <3>. QED
      BY <1>3, <2>1, <3>1
  <2>. QED
    BY <2>2, <2>3
<1>5. ASSUME NEW c \in Callers, at[c] = "expire", left' = [left EXCEPT ![on[c]] = Window],
             UNCHANGED <<count, recent>>
      PROVE  Goal
  <2>1. count[on[c]] > 0
    BY <1>5 DEF ExpiringAlone
  <2>. QED
    BY <1>0, <1>5, <2>1 DEF LimiterTypeOK
<1>6. ASSUME NEW c \in Callers, LimiterFails(c)
      PROVE  Goal
  <2>1. on[c] \in RateKeys /\ UNCHANGED recent
    BY <1>6 DEF LimiterFails, LimiterTypeOK
  <2>2. CASE at[c] = "expire" /\ left' = [left EXCEPT ![on[c]] = Window] /\ UNCHANGED count
    BY <1>5, <2>1, <2>2
  <2>3. CASE UNCHANGED left /\ (UNCHANGED count \/ CountUp(on[c]))
    BY <1>0, <1>3, <2>1, <2>3
  <2>. QED
    BY <1>6, <2>2, <2>3 DEF LimiterFails
<1>7. ASSUME NEW c \in Callers, Expire(c)
      PROVE  Goal
  BY <1>5, <1>7 DEF Expire
<1>8. ASSUME NEW c \in Callers, LimiterCrash(c)
      PROVE  Goal
  BY <1>0, <1>8 DEF LimiterCrash
<1>9. CASE UNCHANGED <<count, left, recent>>
  <2>1. count'[k] = count[k] /\ left'[k] = left[k] /\ recent' = recent
    BY <1>9
  <2>2. count'[k] >= count[k]
    BY <1>0, <2>1
  <2>. QED
    BY <1>1, <2>1, <2>2
<1>. QED
  BY <1>1, <1>2, <1>4, <1>6, <1>7, <1>8, <1>9 DEF LimiterNext, LimiterAnswers, CallLimiter, Ttl,
     LimiterReturns, limiterState

\* Each of these keeps the admissions spread; when a window ends, what is younger than
\* it stays, which is all but its first request.
LEMMA SpreadStep ==
    LimiterTypeOK /\ ExpiringAlone /\ Spread /\ [LimiterNext]_limiterState => Spread'
<1>. SUFFICES ASSUME LimiterTypeOK, ExpiringAlone, Spread, [LimiterNext]_limiterState
              PROVE  Spread'
  OBVIOUS
<1>. DEFINE k == watched
            L == Limit[k]
<1>0. /\ k \in RateKeys /\ L \in Int /\ Window \in Nat \ {0}
      /\ count[k] \in Nat /\ left[k] \in 0..Window /\ recent \in [Ages -> Nat]
      /\ left[k] > 0 => count[k] > 0
  BY LimiterConstants DEF LimiterTypeOK, ExpiringAlone
<1>1. count'[k] \in Nat /\ left'[k] \in 0..Window /\ watched' = k
  BY LimiterTypeStep, WatchedStep, <1>0 DEF LimiterTypeOK
<1>2. CASE Admit(k)
  <2>1. L > 0 /\ count'[k] > 0 /\ Admissions(k)' = count[k] + 1 /\ Admissions(k) = count[k]
    BY <1>0, <1>1, <1>2 DEF Admit, Admissions
  <2>2. ASSUME NEW i \in Ages
        PROVE  /\ recent'[i] <= Admissions(k)' + L - 1
               /\ left'[k] > 0 /\ i + left'[k] < Window => recent'[i] <= Admissions(k)' - 1
    <3>1. i \in Nat /\ recent[i] \in Nat /\ recent'[i] = recent[i] + 1
      BY <1>0, <1>2 DEF Ages, Admit
    <3>2. CASE count[k] = 0
      BY <1>0, <1>1, <1>2, <2>1, <3>1, <3>2 DEF Spread, Admit
    <3>3. CASE count[k] > 0
      BY <1>0, <1>1, <1>2, <2>1, <3>1, <3>3 DEF Spread, Admit
    <3>. QED
      BY <1>0, <3>2, <3>3
  <2>. QED
    BY <1>0, <1>1, <2>1, <2>2 DEF Spread
<1>3. CASE count'[k] >= count[k] /\ left'[k] = left[k] /\ recent' = recent
  <2>1. CASE L <= 0
    BY <1>0, <1>1, <1>3, <2>1 DEF Spread
  <2>2. CASE L > 0 /\ count[k] = 0
    <3>1. left'[k] = 0
      BY <1>0, <1>3, <2>2
    <3>2. count'[k] > 0 => Admissions(k)' >= 1 /\ Admissions(k)' \in Int
      BY <1>0, <1>1, <2>2 DEF Admissions
    <3>3. \A i \in Ages : recent[i] \in Nat /\ recent'[i] = recent[i] /\ recent[i] <= L - 1
      BY <1>0, <1>3, <2>2 DEF Spread
    <3>. QED
      BY <1>0, <1>1, <2>2, <3>1, <3>2, <3>3 DEF Spread
  <2>3. CASE L > 0 /\ count[k] > 0
    <3>1. /\ Admissions(k)' >= Admissions(k)
          /\ Admissions(k)' \in Int /\ Admissions(k) \in Int /\ count'[k] > 0
      BY <1>0, <1>1, <1>3, <2>3 DEF Admissions
    <3>2. ASSUME NEW i \in Ages
          PROVE  /\ recent'[i] <= Admissions(k)' + L - 1
                 /\ left'[k] > 0 /\ i + left'[k] < Window => recent'[i] <= Admissions(k)' - 1
      <4>1. i \in Nat /\ recent[i] \in Nat /\ recent'[i] = recent[i]
        BY <1>0, <1>3 DEF Ages
      <4>2. /\ recent[i] <= Admissions(k) + L - 1
            /\ left[k] > 0 /\ i + left[k] < Window => recent[i] <= Admissions(k) - 1
        BY <1>0, <2>3 DEF Spread
      <4>. QED
        BY <1>0, <1>3, <3>1, <4>1, <4>2
    <3>. QED
      BY <1>0, <1>1, <2>3, <3>1, <3>2 DEF Spread
  <2>. QED
    BY <1>0, <2>1, <2>2, <2>3
<1>4. CASE count[k] > 0 /\ count'[k] = count[k] /\ left'[k] = Window /\ recent' = recent
  <2>1. Admissions(k)' = Admissions(k)
    BY <1>1, <1>4 DEF Admissions
  <2>2. \A i \in Ages : ~(i + left'[k] < Window)
    BY <1>0, <1>4 DEF Ages
  <2>. QED
    BY <1>0, <1>1, <1>4, <2>1, <2>2 DEF Spread
<1>5. CASE count'[k] = 0 /\ left'[k] = 0 /\ recent' = [i \in Ages |-> 0]
  BY <1>0, <1>1, <1>5 DEF Spread
<1>6. CASE LimiterTick
  <2>1. /\ left'[k] = IF left[k] > 0 THEN left[k] - 1 ELSE 0
        /\ count'[k] = IF left[k] = 1 THEN 0 ELSE count[k]
        /\ recent' = [i \in Ages |-> IF i = 0 THEN 0 ELSE recent[i - 1]]
    BY <1>0, <1>6 DEF LimiterTick
  <2>2. \A i \in Ages : /\ i \in Nat /\ recent'[i] \in Nat
                        /\ i # 0 => i - 1 \in Ages /\ i - 1 \in Nat /\ recent'[i] = recent[i - 1]
                        /\ i = 0 => recent'[i] = 0
    BY <1>0, <2>1 DEF Ages
  <2>3. CASE L <= 0
    BY <1>0, <1>1, <2>2, <2>3 DEF Spread
  <2>4. CASE L > 0 /\ count[k] = 0
    BY <1>0, <1>1, <2>1, <2>2, <2>4 DEF Spread
  <2>5. CASE L > 0 /\ left[k] = 1
    <3>1. Admissions(k) <= L /\ Admissions(k) \in Int
      BY <1>0 DEF Admissions
    <3>2. \A i \in Ages : recent'[i] <= L - 1
      <4>. SUFFICES ASSUME NEW i \in Ages, i # 0
                    PROVE  recent[i - 1] <= L - 1
        BY <1>0, <2>2, <2>5
      <4>1. i - 1 \in Ages /\ (i - 1) + left[k] < Window
        BY <1>0, <2>5 DEF Ages
      <4>2. recent[i - 1] <= Admissions(k) - 1 /\ recent[i - 1] \in Nat
        BY <1>0, <2>5, <4>1 DEF Spread
      <4>. QED
        BY <1>0, <3>1, <4>2
    <3>. QED
      BY <1>0, <1>1, <2>1, <2>5, <3>2 DEF Spread
  <2>6. CASE L > 0 /\ count[k] > 0 /\ left[k] # 1
    <3>1. /\ Admissions(k)' = Admissions(k) /\ Admissions(k) \in Int /\ Admissions(k) >= 1
          /\ count'[k] = count[k]
      BY <1>0, <1>1, <2>1, <2>6 DEF Admissions
    <3>2. ASSUME NEW i \in Ages
          PROVE  /\ recent'[i] <= Admissions(k) + L - 1
                 /\ left'[k] > 0 /\ i + left'[k] < Window => recent'[i] <= Admissions(k) - 1
      <4>1. CASE i = 0
        BY <1>0, <2>2, <2>6, <3>1, <4>1
      <4>2. CASE i # 0
        <5>1. i - 1 \in Ages /\ recent'[i] = recent[i - 1] /\ i \in Nat
          BY <2>2, <4>2
        <5>2. left'[k] > 0 /\ i + left'[k] < Window => left[k] > 0 /\ (i - 1) + left[k] < Window
          BY <1>0, <2>1, <2>6, <5>1
        <5>. QED
          BY <1>0, <2>6, <5>1, <5>2 DEF Spread
      <4>. QED
        BY <4>1, <4>2
    <3>. QED
      BY <1>0, <1>1, <2>6, <3>1, <3>2 DEF Spread
  <2>. QED
    BY <1>0, <2>3, <2>4, <2>5, <2>6
<1>. QED
  BY <1>2, <1>3, <1>4, <1>5, <1>6, WatchedStep

\* Any number of processes that count together, in memory or in Redis, admit less than
\* twice the limit in the length of a window, although the windows are fixed and their
\* ends are set late, or lost (app/rate_limit/limiter.py:57-66, 112-114).
THEOREM BurstsBounded == LimiterSpec => []BurstBound
<1>1. LimiterInit => ExpiringAlone /\ Spread
  BY LimiterConstants DEF LimiterInit, ExpiringAlone, Spread
<1>2. LimiterTypeOK /\ Spread => BurstBound
  <2>. SUFFICES ASSUME LimiterTypeOK, Spread
                PROVE  recent[Window - 1] <= Burst(watched)
    BY DEF BurstBound
  <2>1. /\ Window - 1 \in Ages /\ Limit[watched] \in Int /\ count[watched] \in Nat
        /\ recent[Window - 1] \in Nat
    BY LimiterConstants DEF LimiterTypeOK, Ages
  <2>. QED
    BY <2>1 DEF Spread, Burst, Admissions
<1>. QED
  BY <1>1, <1>2, ExpiringStep, SpreadStep, LimiterTypeCorrect, PTL DEF LimiterSpec

=============================================================================
