----------------------------- MODULE RateLimiter -----------------------------
(***************************************************************************)
(* The rate limiter of app/rate_limit/limiter.py: fixed windows, in the     *)
(* memory of one process or in Redis, where INCR, EXPIRE and TTL are three  *)
(* commands and every caller may be another process.  Windows last Window   *)
(* ticks of the clock.                                                      *)
(***************************************************************************)
EXTENDS Integers

CONSTANTS
    Callers,        \* who asks: in memory one process, one call at a time
    RateKeys,       \* keys: a tool and what it is called for
    Limit,          \* Limit[k]: the setting for the tool, which nothing validates
    Window,         \* RATE_LIMIT_WINDOW_SECONDS in ticks
    NoKey,          \* no call in progress
    LimiterModes    \* subset of {"memory", "redis"}: RATE_LIMIT_MODE

ASSUME LimiterConstants ==
    /\ Limit \in [RateKeys -> Int]
    /\ Window \in Nat \ {0}
    /\ NoKey \notin RateKeys
    /\ LimiterModes \subseteq {"memory", "redis"}

VARIABLES
    limiter,        \* RATE_LIMIT_MODE, chosen at start-up
    count,          \* count[k]: the counter of k, 0 when k is not stored
    left,           \* left[k]: ticks until the window of k ends; 0: no end is set
    at,             \* at[c]: where caller c is in allow()
    on,             \* on[c]: the key it asks about
    got,            \* got[c]: the value its INCR returned
    lost,           \* history: keys whose EXPIRE was lost
    watched,        \* history: one key, whose admissions are remembered:
    recent          \* recent[i]: how many there were at most i ticks ago

limiterState == <<limiter, count, left, at, on, got, lost, watched, recent>>

\* Counters stop here: a larger value is above the limit as well, and is not 1.
Cap(k) == 1 + IF Limit[k] > 1 THEN Limit[k] ELSE 1

\* What a fixed window admits in any Window ticks: all but the first request of one
\* window at its end, and the next window's.
Burst(k) == IF Limit[k] > 0 THEN 2 * Limit[k] - 1 ELSE 0

Ages == 0..(Window - 1)

-----------------------------------------------------------------------------
LimiterInit ==
    /\ limiter \in LimiterModes
    /\ count = [k \in RateKeys |-> 0]
    /\ left = [k \in RateKeys |-> 0]
    /\ at = [c \in Callers |-> "idle"]
    /\ on = [c \in Callers |-> NoKey]
    /\ got = [c \in Callers |-> 0]
    /\ lost = {}
    /\ watched \in RateKeys
    /\ recent = [i \in Ages |-> 0]

\* Caller c goes on to label, with n the value of its counter.
Reach(c, label, n) ==
    /\ at' = [at EXCEPT ![c] = label]
    /\ got' = [got EXCEPT ![c] = n]

Remember(c) ==
    recent' = IF on[c] = watched THEN [i \in Ages |-> recent[i] + 1] ELSE recent

CallLimiter(c, k) ==
    /\ at[c] = "idle"
    /\ Reach(c, "asked", 0)
    /\ on' = [on EXCEPT ![c] = k]
    /\ UNCHANGED <<limiter, count, left, lost, watched, recent>>

\* Mutant: the limit is compared with the wrong inequality.
AllowInMemoryOneMore(c) ==
    LET k == on[c] IN
    /\ limiter = "memory" /\ at[c] = "asked"
    /\ IF count[k] > Limit[k]
         THEN /\ Reach(c, "limited", 0)
              /\ UNCHANGED <<count, left, recent>>
         ELSE /\ Reach(c, "allowed", 0)
              /\ count' = [count EXCEPT ![k] = @ + 1]
              /\ left' = [left EXCEPT ![k] = IF count[k] = 0 THEN Window ELSE @]
              /\ Remember(c)
    /\ UNCHANGED <<limiter, on, lost, watched>>

\* The table of windows: a request that is refused is not counted.
AllowInMemory(c) ==
    LET k == on[c] IN
    /\ limiter = "memory" /\ at[c] = "asked"
    /\ IF count[k] >= Limit[k]
         THEN /\ Reach(c, "limited", 0)
              /\ UNCHANGED <<count, left, recent>>
         ELSE /\ Reach(c, "allowed", 0)
              /\ count' = [count EXCEPT ![k] = @ + 1]
              /\ left' = [left EXCEPT ![k] = IF count[k] = 0 THEN Window ELSE @]
              /\ Remember(c)
    /\ UNCHANGED <<limiter, on, lost, watched>>

\* Redis adds one to the counter; a key that was not stored has no expiry yet.
CountUp(k) == count' = [count EXCEPT ![k] = IF @ < Cap(k) THEN @ + 1 ELSE @]

\* Mutant: every request starts the window again.
IncrAndAlwaysExpire(c) ==
    LET k == on[c] IN
    /\ limiter = "redis" /\ at[c] = "asked"
    /\ CountUp(k)
    /\ Reach(c, "expire", count'[k])
    /\ IF count'[k] <= Limit[k] THEN Remember(c) ELSE UNCHANGED recent
    /\ UNCHANGED <<limiter, left, on, lost, watched>>

\* Mutant: the counter is compared with the value before the INCR.
IncrFromOne(c) ==
    LET k == on[c] IN
    /\ limiter = "redis" /\ at[c] = "asked"
    /\ CountUp(k)
    /\ Reach(c, IF count[k] = 1 THEN "expire" ELSE "ttl", count'[k])
    /\ IF count'[k] <= Limit[k] THEN Remember(c) ELSE UNCHANGED recent
    /\ UNCHANGED <<limiter, left, on, lost, watched>>

\* INCR: the first request of a window sets the expiry next.
Incr(c) ==
    LET k == on[c] IN
    /\ limiter = "redis" /\ at[c] = "asked"
    /\ CountUp(k)
    /\ Reach(c, IF count'[k] = 1 THEN "expire" ELSE "ttl", count'[k])
    /\ IF count'[k] <= Limit[k] THEN Remember(c) ELSE UNCHANGED recent
    /\ UNCHANGED <<limiter, left, on, lost, watched>>

Expire(c) ==
    /\ at[c] = "expire"
    /\ left' = [left EXCEPT ![on[c]] = Window]
    /\ Reach(c, "ttl", got[c])
    /\ UNCHANGED <<limiter, count, on, lost, watched, recent>>

\* TTL is only reported; the decision is the counter's.
Ttl(c) ==
    /\ at[c] = "ttl"
    /\ Reach(c, IF got[c] > Limit[on[c]] THEN "limited" ELSE "allowed", 0)
    /\ UNCHANGED <<limiter, count, left, on, lost, watched, recent>>

\* Redis fails.  What it was asked to do it has done or not; a counter that it has
\* created and whose expiry it has not set stays for good.
LimiterFails(c) ==
    LET k == on[c] IN
    /\ limiter = "redis" /\ at[c] \in {"asked", "expire", "ttl"}
    /\ \/ at[c] # "expire" /\ UNCHANGED <<count, left, lost>>
       \/ /\ at[c] = "asked"
          /\ CountUp(k)
          /\ lost' = IF count[k] = 0 THEN lost \cup {k} ELSE lost
          /\ UNCHANGED left
       \/ /\ at[c] = "expire"
          /\ \/ left' = [left EXCEPT ![k] = Window] /\ UNCHANGED lost
             \/ lost' = lost \cup {k} /\ UNCHANGED left
          /\ UNCHANGED count
    /\ Reach(c, "unavailable", 0)
    /\ UNCHANGED <<limiter, on, watched, recent>>

LimiterAnswers(c) ==
    \/ AllowInMemory(c) \/ Incr(c) \/ Expire(c) \/ Ttl(c) \/ LimiterFails(c)

LimiterReturns(c) ==
    /\ at[c] \in {"allowed", "limited", "unavailable"}
    /\ Reach(c, "idle", 0)
    /\ on' = [on EXCEPT ![c] = NoKey]
    /\ UNCHANGED <<limiter, count, left, lost, watched, recent>>

\* The process of caller c dies, with the windows if they were in its memory.
LimiterCrash(c) ==
    /\ Reach(c, "idle", 0)
    /\ on' = [on EXCEPT ![c] = NoKey]
    /\ lost' = IF at[c] = "expire" THEN lost \cup {on[c]} ELSE lost
    /\ IF limiter = "memory"
         THEN /\ count' = [k \in RateKeys |-> 0]
              /\ left' = [k \in RateKeys |-> 0]
              /\ recent' = [i \in Ages |-> 0]
         ELSE UNCHANGED <<count, left, recent>>
    /\ UNCHANGED <<limiter, watched>>

\* The clock: windows that end are forgotten.
LimiterTick ==
    /\ left' = [k \in RateKeys |-> IF left[k] > 0 THEN left[k] - 1 ELSE 0]
    /\ count' = [k \in RateKeys |-> IF left[k] = 1 THEN 0 ELSE count[k]]
    /\ recent' = [i \in Ages |-> IF i = 0 THEN 0 ELSE recent[i - 1]]
    /\ UNCHANGED <<limiter, at, on, got, lost, watched>>

\* The limiter by itself, with callers that may be anything.
LimiterNext ==
    \/ \E c \in Callers :
         \/ \E k \in RateKeys : CallLimiter(c, k)
         \/ LimiterAnswers(c) \/ LimiterReturns(c) \/ LimiterCrash(c)
    \/ LimiterTick

LimiterSpec == LimiterInit /\ [][LimiterNext]_limiterState

-----------------------------------------------------------------------------
LimiterLabels == {"idle", "asked", "expire", "ttl", "allowed", "limited", "unavailable"}

\* Type invariant of the limiter.
LimiterTypeOK ==
    /\ limiter \in LimiterModes
    /\ count \in [RateKeys -> Nat]
    /\ \A k \in RateKeys : count[k] <= Cap(k)
    /\ left \in [RateKeys -> 0..Window]
    /\ at \in [Callers -> LimiterLabels]
    /\ on \in [Callers -> RateKeys \cup {NoKey}]
    /\ \A c \in Callers : at[c] # "idle" => on[c] \in RateKeys
    /\ got \in [Callers -> Nat]
    /\ lost \subseteq RateKeys
    /\ watched \in RateKeys
    /\ recent \in [Ages -> Nat]

\* A counter in use has its end set or a caller about to set it, unless that command
\* was lost with Redis or with the caller: no interleaving of callers, failures and the
\* clock leaves a caller limited for good in any other way
\* (app/rate_limit/limiter.py:112-114).
CounterExpires ==
    \A k \in RateKeys : count[k] > 0 =>
        left[k] > 0 \/ k \in lost \/ \E c \in Callers : at[c] = "expire" /\ on[c] = k

\* A window that starts late lets a burst through around its end, but never as much as
\* twice the limit in the length of a window, with windows that start at the first
\* request and any number of processes that count together
\* (app/rate_limit/limiter.py:57-66, 112-114).
BurstBound == recent[Window - 1] <= Burst(watched)

\* A caller that has used up its limit is let in again once the window is over, however
\* often it keeps calling: only a lost EXPIRE limits it for good
\* (app/rate_limit/limiter.py:112-116).
LimitedUntilReset ==
    \A k \in RateKeys :
        count[k] > 0 /\ count[k] >= Limit[k] ~> count[k] = 0 \/ k \in lost

=============================================================================
