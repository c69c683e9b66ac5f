----------------------------- MODULE DarajaClient -----------------------------
(***************************************************************************)
(* RealDarajaClient and its circuit breaker (app/daraja/client.py).  One    *)
(* client, and so one breaker, serves every thread of a process: approvals  *)
(* being executed, status queries, a reconciliation run.                    *)
(*                                                                         *)
(* The breaker has no lock.  CPython 3.12, the version the project pins,    *)
(* switches threads at calls and at the ends of loops only: the steps of    *)
(* the breaker are what lies between its calls of the clock.                *)
(***************************************************************************)
EXTENDS Integers

CONSTANTS
    Callers,        \* threads that use the client
    Threshold,      \* failure_threshold
    Recovery,       \* recovery_seconds, in ticks of the clock
    MaxDelay,       \* bound: ticks a caller may be suspended after it read the clock
    None            \* opened_at is None, no call

ASSUME ClientConstants ==
    /\ Threshold \in Int
    /\ Recovery \in Nat
    /\ MaxDelay \in Nat
    /\ MaxDelay < Recovery      \* a thread is not suspended for a recovery window
    /\ None \notin Int

\* max(1, failure_threshold)
OpensAt == IF Threshold > 1 THEN Threshold ELSE 1

\* Ages from here on are not told apart: older than the recovery window for any caller.
MaxAge == Recovery + MaxDelay

VARIABLES
    enabled,        \* the breaker is enabled in the settings
    healthy,        \* the provider answers as it should
    state,
    failure_count,  \* counted up to OpensAt
    opened_ago,     \* the age of opened_at, or None
    pc,             \* pc[c]: what caller c does next
    kind,           \* kind[c]: the call it makes, an STK push or a status query
    read_ago,       \* read_ago[c]: how long ago c read the clock
    errors          \* history: the errors that calls met, by type

breaker == <<state, failure_count, opened_ago>>
vars == <<enabled, healthy, state, failure_count, opened_ago, pc, kind, read_ago, errors>>

Kinds == {"push", "query"}

-----------------------------------------------------------------------------
Init ==
    /\ enabled \in BOOLEAN
    /\ healthy = TRUE
    /\ state = "closed"
    /\ failure_count = 0
    /\ opened_ago = None
    /\ pc = [c \in Callers |-> "idle"]
    /\ kind = [c \in Callers |-> None]
    /\ read_ago = [c \in Callers |-> 0]
    /\ errors = {}

Goto(c, label) == pc' = [pc EXCEPT ![c] = label] /\ UNCHANGED kind

\* The call of c returns or raises.
Finish(c) == pc' = [pc EXCEPT ![c] = "idle"] /\ kind' = [kind EXCEPT ![c] = None]

\* initiate_stk_push and check_transaction_status
Start(c, k) ==
    /\ pc[c] = "idle"
    /\ pc' = [pc EXCEPT ![c] = "check"]
    /\ kind' = [kind EXCEPT ![c] = k]
    /\ UNCHANGED <<enabled, healthy, breaker, read_ago, errors>>

\* before_call, up to the clock: an open breaker without an opening time rejects.
BeforeCall(c) ==
    /\ pc[c] = "check"
    /\ \/ /\ ~enabled \/ state # "open"
          /\ Goto(c, "token")
          /\ UNCHANGED <<read_ago, errors>>
       \/ /\ enabled /\ state = "open" /\ opened_ago = None
          /\ Finish(c)
          /\ errors' = errors \cup {"CircuitBreakerOpenError"}
          /\ UNCHANGED read_ago
       \/ /\ enabled /\ state = "open" /\ opened_ago # None
          /\ Goto(c, "elapsed")
          /\ read_ago' = [read_ago EXCEPT ![c] = 0]
          /\ UNCHANGED errors
    /\ UNCHANGED <<enabled, healthy, breaker>>

\* Mutant: the difference is taken the wrong way round.
RecoveredNever(c) == opened_ago # None /\ read_ago[c] - opened_ago >= Recovery

\* clock() - opened_at >= recovery_seconds, with the time that c read
Recovered(c) == opened_ago # None /\ opened_ago - read_ago[c] >= Recovery

\* ... and from the clock on, with the opening time as it is by now.
Elapsed(c) ==
    /\ pc[c] = "elapsed"
    /\ \/ /\ Recovered(c)
          /\ state' = "half_open"
          /\ Goto(c, "token")
          /\ UNCHANGED errors
       \/ /\ opened_ago # None /\ ~Recovered(c) /\ state # "open"
          /\ Goto(c, "token")
          /\ UNCHANGED <<state, errors>>
       \/ /\ opened_ago # None /\ ~Recovered(c) /\ state = "open"
          /\ Finish(c)
          /\ errors' = errors \cup {"CircuitBreakerOpenError"}
          /\ UNCHANGED state
       \/ /\ opened_ago = None
          /\ Finish(c)
          /\ errors' = errors \cup {"TypeError"}
          /\ UNCHANGED state
    /\ read_ago' = [read_ago EXCEPT ![c] = 0]
    /\ UNCHANGED <<enabled, healthy, failure_count, opened_ago>>

\* _get_oauth_token, with its retries.  An answer without a token is a ValueError, which
\* initiate_stk_push does not catch, and one that is not an object an AttributeError,
\* which no call catches: they are not counted as failures.
Token(c) ==
    /\ pc[c] = "token"
    /\ \/ Goto(c, "request") /\ UNCHANGED errors
       \/ ~healthy /\ Goto(c, "failed") /\ UNCHANGED errors
       \/ /\ ~healthy /\ kind[c] = "push"
          /\ Finish(c)
          /\ errors' = errors \cup {"ValueError"}
       \/ /\ ~healthy
          /\ Finish(c)
          /\ errors' = errors \cup {"AttributeError"}
    /\ UNCHANGED <<enabled, healthy, breaker, read_ago>>

\* The STK push, which is sent once, or the status query with its retries.
Request(c) ==
    /\ pc[c] = "request"
    /\ \/ Goto(c, "answered")
       \/ ~healthy /\ Goto(c, "failed")
    /\ UNCHANGED <<enabled, healthy, breaker, read_ago, errors>>

\* Mutant: a success forgives one failure.
RecordSuccessForgivesOne(c) ==
    /\ pc[c] = "answered"
    /\ IF enabled
         THEN state' = "closed" /\ failure_count' = failure_count - 1 /\ opened_ago' = None
         ELSE UNCHANGED breaker
    /\ Finish(c)
    /\ UNCHANGED <<enabled, healthy, read_ago, errors>>

RecordSuccess(c) ==
    /\ pc[c] = "answered"
    /\ IF enabled
         THEN state' = "closed" /\ failure_count' = 0 /\ opened_ago' = None
         ELSE UNCHANGED breaker
    /\ Finish(c)
    /\ UNCHANGED <<enabled, healthy, read_ago, errors>>

\* Mutant: opens one failure late.
ReachesThresholdLate == failure_count >= OpensAt

\* Mutant: opens one failure early.
ReachesThresholdEarly == failure_count + 2 >= OpensAt

\* The failures counted with one more, up to OpensAt: more make no difference.
Counted == IF failure_count < OpensAt THEN failure_count + 1 ELSE OpensAt

\* One more failure opens the breaker.
ReachesThreshold == failure_count + 1 >= OpensAt

\* record_failure, up to the clock that gives the opening time.
RecordFailure(c) ==
    /\ pc[c] = "failed"
    /\ \/ /\ ~enabled
          /\ Finish(c)
          /\ UNCHANGED <<breaker, read_ago>>
       \/ /\ enabled /\ ~ReachesThreshold
          /\ failure_count' = Counted
          /\ Finish(c)
          /\ UNCHANGED <<state, opened_ago, read_ago>>
       \/ /\ enabled /\ ReachesThreshold
          /\ failure_count' = Counted
          /\ state' = "open"
          /\ Goto(c, "opening")
          /\ read_ago' = [read_ago EXCEPT ![c] = 0]
          /\ UNCHANGED opened_ago
    /\ errors' = errors \cup {"DarajaProviderError"}
    /\ UNCHANGED <<enabled, healthy>>

\* Mutant: the opening time is not stored.
StoreOpenedAtForgotten(c) ==
    /\ pc[c] = "opening"
    /\ read_ago' = [read_ago EXCEPT ![c] = 0]
    /\ Finish(c)
    /\ UNCHANGED <<enabled, healthy, breaker, errors>>

\* The opening time is stored.
StoreOpenedAt(c) ==
    /\ pc[c] = "opening"
    /\ opened_ago' = read_ago[c]
    /\ read_ago' = [read_ago EXCEPT ![c] = 0]
    /\ Finish(c)
    /\ UNCHANGED <<enabled, healthy, state, failure_count, errors>>

Suspended(c) == pc[c] \in {"elapsed", "opening"}

\* The clock moves on.
Tick ==
    /\ \A c \in Callers : Suspended(c) => read_ago[c] < MaxDelay
    /\ opened_ago' = IF opened_ago = None THEN None
                     ELSE IF opened_ago < MaxAge THEN opened_ago + 1
                     ELSE MaxAge
    /\ read_ago' = [c \in Callers |-> IF Suspended(c) THEN read_ago[c] + 1 ELSE 0]
    /\ UNCHANGED <<enabled, healthy, state, failure_count, pc, kind, errors>>

\* An outage of the provider begins or ends.
OutageBeginsOrEnds ==
    /\ healthy' = ~healthy
    /\ UNCHANGED <<enabled, breaker, pc, kind, read_ago, errors>>

Call(c) ==
    \/ BeforeCall(c) \/ Elapsed(c) \/ Token(c) \/ Request(c)
    \/ RecordSuccess(c) \/ RecordFailure(c) \/ StoreOpenedAt(c)

Next ==
    \/ \E c \in Callers : (\E k \in Kinds : Start(c, k)) \/ Call(c)
    \/ Tick
    \/ OutageBeginsOrEnds

Spec == Init /\ [][Next]_vars

\* Fairness.  The clock moves on and callers are scheduled.  Calls keep coming: the
\* breaker has no timer of its own, it looks at the clock when it is called.
FairSpec ==
    /\ Spec
    /\ WF_vars(Tick)
    /\ \A c \in Callers : WF_vars(Call(c)) /\ WF_vars(\E k \in Kinds : Start(c, k))

-----------------------------------------------------------------------------
Errors == {"CircuitBreakerOpenError", "DarajaProviderError",
           "TypeError", "ValueError", "AttributeError"}
Labels == {"idle", "check", "elapsed", "token", "request", "answered", "failed", "opening"}

\* Type invariant.
TypeOK ==
    /\ enabled \in BOOLEAN
    /\ healthy \in BOOLEAN
    /\ state \in {"closed", "open", "half_open"}
    /\ failure_count \in 0..OpensAt
    /\ opened_ago \in 0..MaxAge \cup {None}
    /\ pc \in [Callers -> Labels]
    /\ kind \in [Callers -> Kinds \cup {None}]
    /\ read_ago \in [Callers -> 0..MaxDelay]
    /\ errors \subseteq Errors

\* An open breaker has an opening time, or a caller is about to store it: otherwise it
\* would reject every call until a restart, since only its age reopens the way
\* (app/daraja/client.py:101-104).
OpenIsTimed ==
    state = "open" => opened_ago # None \/ \E c \in Callers : pc[c] = "opening"

\* A breaker that has counted its failures is not closed, whichever calls, answers and
\* openings overlap (app/daraja/client.py:123-131).
OpenIfCounted == failure_count >= OpensAt => state # "closed"

\* A breaker that is not closed has counted its failures since the last success: no call
\* is rejected for failures that a later answer has made up for
\* (app/daraja/client.py:114-131).
CountedIfOpen == state # "closed" => failure_count >= OpensAt

\* When outages end for good and calls keep coming, the breaker closes for good
\* (app/daraja/client.py:95-121).
EventuallyCloses == <>[]healthy => <>[](state = "closed")

\* "Reject calls while the circuit is open." (app/daraja/client.py:107): the check of the
\* breaker ends in a rejection or lets the call through, it does not break the call.
CheckDoesNotBreak == "TypeError" \notin errors

=============================================================================
