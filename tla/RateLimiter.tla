----------------------------- MODULE RateLimiter -----------------------------
(***************************************************************************)
(* The per-client quotas of one tenant: custos/rate_limiter.py and the use *)
(* /v1/evaluate makes of it (main.py, evaluate).                           *)
(*                                                                         *)
(* Each key has two fixed windows, which start at its first request and    *)
(* start again with the first request after they have elapsed.  The clock  *)
(* counts ticks; a check holds the limiter's lock, so it is one step.      *)
(***************************************************************************)
EXTENDS Clock, FiniteSetsExt

CONSTANTS
    Clients,
    Unregistered,                           \* the state of a key with no quota yet
    PerMinute, PerHour, TokensPerMinute,    \* QuotaConfig of the tenant
    Minute, Hour,                           \* lengths of the windows, in ticks
    TokenCounts                             \* token counts of requests

QuotaState ==
    [minute_count : Nat, hour_count : Nat, token_count : Nat, minute_start : Nat, hour_start : Nat]

\* A quota is at least one (TenantRegisterRequest, DEFAULT_QUOTA).
ASSUME QuotaAssumption ==
    /\ {PerMinute, PerHour, TokensPerMinute} \subseteq Nat \ {0}
    /\ {Minute, Hour} \subseteq Nat \ {0} /\ Minute <= Hour
    /\ TokenCounts \subseteq Nat \ {0}
    /\ Unregistered \notin QuotaState

VARIABLES
    state,      \* _state: the QuotaState of each registered key
    admitted,   \* history: requests of each key admitted before each tick
    spent       \* history: tokens of each key admitted before each tick

limiter == <<state, admitted, spent>>

Stamps == 0..(MaxTime + 1)

Fresh(t) ==
    [minute_count |-> 0, hour_count |-> 0, token_count |-> 0,
     minute_start |-> t, hour_start |-> t]

Registered(c) == state[c] # Unregistered

LimiterInit ==
    /\ state = [c \in Clients |-> Unregistered]
    /\ admitted = [c \in Clients |-> [t \in Stamps |-> 0]]
    /\ spent = [c \in Clients |-> [t \in Stamps |-> 0]]

\* The windows that have elapsed at time t start again.
Rolled(s, t) ==
    LET m == IF t - s.minute_start >= Minute
             THEN [s EXCEPT !.minute_count = 0, !.token_count = 0, !.minute_start = t]
             ELSE s
    IN  IF t - s.hour_start >= Hour THEN [m EXCEPT !.hour_count = 0, !.hour_start = t]
        ELSE m

\* Variant: one request too many.
Exceeded_OffByOne(s, n) ==
    IF s.minute_count > PerMinute THEN "minute"
    ELSE IF s.hour_count > PerHour THEN "hour"
    ELSE IF s.token_count + n > TokensPerMinute THEN "tokens" ELSE "none"

\* The quota that refuses n more tokens.
Exceeded(s, n) ==
    IF s.minute_count >= PerMinute THEN "minute"
    ELSE IF s.hour_count >= PerHour THEN "hour"
    ELSE IF s.token_count + n > TokensPerMinute THEN "tokens" ELSE "none"

\* A key is registered, with the quota of its tenant, by its first request.
StateFor(c) == IF Registered(c) THEN state[c] ELSE Fresh(now)

\* A history with n more of them now.
Counted(log, n) == [t \in Stamps |-> IF t > now THEN log[t] + n ELSE log[t]]

check_and_consume(c, n) ==
    LET s == Rolled(StateFor(c), now)
    IN  IF Exceeded(s, n) = "none"
        THEN /\ state' = [state EXCEPT ![c] =
                   [s EXCEPT !.minute_count = @ + 1, !.hour_count = @ + 1,
                             !.token_count = @ + n]]
             /\ admitted' = [admitted EXCEPT ![c] = Counted(@, 1)]
             /\ spent' = [spent EXCEPT ![c] = Counted(@, n)]
             /\ UNCHANGED now
        ELSE /\ state' = [state EXCEPT ![c] = s]
             /\ UNCHANGED <<now, admitted, spent>>

LimiterNext == \E c \in Clients, n \in TokenCounts : check_and_consume(c, n)

----------------------------------------------------------------------------
(* retry_after_seconds: asked after a refusal, at the same time or later.   *)

NoWait == 0

\* Variant: the wait is a tick short.
retry_after_seconds_Short(c, n, t) ==
    LET s == Rolled(state[c], t)
    IN  IF Exceeded(s, n) = "none" THEN NoWait
        ELSE Max({1, IF Exceeded(s, n) = "hour" THEN Hour - (t - s.hour_start) - 1
                     ELSE Minute - (t - s.minute_start) - 1})

retry_after_seconds(c, n, t) ==
    LET minute_left == Minute - (t - state[c].minute_start)
        hour_left == Hour - (t - state[c].hour_start)
        minute_count == IF minute_left <= 0 THEN 0 ELSE state[c].minute_count
        token_count == IF minute_left <= 0 THEN 0 ELSE state[c].token_count
        hour_count == IF hour_left <= 0 THEN 0 ELSE state[c].hour_count
    IN  IF minute_count >= PerMinute THEN Max({1, minute_left})
        ELSE IF hour_count >= PerHour THEN Max({1, hour_left})
        ELSE IF token_count + n > TokensPerMinute THEN Max({1, minute_left})
        ELSE NoWait

----------------------------------------------------------------------------
(* Properties.                                                              *)

\* No stretch of the given length has more than the bound.
Within(log, length, bound) ==
    \A t \in Times : log[Min({t + length, MaxTime + 1})] - log[t] <= bound

\* A fixed window lets through at most twice its quota in any stretch of its own
\* length, wherever the stretch lies and however windows and requests fall
\* (check_and_consume): requests a minute, requests an hour, tokens a minute.
AtMostTwiceTheQuota ==
    \A c \in Clients :
        /\ Within(admitted[c], Minute, 2 * PerMinute)
        /\ Within(admitted[c], Hour, 2 * PerHour)
        /\ Within(spent[c], Minute, 2 * TokensPerMinute)

Affords(c, n, t) == Exceeded(Rolled(state[c], t), n) = "none"

\* "Read-only mirror of check_and_consume()" (rate_limiter.py): whenever it is
\* asked, retry_after_seconds names a wait exactly when a request would be refused;
\* and a client that waits as told is not refused again by the same quota, unless it
\* asks for more tokens than a whole window has.
RetryAfterIsRight ==
    \A c \in Clients, n \in TokenCounts : Registered(c) =>
        /\ \A t \in now..MaxTime : retry_after_seconds(c, n, t) = NoWait <=> Affords(c, n, t)
        /\ \/ Affords(c, n, now) \/ n > TokensPerMinute
           \/ Exceeded(Rolled(state[c], now + retry_after_seconds(c, n, now)), n)
                  # Exceeded(Rolled(state[c], now), n)
============================================================================
