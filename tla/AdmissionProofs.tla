--------------------------- MODULE AdmissionProofs ---------------------------
(***************************************************************************)
(* Proofs about Admission, for every set of clients, sites, keys and       *)
(* tokens, every quota and every length of the windows, of the life of a   *)
(* key document, of the backoff and of a fetch.                            *)
(***************************************************************************)
EXTENDS Admission, TLAPS

----------------------------------------------------------------------------
(* The key cache.  The inductive invariant, in parts.                       *)

TypedCache ==
    /\ now \in Nat
    /\ published \in [Keys -> [out : BOOLEAN, since : Nat]]
    /\ \A k \in Keys : published[k].since <= now
    /\ last_attempt \in [Https -> Int]
    /\ by_url = [u \in Https |-> by_url[u]]
    /\ \A u \in Https : by_url[u] # NoEntry => by_url[u].fetched \in Int /\ by_url[u].fetched <= now

\* A key of a site disagrees with a set of key identifiers the site once published.
Differs(k, kids) == (k.kid \in kids) # published[k].out

\* The fetch in flight is the one its token asked for, it is not over its time, and
\* what the site read differs only in keys that moved since the attempt.
Fetching ==
    fetching # NoFetch =>
        /\ fetching = [token |-> fetching.token, url |-> fetching.url,
                       read |-> fetching.read, keys |-> fetching.keys]
        /\ fetching.url \in Https /\ fetching.url \notin failed
        /\ fetching.url = tenant_jwks_url_for_issuer(fetching.token.iss)
        /\ fetching.token.kid # ServiceKey.kid
        /\ last_attempt[fetching.url] <= now /\ now - last_attempt[fetching.url] <= Slow
        /\ fetching.read =>
             /\ \A kid \in fetching.keys : [url |-> fetching.url, kid |-> kid] \in Keys
             /\ \A k \in Keys : k.url = fetching.url /\ Differs(k, fetching.keys) =>
                  published[k].since >= last_attempt[fetching.url]

\* A document that is held differs from its site only in keys that moved since a
\* fetch before its arrival.
Held ==
    \A u \in Https : by_url[u] # NoEntry =>
        /\ \A kid \in by_url[u].keys : [url |-> u, kid |-> kid] \in Keys
        /\ \A k \in Keys : k.url = u /\ Differs(k, by_url[u].keys) =>
             published[k].since >= by_url[u].fetched - Slow

\* An attempt that is over and did not fail has left its document.
Settled ==
    \A u \in Https :
        \/ last_attempt[u] = Never
        \/ u \in failed
        \/ fetching # NoFetch /\ fetching.url = u
        \/ by_url[u] # NoEntry /\ by_url[u].fetched >= last_attempt[u]

CInv == TypedCache /\ Fetching /\ Held /\ Settled /\ AcceptedIsVouchedFor /\ NewKeyIsSeen

----------------------------------------------------------------------------
(* The rate limiter.                                                        *)

QuotaStates(t) == {s \in QuotaState : s.minute_start <= t /\ s.hour_start <= t}

\* Every window of a registered key started at some time in the past.
LInv ==
    /\ now \in Nat
    /\ state = [c \in Clients |-> state[c]]
    /\ \A c \in Clients : Registered(c) => state[c] \in QuotaStates(now)

\* The greater of one and a number.
LEMMA MaxOfOne ==
  ASSUME NEW x \in Int
  PROVE  Max({1, x}) = IF x >= 1 THEN x ELSE 1
  BY DEF Max

\* What _roll makes of a state, field by field.
LEMMA RolledFields ==
  ASSUME NEW u \in Nat, NEW s \in QuotaStates(u), NEW t \in Nat
  PROVE  /\ Rolled(s, t).minute_count = IF t - s.minute_start >= Minute THEN 0 ELSE s.minute_count
         /\ Rolled(s, t).token_count = IF t - s.minute_start >= Minute THEN 0 ELSE s.token_count
         /\ Rolled(s, t).hour_count = IF t - s.hour_start >= Hour THEN 0 ELSE s.hour_count
         /\ t >= u => Rolled(s, t) \in QuotaStates(t)
  <1> USE QuotaAssumption
  <1>0. /\ s = [minute_count |-> s.minute_count, hour_count |-> s.hour_count,
                token_count |-> s.token_count, minute_start |-> s.minute_start,
                hour_start |-> s.hour_start]
        /\ s.minute_count \in Nat /\ s.hour_count \in Nat /\ s.token_count \in Nat
        /\ s.minute_start \in Nat /\ s.hour_start \in Nat /\ s.minute_start <= u /\ s.hour_start <= u
    BY DEF QuotaStates, QuotaState
  <1> DEFINE minute == t - s.minute_start >= Minute
             hour == t - s.hour_start >= Hour
  <1>1. Rolled(s, t) =
           [minute_count |-> IF minute THEN 0 ELSE s.minute_count,
            hour_count |-> IF hour THEN 0 ELSE s.hour_count,
            token_count |-> IF minute THEN 0 ELSE s.token_count,
            minute_start |-> IF minute THEN t ELSE s.minute_start,
            hour_start |-> IF hour THEN t ELSE s.hour_start]
    <2>1. CASE minute
      <3>1. CASE hour
        BY <1>0, <2>1, <3>1 DEF Rolled
      <3>2. CASE ~hour
        BY <1>0, <2>1, <3>2 DEF Rolled
      <3>. QED
        BY <3>1, <3>2
    <2>2. CASE ~minute
      <3>1. CASE hour
        BY <1>0, <2>2, <3>1 DEF Rolled
      <3>2. CASE ~hour
        BY <1>0, <2>2, <3>2 DEF Rolled
      <3>. QED
        BY <3>1, <3>2
    <2>. QED
      BY <2>1, <2>2
  <1>2. t >= u => Rolled(s, t) \in QuotaStates(t)
    BY <1>0, <1>1 DEF QuotaStates, QuotaState
  <1>. QED
    BY <1>1, <1>2

LEMMA CountedStaysState ==
  ASSUME NEW t \in Nat, NEW s \in QuotaStates(t), NEW n \in Nat
  PROVE  [s EXCEPT !.minute_count = @ + 1, !.hour_count = @ + 1, !.token_count = @ + n]
            \in QuotaStates(t)
  <1>1. s \in QuotaState /\ s.minute_start <= t /\ s.hour_start <= t
    BY DEF QuotaStates, QuotaState
  <1>2. ASSUME NEW a \in Nat, NEW b \in Nat, NEW d \in Nat
        PROVE  [s EXCEPT !.minute_count = a, !.hour_count = b, !.token_count = d] \in QuotaStates(t)
    <2> DEFINE q == [s EXCEPT !.minute_count = a, !.hour_count = b, !.token_count = d]
    <2>1. q.minute_start = s.minute_start /\ q.hour_start = s.hour_start
      BY <1>1
    <2>2. q \in QuotaState
      BY <1>1 DEF QuotaState
    <2> HIDE DEF q
    <2>3. q \in QuotaStates(t)
      BY <1>1, <2>1, <2>2 DEF QuotaStates, QuotaState
    <2>. QED
      BY <2>3 DEF q
  <1>3. s.minute_count + 1 \in Nat /\ s.hour_count + 1 \in Nat /\ s.token_count + n \in Nat
    BY <1>1 DEF QuotaState
  <1>. QED
    BY <1>2, <1>3

LEMMA LimiterStep ==
  ASSUME LInv, [AdmissionNext]_admissionVars
  PROVE  LInv'
  <1> USE DEF LInv, Registered
  <1>1. CASE UNCHANGED <<now, limiter>>
    BY <1>1 DEF limiter
  <1>2. CASE Tick
    BY <1>2 DEF Tick, Advance, limiter, QuotaStates, QuotaState
  <1>3. ASSUME NEW c \in Clients, NEW n \in TokenCounts, check_and_consume(c, n)
        PROVE  LInv'
    <2> DEFINE s == Rolled(StateFor(c), now)
    <2>1. n \in Nat
      BY QuotaAssumption
    <2>2. StateFor(c) \in QuotaStates(now)
      BY DEF StateFor, Fresh, QuotaStates, QuotaState
    <2>3. s \in QuotaStates(now)
      BY <2>2, RolledFields
    <2> HIDE DEF s
    <2>4. [s EXCEPT !.minute_count = @ + 1, !.hour_count = @ + 1, !.token_count = @ + n]
             \in QuotaStates(now)
      BY <2>1, <2>3, CountedStaysState
    <2>5. PICK q \in QuotaStates(now) : state' = [state EXCEPT ![c] = q] /\ now' = now
      <3>1. CASE Exceeded(s, n) = "none"
        BY <1>3, <2>4, <3>1 DEF check_and_consume, s
      <3>2. CASE Exceeded(s, n) # "none"
        BY <1>3, <2>3, <3>2 DEF check_and_consume, s
      <3>. QED
        BY <3>1, <3>2
    <2>. QED
      BY <2>5
  <1>. QED
    BY <1>1, <1>2, <1>3 DEF AdmissionNext, Quotas, LimiterNext, VerifyTokens, admissionVars

\* retry_after_seconds reads the windows as check_and_consume would roll them.
LEMMA RetryIsRight ==
  ASSUME LInv, NEW c \in Clients, NEW n \in TokenCounts, Registered(c)
  PROVE  /\ \A t \in now..MaxTime : retry_after_seconds(c, n, t) = NoWait <=> Affords(c, n, t)
         /\ \/ Affords(c, n, now) \/ n > TokensPerMinute
            \/ Exceeded(Rolled(state[c], now + retry_after_seconds(c, n, now)), n)
                  # Exceeded(Rolled(state[c], now), n)
  <1> DEFINE s == state[c]
             minute_left(t) == Minute - (t - s.minute_start)
             hour_left(t) == Hour - (t - s.hour_start)
             Wait(x) == IF x >= 1 THEN x ELSE 1
  <1>1. /\ s \in QuotaStates(now) /\ now \in Nat /\ n \in Nat \ {0}
        /\ s.minute_count \in Nat /\ s.hour_count \in Nat /\ s.token_count \in Nat
        /\ s.minute_start \in Nat /\ s.hour_start \in Nat
        /\ PerMinute \in Nat \ {0} /\ PerHour \in Nat \ {0} /\ TokensPerMinute \in Nat \ {0}
        /\ Minute \in Nat \ {0} /\ Hour \in Nat \ {0}
    BY QuotaAssumption DEF LInv, QuotaStates, QuotaState
  <1>2. ASSUME NEW t \in Nat, t >= now
        PROVE  /\ retry_after_seconds(c, n, t) =
                    CASE Exceeded(Rolled(s, t), n) = "minute" -> Wait(minute_left(t))
                      [] Exceeded(Rolled(s, t), n) = "hour" -> Wait(hour_left(t))
                      [] Exceeded(Rolled(s, t), n) = "tokens" -> Wait(minute_left(t))
                      [] OTHER -> 0
               /\ Exceeded(Rolled(s, t), n) \in {"minute", "hour", "tokens", "none"}
    <2>1. Max({1, minute_left(t)}) = Wait(minute_left(t)) /\ Max({1, hour_left(t)}) = Wait(hour_left(t))
      BY <1>1, <1>2, MaxOfOne
    <2>2. /\ Rolled(s, t).minute_count = IF minute_left(t) <= 0 THEN 0 ELSE s.minute_count
          /\ Rolled(s, t).token_count = IF minute_left(t) <= 0 THEN 0 ELSE s.token_count
          /\ Rolled(s, t).hour_count = IF hour_left(t) <= 0 THEN 0 ELSE s.hour_count
      BY <1>1, <1>2, RolledFields
    <2>. QED
      BY <1>1, <1>2, <2>1, <2>2 DEF retry_after_seconds, Exceeded, NoWait
  <1>3. \A t \in now..MaxTime : retry_after_seconds(c, n, t) = NoWait <=> Affords(c, n, t)
    <2> SUFFICES ASSUME NEW t \in now..MaxTime
                 PROVE  retry_after_seconds(c, n, t) = NoWait <=> Affords(c, n, t)
      OBVIOUS
    <2>1. t \in Nat /\ t >= now /\ minute_left(t) \in Int /\ hour_left(t) \in Int
      BY <1>1, ClockAssumption
    <2>2. Wait(minute_left(t)) # 0 /\ Wait(hour_left(t)) # 0
      BY <2>1
    <2>. QED
      BY <1>2, <2>1, <2>2 DEF Affords, NoWait
  <1>4. ASSUME ~Affords(c, n, now), ~(n > TokensPerMinute)
        PROVE  Exceeded(Rolled(s, now + retry_after_seconds(c, n, now)), n)
                  # Exceeded(Rolled(s, now), n)
    <2> DEFINE why == Exceeded(Rolled(s, now), n)
               wait == retry_after_seconds(c, n, now)
               later == Rolled(s, now + wait)
    <2>1. why \in {"minute", "hour", "tokens"} /\ minute_left(now) \in Int /\ hour_left(now) \in Int
      BY <1>1, <1>2, <1>4 DEF Affords
    <2>2. wait = IF why = "hour" THEN Wait(hour_left(now)) ELSE Wait(minute_left(now))
      BY <1>1, <1>2, <2>1
    <2>3. wait \in Nat
      BY <2>1, <2>2
    <2>4. /\ later.minute_count = IF now + wait - s.minute_start >= Minute THEN 0 ELSE s.minute_count
          /\ later.token_count = IF now + wait - s.minute_start >= Minute THEN 0 ELSE s.token_count
          /\ later.hour_count = IF now + wait - s.hour_start >= Hour THEN 0 ELSE s.hour_count
      <3>1. now + wait \in Nat
        BY <1>1, <2>3
      <3>2. ASSUME NEW t \in Nat
            PROVE  /\ Rolled(s, t).minute_count = IF t - s.minute_start >= Minute THEN 0 ELSE s.minute_count
                   /\ Rolled(s, t).token_count = IF t - s.minute_start >= Minute THEN 0 ELSE s.token_count
                   /\ Rolled(s, t).hour_count = IF t - s.hour_start >= Hour THEN 0 ELSE s.hour_count
        BY <1>1, RolledFields
      <3>3. PICK t \in Nat : t = now + wait
        BY <3>1
      <3>4. later = Rolled(s, t)
        BY <3>3
      <3> HIDE DEF wait, later
      <3>5. /\ later.minute_count = IF t - s.minute_start >= Minute THEN 0 ELSE s.minute_count
            /\ later.token_count = IF t - s.minute_start >= Minute THEN 0 ELSE s.token_count
            /\ later.hour_count = IF t - s.hour_start >= Hour THEN 0 ELSE s.hour_count
        BY <3>2, <3>4
      <3>. QED
        BY <1>1, <2>3, <3>3, <3>5
    <2>5. why = "hour" => later.hour_count = 0
      BY <1>1, <2>1, <2>2, <2>3, <2>4
    <2>6. why # "hour" => later.minute_count = 0 /\ later.token_count = 0
      BY <1>1, <2>1, <2>2, <2>3, <2>4
    <2> HIDE DEF wait, why, later, s
    <2>7. ASSUME why = "hour" PROVE Exceeded(later, n) # "hour"
      BY <1>1, <2>5, <2>7 DEF Exceeded
    <2>8. ASSUME why # "hour" PROVE Exceeded(later, n) \notin {"minute", "tokens"}
      BY <1>1, <1>4, <2>6, <2>8 DEF Exceeded
    <2>. QED
      BY <2>1, <2>7, <2>8 DEF why, later, wait
  <1>. QED
    BY <1>3, <1>4

----------------------------------------------------------------------------
(* The windows.  A history of what was admitted before each tick, seen from *)
(* one of the windows that the limiter keeps.                               *)

\* At a time, the history never falls and says nothing of the future.
History(f, at) ==
    /\ f \in [Stamps -> Nat]
    /\ \A t, u \in Stamps : t <= u => f[t] <= f[u]
    /\ \A u \in Stamps : u > at => f[u] = f[at + 1]

\* At a time, the window counts what was admitted since it started, which is within
\* the quota and was admitted before it elapsed; a stretch that ends where it starts
\* holds no more than the window before it, and no stretch more than two windows.
Window(f, at, start, count, length, quota) ==
    /\ start \in 0..at /\ count \in 0..quota
    /\ f[at + 1] = f[start] + count
    /\ \A u \in Stamps : u >= start + length => f[u] = f[at + 1]
    /\ \A t \in Stamps : t <= start /\ start <= t + length => f[start] <= f[t] + quota
    /\ \A t, u \in Stamps : t <= u /\ u <= t + length => f[u] <= f[t] + 2 * quota

\* The three windows that a quota state keeps over two histories.
Windows(q, f, g) ==
    /\ Window(f, now, q.minute_start, q.minute_count, Minute, PerMinute)
    /\ Window(f, now, q.hour_start, q.hour_count, Hour, PerHour)
    /\ Window(g, now, q.minute_start, q.token_count, Minute, TokensPerMinute)

WInv ==
    /\ LInv
    /\ now \in Times
    /\ admitted = [c \in Clients |-> admitted[c]] /\ spent = [c \in Clients |-> spent[c]]
    /\ \A c \in Clients :
        /\ History(admitted[c], now) /\ History(spent[c], now)
        /\ Registered(c) => Windows(state[c], admitted[c], spent[c])
        /\ ~Registered(c) => \A t \in Stamps : admitted[c][t] = 0 /\ spent[c][t] = 0

LEMMA StampFacts ==
  ASSUME now \in Times
  PROVE  /\ now \in Nat /\ now \in Stamps /\ now + 1 \in Stamps /\ MaxTime \in Nat
         /\ \A t \in Stamps : t \in Nat /\ t <= MaxTime + 1
         /\ \A s \in 0..now : s \in Stamps
  BY ClockAssumption DEF Times, Stamps

\* A window in which nothing was ever admitted.
LEMMA FreshWindow ==
  ASSUME now \in Times, NEW f, \A t \in Stamps : f[t] = 0, NEW length \in Nat, NEW quota \in Nat
  PROVE  Window(f, now, now, 0, length, quota)
  BY StampFacts DEF Window

\* A window that has elapsed starts again, empty.
LEMMA RolledWindow ==
  ASSUME now \in Times, NEW f, History(f, now), NEW start, NEW count,
         NEW length \in Nat, NEW quota \in Nat,
         Window(f, now, start, count, length, quota), now - start >= length
  PROVE  Window(f, now, now, 0, length, quota)
  <1>1. /\ now \in Nat /\ start \in Nat /\ start <= now /\ count \in Nat /\ count <= quota
        /\ now \in Stamps /\ now + 1 \in Stamps /\ start \in Stamps
        /\ \A t \in Stamps : t \in Nat /\ f[t] \in Nat
    BY StampFacts DEF Window, History
  <1>2. now >= start + length
    BY <1>1
  <1>3. f[now] = f[now + 1] /\ f[now + 1] = f[start] + count
    BY <1>1, <1>2 DEF Window
  <1>4. ASSUME NEW t \in Stamps, t <= now, now <= t + length
        PROVE  f[now] <= f[t] + quota
    <2>1. start <= t
      BY <1>1, <1>2, <1>4
    <2>2. f[start] <= f[t]
      BY <1>1, <2>1 DEF History
    <2>. QED
      BY <1>1, <1>3, <2>2
  <1>5. ASSUME NEW u \in Stamps, u >= now + length
        PROVE  f[u] = f[now + 1]
    BY <1>1, <1>2, <1>5 DEF Window
  <1>6. \A t, u \in Stamps : t <= u /\ u <= t + length => f[u] <= f[t] + 2 * quota
    BY DEF Window
  <1>. QED
    BY <1>1, <1>3, <1>4, <1>5, <1>6 DEF Window

\* The history with n more now, at each time.
LEMMA CountedAt ==
  ASSUME now \in Times, NEW f, History(f, now), NEW n \in Nat
  PROVE  /\ \A u \in Stamps : Counted(f, n)[u] = IF u > now THEN f[u] + n ELSE f[u]
         /\ History(Counted(f, n), now)
  <1>1. \A u \in Stamps : Counted(f, n)[u] = IF u > now THEN f[u] + n ELSE f[u]
    BY DEF Counted
  <1>2. Counted(f, n) \in [Stamps -> Nat]
    BY DEF Counted, History
  <1>. QED
    BY <1>1, <1>2, StampFacts DEF History

\* A window that has not elapsed takes n more while its quota lasts.
LEMMA CountedWindow ==
  ASSUME now \in Times, NEW f, History(f, now), NEW start, NEW count, NEW n \in Nat,
         NEW length \in Nat, NEW quota \in Nat,
         Window(f, now, start, count, length, quota), ~(now - start >= length), count + n <= quota
  PROVE  Window(Counted(f, n), now, start, count + n, length, quota)
  <1> DEFINE g == Counted(f, n)
  <1>1. /\ now \in Nat /\ start \in Nat /\ start <= now /\ count \in Nat
        /\ now \in Stamps /\ now + 1 \in Stamps /\ start \in Stamps
        /\ \A t \in Stamps : t \in Nat /\ f[t] \in Nat
    BY StampFacts DEF Window, History
  <1>2. now < start + length
    BY <1>1
  <1>3. \A u \in Stamps : g[u] = IF u > now THEN f[u] + n ELSE f[u]
    BY CountedAt
  <1>4. \A u \in Stamps : u > now => f[u] = f[now + 1]
    BY DEF History
  <1>5. f[now + 1] = f[start] + count
    BY DEF Window
  <1> HIDE DEF g
  <1>6. g[start] = f[start] /\ g[now + 1] = f[now + 1] + n
    BY <1>1, <1>3
  <1>7. ASSUME NEW u \in Stamps, u >= start + length
        PROVE  g[u] = g[now + 1]
    BY <1>1, <1>2, <1>3, <1>4, <1>6, <1>7
  <1>8. ASSUME NEW t \in Stamps, t <= start, start <= t + length
        PROVE  g[start] <= g[t] + quota
    <2>1. f[start] <= f[t] + quota
      BY <1>8 DEF Window
    <2>2. g[t] = f[t]
      BY <1>1, <1>3, <1>8
    <2>. QED
      BY <1>6, <2>1, <2>2
  <1>9. ASSUME NEW t \in Stamps, NEW u \in Stamps, t <= u, u <= t + length
        PROVE  g[u] <= g[t] + 2 * quota
    <2>0. t \in Nat /\ u \in Nat /\ f[t] \in Nat /\ f[u] \in Nat /\ f[start] \in Nat
      BY <1>1
    <2>1. f[u] <= f[t] + 2 * quota
      BY <1>9 DEF Window
    <2>2. CASE u <= now \/ t > now
      <3>1. \/ g[u] = f[u] /\ g[t] = f[t]
            \/ g[u] = f[u] + n /\ g[t] = f[t] + n
        BY <1>1, <1>3, <1>9, <2>0, <2>2
      <3>. QED
        BY <2>0, <2>1, <3>1
    <2>3. CASE t <= now /\ u > now
      <3>1. g[u] = f[start] + count + n /\ g[t] = f[t]
        BY <1>1, <1>3, <1>4, <1>5, <2>0, <2>3
      <3>2. f[start] <= f[t] + quota
        <4>1. CASE t <= start
          <5>1. start <= t + length
            BY <1>1, <1>9, <2>0, <2>3
          <5>. QED
            BY <4>1, <5>1 DEF Window
        <4>2. CASE start <= t
          <5>1. f[start] <= f[t]
            BY <1>1, <4>2 DEF History
          <5>. QED
            BY <2>0, <5>1
        <4>. QED
          BY <1>1, <2>0, <4>1, <4>2
      <3>. QED
        BY <1>1, <2>0, <3>1, <3>2
    <2>. QED
      BY <2>0, <1>1, <2>2, <2>3
  <1>10. start \in 0..now /\ count + n \in 0..quota
    BY <1>1
  <1>11. g[now + 1] = g[start] + (count + n)
    BY <1>1, <1>5, <1>6
  <1>12. Window(g, now, start, count + n, length, quota)
    BY <1>7, <1>8, <1>9, <1>10, <1>11 DEF Window
  <1>. QED
    BY <1>12 DEF g

\* Time passes: the window is a tick older.
LEMMA OlderWindow ==
  ASSUME NEW at \in Times, at + 1 \in Times, NEW f, History(f, at)
  PROVE  /\ History(f, at + 1)
         /\ \A start, count, length, quota :
              Window(f, at, start, count, length, quota) => Window(f, at + 1, start, count, length, quota)
  <1>1. /\ at \in Nat /\ at + 1 \in Stamps /\ (at + 1) + 1 \in Stamps
        /\ \A u \in Stamps : u \in Nat
    BY ClockAssumption DEF Times, Stamps
  <1>2. f[(at + 1) + 1] = f[at + 1]
    BY <1>1 DEF History
  <1>3. History(f, at + 1)
    BY <1>1, <1>2 DEF History
  <1>4. \A s \in 0..at : s \in 0..(at + 1)
    BY <1>1
  <1>. QED
    BY <1>2, <1>3, <1>4 DEF Window

\* The state a request finds, its windows rolled.
LEMMA RolledStarts ==
  ASSUME NEW s \in QuotaStates(now), now \in Nat
  PROVE  /\ Rolled(s, now).minute_start = IF now - s.minute_start >= Minute THEN now ELSE s.minute_start
         /\ Rolled(s, now).hour_start = IF now - s.hour_start >= Hour THEN now ELSE s.hour_start
  <1>1. s \in QuotaState
    BY DEF QuotaStates, QuotaState
  <1>. QED
    BY <1>1 DEF Rolled

\* A window of a key, rolled when it has elapsed, is a window that has not.
LEMMA RolledOrNot ==
  ASSUME now \in Times, NEW f, History(f, now), NEW start, NEW count,
         NEW length \in Nat \ {0}, NEW quota \in Nat,
         Window(f, now, start, count, length, quota)
  PROVE  LET elapsed == now - start >= length
             begun == IF elapsed THEN now ELSE start
         IN  /\ Window(f, now, begun, IF elapsed THEN 0 ELSE count, length, quota)
             /\ ~(now - begun >= length)
  <1>1. CASE now - start >= length
    <2>1. Window(f, now, now, 0, length, quota)
      BY <1>1, RolledWindow
    <2>2. ~(now - now >= length)
      BY StampFacts
    <2>. QED
      BY <1>1, <2>1, <2>2
  <1>2. CASE ~(now - start >= length)
    BY <1>2
  <1>. QED
    BY <1>1, <1>2

\* A request leaves its key with windows over the histories it leaves.
LEMMA RequestKeepsWindows ==
  ASSUME WInv, NEW c \in Clients, NEW n \in TokenCounts, check_and_consume(c, n)
  PROVE  \E q \in QuotaStates(now), f, g \in [Stamps -> Nat] :
            /\ History(f, now) /\ History(g, now) /\ Windows(q, f, g)
            /\ state' = [state EXCEPT ![c] = q]
            /\ admitted' = [admitted EXCEPT ![c] = f]
            /\ spent' = [spent EXCEPT ![c] = g]
            /\ now' = now
  <1> DEFINE s0 == StateFor(c)
             s == Rolled(s0, now)
             f0 == admitted[c]
             g0 == spent[c]
             q == [s EXCEPT !.minute_count = @ + 1, !.hour_count = @ + 1, !.token_count = @ + n]
  <1>1. /\ n \in Nat /\ now \in Times /\ now \in Nat
        /\ Minute \in Nat \ {0} /\ Hour \in Nat \ {0}
        /\ PerMinute \in Nat /\ PerHour \in Nat /\ TokensPerMinute \in Nat
    BY QuotaAssumption DEF WInv, LInv
  <1>2. History(f0, now) /\ History(g0, now)
    BY DEF WInv
  <1>3. s0 \in QuotaStates(now) /\ Windows(s0, f0, g0)
    <2>1. CASE Registered(c)
      BY <2>1 DEF WInv, LInv, StateFor, Windows
    <2>2. CASE ~Registered(c)
      <3>1. s0 = Fresh(now) /\ \A t \in Stamps : f0[t] = 0 /\ g0[t] = 0
        BY <2>2 DEF WInv, StateFor
      <3>2. /\ s0 \in QuotaStates(now)
            /\ s0.minute_start = now /\ s0.hour_start = now
            /\ s0.minute_count = 0 /\ s0.hour_count = 0 /\ s0.token_count = 0
        BY <1>1, <3>1 DEF Fresh, QuotaStates, QuotaState
      <3> HIDE DEF s0, f0, g0
      <3>3. /\ Window(f0, now, now, 0, Minute, PerMinute)
            /\ Window(f0, now, now, 0, Hour, PerHour)
            /\ Window(g0, now, now, 0, Minute, TokensPerMinute)
        BY <1>1, <3>1, FreshWindow
      <3>. QED
        BY <3>2, <3>3 DEF Windows
    <2>. QED
      BY <2>1, <2>2
  <1> HIDE DEF s0, f0, g0
  <1>4. /\ s \in QuotaStates(now)
        /\ s.minute_count = IF now - s0.minute_start >= Minute THEN 0 ELSE s0.minute_count
        /\ s.token_count = IF now - s0.minute_start >= Minute THEN 0 ELSE s0.token_count
        /\ s.hour_count = IF now - s0.hour_start >= Hour THEN 0 ELSE s0.hour_count
        /\ s.minute_start = IF now - s0.minute_start >= Minute THEN now ELSE s0.minute_start
        /\ s.hour_start = IF now - s0.hour_start >= Hour THEN now ELSE s0.hour_start
    BY <1>1, <1>3, RolledFields, RolledStarts
  <1> HIDE DEF s
  <1>5. /\ Windows(s, f0, g0)
        /\ ~(now - s.minute_start >= Minute) /\ ~(now - s.hour_start >= Hour)
    <2>1. /\ Window(f0, now, s.minute_start, s.minute_count, Minute, PerMinute)
          /\ ~(now - s.minute_start >= Minute)
      BY <1>1, <1>2, <1>3, <1>4, RolledOrNot DEF Windows
    <2>2. /\ Window(f0, now, s.hour_start, s.hour_count, Hour, PerHour)
          /\ ~(now - s.hour_start >= Hour)
      BY <1>1, <1>2, <1>3, <1>4, RolledOrNot DEF Windows
    <2>3. Window(g0, now, s.minute_start, s.token_count, Minute, TokensPerMinute)
      BY <1>1, <1>2, <1>3, <1>4, RolledOrNot DEF Windows
    <2>. QED
      BY <2>1, <2>2, <2>3 DEF Windows
  <1>6. CASE Exceeded(s, n) # "none"
    <2>1. /\ state' = [state EXCEPT ![c] = s] /\ now' = now
          /\ admitted' = admitted /\ spent' = spent
      BY <1>6 DEF check_and_consume, s, s0
    <2>2. admitted = [admitted EXCEPT ![c] = f0] /\ spent = [spent EXCEPT ![c] = g0]
      BY DEF WInv, f0, g0
    <2>3. f0 \in [Stamps -> Nat] /\ g0 \in [Stamps -> Nat]
      BY <1>2 DEF History
    <2>. QED
      BY <1>2, <1>4, <1>5, <2>1, <2>2, <2>3
  <1>7. CASE Exceeded(s, n) = "none"
    <2>1. /\ state' = [state EXCEPT ![c] = q] /\ now' = now
          /\ admitted' = [admitted EXCEPT ![c] = Counted(f0, 1)]
          /\ spent' = [spent EXCEPT ![c] = Counted(g0, n)]
      BY <1>7 DEF check_and_consume, s, s0, f0, g0
    <2>2. /\ s.minute_count \in Nat /\ s.hour_count \in Nat /\ s.token_count \in Nat
          /\ s.minute_start \in Nat /\ s.hour_start \in Nat
      BY <1>4 DEF QuotaStates, QuotaState
    <2>3. /\ s.minute_count + 1 <= PerMinute /\ s.hour_count + 1 <= PerHour
          /\ s.token_count + n <= TokensPerMinute
      BY <1>1, <1>7, <2>2 DEF Exceeded
    <2>4. /\ q \in QuotaStates(now)
          /\ q.minute_count = s.minute_count + 1 /\ q.hour_count = s.hour_count + 1
          /\ q.token_count = s.token_count + n
          /\ q.minute_start = s.minute_start /\ q.hour_start = s.hour_start
      <3>1. q \in QuotaStates(now)
        BY <1>1, <1>4, CountedStaysState
      <3>2. s \in QuotaState
        BY <1>4 DEF QuotaStates, QuotaState
      <3>. QED
        BY <3>1, <3>2
    <2> HIDE DEF q
    <2>5. /\ Window(Counted(f0, 1), now, q.minute_start, q.minute_count, Minute, PerMinute)
          /\ Window(Counted(f0, 1), now, q.hour_start, q.hour_count, Hour, PerHour)
          /\ Window(Counted(g0, n), now, q.minute_start, q.token_count, Minute, TokensPerMinute)
      BY <1>1, <1>2, <1>5, <2>3, <2>4, CountedWindow DEF Windows
    <2>6. History(Counted(f0, 1), now) /\ History(Counted(g0, n), now)
      BY <1>1, <1>2, CountedAt
    <2>7. Windows(q, Counted(f0, 1), Counted(g0, n))
      BY <2>5 DEF Windows
    <2>8. Counted(f0, 1) \in [Stamps -> Nat] /\ Counted(g0, n) \in [Stamps -> Nat]
      BY <2>6 DEF History
    <2>. QED
      BY <2>1, <2>4, <2>6, <2>7, <2>8
  <1>. QED
    BY <1>6, <1>7

LEMMA WindowsStep ==
  ASSUME WInv, [AdmissionNext]_admissionVars
  PROVE  WInv'
  <1>0. LInv'
    BY LimiterStep DEF WInv
  <1>1. CASE UNCHANGED <<now, limiter>>
    BY <1>0, <1>1 DEF WInv, Windows, limiter, Registered
  <1>2. CASE Tick
    <2>1. now' = now + 1 /\ now + 1 \in Times /\ UNCHANGED limiter
      BY <1>2, ClockAssumption DEF Tick, Advance, WInv, Times
    <2>2. UNCHANGED <<state, admitted, spent>>
      BY <2>1 DEF limiter
    <2>3. now \in Times /\ \A c \in Clients : History(admitted[c], now) /\ History(spent[c], now)
      BY DEF WInv
    <2>4. \A c \in Clients : History(admitted[c], now + 1) /\ History(spent[c], now + 1)
      BY <2>1, <2>3, OlderWindow
    <2>5. ASSUME NEW c \in Clients, Registered(c)
          PROVE  /\ Window(admitted[c], now + 1, state[c].minute_start, state[c].minute_count, Minute, PerMinute)
                 /\ Window(admitted[c], now + 1, state[c].hour_start, state[c].hour_count, Hour, PerHour)
                 /\ Window(spent[c], now + 1, state[c].minute_start, state[c].token_count, Minute, TokensPerMinute)
      <3>1. /\ Window(admitted[c], now, state[c].minute_start, state[c].minute_count, Minute, PerMinute)
            /\ Window(admitted[c], now, state[c].hour_start, state[c].hour_count, Hour, PerHour)
            /\ Window(spent[c], now, state[c].minute_start, state[c].token_count, Minute, TokensPerMinute)
        BY <2>5 DEF WInv, Windows
      <3>. QED
        BY <2>1, <2>3, <3>1, OlderWindow
    <2>. QED
      BY <1>0, <2>1, <2>2, <2>4, <2>5 DEF WInv, Windows, Registered
  <1>3. ASSUME NEW c \in Clients, NEW n \in TokenCounts, check_and_consume(c, n)
        PROVE  WInv'
    <2>1. PICK q \in QuotaStates(now), f, g \in [Stamps -> Nat] :
            /\ History(f, now) /\ History(g, now) /\ Windows(q, f, g)
            /\ state' = [state EXCEPT ![c] = q]
            /\ admitted' = [admitted EXCEPT ![c] = f]
            /\ spent' = [spent EXCEPT ![c] = g]
            /\ now' = now
      BY <1>3, RequestKeepsWindows
    <2>2. q # Unregistered
      BY QuotaAssumption DEF QuotaStates
    <2>3. /\ state' = [d \in Clients |-> IF d = c THEN q ELSE state[d]]
          /\ admitted' = [d \in Clients |-> IF d = c THEN f ELSE admitted[d]]
          /\ spent' = [d \in Clients |-> IF d = c THEN g ELSE spent[d]]
      BY <2>1 DEF WInv, LInv
    <2>4. ASSUME NEW d \in Clients
          PROVE  /\ History(admitted'[d], now) /\ History(spent'[d], now)
                 /\ state'[d] # Unregistered => Windows(state'[d], admitted'[d], spent'[d])
                 /\ state'[d] = Unregistered => \A t \in Stamps : admitted'[d][t] = 0 /\ spent'[d][t] = 0
      <3>1. CASE d = c
        BY <2>1, <2>2, <2>3, <3>1
      <3>2. CASE d # c
        <4>1. state'[d] = state[d] /\ admitted'[d] = admitted[d] /\ spent'[d] = spent[d]
          BY <2>3, <3>2
        <4>. QED
          BY <4>1 DEF WInv, Windows, Registered
      <3>. QED
        BY <3>1, <3>2
    <2>5. /\ admitted' = [d \in Clients |-> admitted'[d]]
          /\ spent' = [d \in Clients |-> spent'[d]]
      BY <2>3
    <2>6. now' \in Times
      BY <2>1 DEF WInv
    <2>. QED
      BY <1>0, <2>1, <2>4, <2>5, <2>6 DEF WInv, Windows, Registered
  <1>. QED
    BY <1>1, <1>2, <1>3 DEF AdmissionNext, Quotas, LimiterNext, VerifyTokens, admissionVars

----------------------------------------------------------------------------
(* The quotas.                                                              *)

\* For every quota and every length of the windows, retry_after_seconds names a wait
\* exactly when check_and_consume would refuse, and a client that waits as told is not
\* refused by the same quota again, unless it asks for more than a whole window has.
THEOREM RetryAfterMirrorsTheCheck == AdmissionSpec => []RetryAfterIsRight
  <1>1. AdmissionInit => LInv
    BY DEF AdmissionInit, LimiterInit, LInv, Registered
  <1>2. LInv /\ [AdmissionNext]_admissionVars => LInv'
    BY LimiterStep
  <1>3. LInv => RetryAfterIsRight
    BY RetryIsRight DEF RetryAfterIsRight
  <1>. QED
    BY <1>1, <1>2, <1>3, PTL DEF AdmissionSpec

\* For every quota and every length of the windows, no stretch as long as a window ever
\* sees more than twice the quota admitted, of requests or of tokens.
THEOREM NoStretchExceedsTwoQuotas == AdmissionSpec => []AtMostTwiceTheQuota
  <1>1. AdmissionInit => WInv
    <2> SUFFICES ASSUME AdmissionInit PROVE WInv
      OBVIOUS
    <2>1. LInv /\ now \in Times
      BY ClockAssumption DEF AdmissionInit, LimiterInit, LInv, Registered, Times
    <2>. QED
      BY <2>1, ClockAssumption DEF AdmissionInit, LimiterInit, WInv, History, Registered, Stamps
  <1>2. WInv /\ [AdmissionNext]_admissionVars => WInv'
    BY WindowsStep
  <1>3. WInv => AtMostTwiceTheQuota
    <2> SUFFICES ASSUME WInv, NEW c \in Clients
                 PROVE  /\ Within(admitted[c], Minute, 2 * PerMinute)
                        /\ Within(admitted[c], Hour, 2 * PerHour)
                        /\ Within(spent[c], Minute, 2 * TokensPerMinute)
      BY DEF AtMostTwiceTheQuota
    <2>1. ASSUME NEW f \in [Stamps -> Nat], NEW length \in Nat, NEW quota \in Nat,
                 \A t, u \in Stamps : t <= u /\ u <= t + length => f[u] <= f[t] + 2 * quota
          PROVE  Within(f, length, 2 * quota)
      <3> SUFFICES ASSUME NEW t \in Times
                   PROVE  f[Min({t + length, MaxTime + 1})] - f[t] <= 2 * quota
        BY DEF Within
      <3> DEFINE u == Min({t + length, MaxTime + 1})
      <3>1. t \in Nat /\ MaxTime \in Nat /\ t <= MaxTime /\ t \in Stamps
        BY ClockAssumption DEF Times, Stamps
      <3>2. u = IF t + length <= MaxTime + 1 THEN t + length ELSE MaxTime + 1
        BY <3>1 DEF Min
      <3> HIDE DEF u
      <3>3. u \in Stamps /\ t <= u /\ u <= t + length
        BY <3>1, <3>2 DEF Stamps
      <3>4. f[u] <= f[t] + 2 * quota /\ f[u] \in Nat /\ f[t] \in Nat
        BY <2>1, <3>1, <3>3
      <3>5. f[u] - f[t] <= 2 * quota
        BY <3>4
      <3>. QED
        BY <3>5 DEF u
    <2>2. /\ Minute \in Nat /\ Hour \in Nat
          /\ PerMinute \in Nat /\ PerHour \in Nat /\ TokensPerMinute \in Nat
      BY QuotaAssumption
    <2>3. admitted[c] \in [Stamps -> Nat] /\ spent[c] \in [Stamps -> Nat]
      BY DEF WInv, History
    <2>4. CASE Registered(c)
      BY <2>1, <2>2, <2>3, <2>4 DEF WInv, Windows, Window
    <2>5. CASE ~Registered(c)
      BY <2>1, <2>2, <2>3, <2>5 DEF WInv
    <2>. QED
      BY <2>4, <2>5
  <1>. QED
    BY <1>1, <1>2, <1>3, PTL DEF AdmissionSpec

----------------------------------------------------------------------------
(* The steps of the key cache.                                              *)

LEMMA JwksFacts ==
  /\ ttl \in Nat /\ Backoff \in Nat /\ Slow \in Nat /\ Slow <= Backoff /\ Backoff <= ttl
  /\ Rotating \subseteq Keys
  /\ \A k \in Keys : k = [url |-> k.url, kid |-> k.kid]
  /\ Never \in Int /\ Never = -(Backoff + 1)
  BY JwksAssumption DEF Never

\* A fetch or a document is never taken for none.
LEMMA SomeIsNotNone ==
  /\ \A t, u, b, s : [token |-> t, url |-> u, read |-> b, keys |-> s] # NoFetch
  /\ \A s, n : [keys |-> s, fetched |-> n] # NoEntry
  BY DEF NoFetch, NoEntry

\* A step that judges no token says nothing that could be wrong.
LEMMA SilentIsRight ==
  ASSUME verdict' = NoVerdict
  PROVE  AcceptedIsVouchedFor' /\ NewKeyIsSeen'
  BY DEF AcceptedIsVouchedFor, NewKeyIsSeen

\* The verdict on a token is right when the document it is judged by has only keys of
\* the site, and is allowed to be out of date wherever it is.
LEMMA JudgedIsRight ==
  ASSUME NEW token, NEW url \in Https, NEW entry,
         TypedCache, UNCHANGED <<jwks_config, published, now>>,
         url = tenant_jwks_url_for_issuer(token.iss), token.kid # ServiceKey.kid,
         Judge(token, url, entry),
         entry # NoEntry => \A kid \in entry.keys : [url |-> url, kid |-> kid] \in Keys,
         \A k \in Keys : k.url = url /\ (entry = NoEntry \/ Differs(k, entry.keys)) =>
            Recent(k) \/ Excused(url)'
  PROVE  AcceptedIsVouchedFor' /\ NewKeyIsSeen'
  <1> DEFINE key == [url |-> url, kid |-> token.kid]
             found == entry # NoEntry /\ token.kid \in entry.keys
  <1>1. /\ verdict'.token = token
        /\ verdict'.accepted <=> found /\ token.signer = key /\ token.whole
    BY DEF Judge, Says, Decode
  <1>2. found => key \in Keys
    OBVIOUS
  <1>3. key.url = url /\ key.kid = token.kid
    OBVIOUS
  <1>4. \A k \in Keys : k.url = url /\ k.kid = token.kid => k = key
    BY JwksFacts
  <1>5. tenant_jwks_url_for_issuer(token.iss)' = tenant_jwks_url_for_issuer(token.iss)
    BY DEF tenant_jwks_url_for_issuer
  <1>6. \A k \in Keys : Recent(k)' <=> Recent(k)
    BY DEF Recent
  <1>7. \A k \in Keys : published[k].out \in BOOLEAN
    BY DEF TypedCache
  <1> HIDE DEF key
  <1>8. ASSUME verdict'.accepted PROVE AcceptedIsVouchedFor'
    <2>1. found /\ token.signer = key /\ token.whole /\ key \in Keys
      BY <1>1, <1>2, <1>8
    <2>2. published[key].out \/ Recent(key) \/ Excused(url)'
      BY <1>3, <1>7, <2>1 DEF Differs
    <2>3. OfIssuer(token)'
      BY <1>3, <1>5, <2>1 DEF OfIssuer
    <2>4. Recent(key)' <=> Recent(key)
      BY <1>6, <2>1
    <2>. QED
      BY <1>1, <1>3, <2>1, <2>2, <2>3, <2>4 DEF AcceptedIsVouchedFor, OfIssuer, Recent, Excused
  <1>9. ASSUME ~verdict'.accepted, token.whole, OfIssuer(token)', published[token.signer].out
        PROVE  Recent(token.signer) \/ Excused(url)'
    <2>1. token.signer \in Keys /\ token.signer = key
      BY <1>4, <1>5, <1>9 DEF OfIssuer
    <2>2. ~found
      BY <1>1, <1>9, <2>1
    <2>. QED
      BY <1>3, <1>9, <2>1, <2>2 DEF Differs
  <1>10. NewKeyIsSeen'
    <2> SUFFICES ASSUME ~verdict'.accepted, token.whole, OfIssuer(token)', published[token.signer].out
                 PROVE  Recent(token.signer)' \/ Excused(token.signer.url)'
      BY <1>1 DEF NewKeyIsSeen, OfIssuer, Recent, Excused
    <2>1. token.signer \in Keys /\ token.signer.url = url
      BY <1>5 DEF OfIssuer
    <2>. QED
      BY <1>6, <1>9, <2>1 DEF Excused
  <1>. QED
    BY <1>8, <1>10 DEF AcceptedIsVouchedFor

\* What keeps the fetch in flight, the documents held and the attempts settled when a
\* step touches none of them.
LEMMA StillCache ==
  ASSUME CInv, UNCHANGED <<jwks_config, published, by_url, last_attempt, fetching, failed>>,
         now' \in Nat, now' >= now,
         fetching # NoFetch => now' - last_attempt[fetching.url] <= Slow
  PROVE  TypedCache' /\ Fetching' /\ Held' /\ Settled'
  <1>1. TypedCache'
    <2>1. \A k \in Keys : published[k].since <= now'
      BY DEF CInv, TypedCache
    <2>2. \A u \in Https : by_url[u] # NoEntry => by_url[u].fetched \in Int /\ by_url[u].fetched <= now'
      BY DEF CInv, TypedCache
    <2>. QED
      BY <2>1, <2>2 DEF CInv, TypedCache
  <1>2. Fetching'
    <2>1. fetching # NoFetch => last_attempt[fetching.url] <= now'
      BY DEF CInv, TypedCache, Fetching
    <2>. QED
      BY <2>1 DEF CInv, Fetching, Differs, tenant_jwks_url_for_issuer
  <1>3. Held' /\ Settled'
    BY DEF CInv, Held, Settled, Differs
  <1>. QED
    BY <1>1, <1>2, <1>3

\* A document that need not be fetched is allowed to be out of date wherever it is.
LEMMA FreshEnough ==
  ASSUME CInv, NEW url \in Https, fetching = NoFetch, ~NeedsFetch(url),
         NEW k \in Keys, k.url = url, by_url[url] = NoEntry \/ Differs(k, by_url[url].keys)
  PROVE  Recent(k) \/ Excused(url)
  <1>0. /\ now \in Nat /\ last_attempt[url] \in Int /\ published[k].since \in Nat
        /\ by_url[url] # NoEntry => by_url[url].fetched \in Int
    BY DEF CInv, TypedCache
  <1>1. CASE now - last_attempt[url] > Backoff
    <2>1. by_url[url] # NoEntry /\ ~(now - by_url[url].fetched > ttl)
      BY <1>1 DEF NeedsFetch
    <2>2. published[k].since >= by_url[url].fetched - Slow
      BY <2>1 DEF CInv, Held
    <2>. QED
      BY <1>0, <2>1, <2>2, JwksFacts DEF Recent
  <1>2. CASE ~(now - last_attempt[url] > Backoff)
    <2>1. last_attempt[url] # Never
      BY <1>0, <1>2, JwksFacts
    <2>2. CASE url \in failed
      BY <1>0, <1>2, <2>2, JwksFacts DEF Excused
    <2>3. CASE url \notin failed
      <3>1. by_url[url] # NoEntry /\ by_url[url].fetched >= last_attempt[url]
        BY <2>1, <2>3 DEF CInv, Settled
      <3>2. published[k].since >= by_url[url].fetched - Slow
        BY <3>1 DEF CInv, Held
      <3>. QED
        BY <1>0, <1>2, <3>1, <3>2, JwksFacts DEF Recent
    <2>. QED
      BY <2>2, <2>3
  <1>. QED
    BY <1>1, <1>2

LEMMA VerifyStep ==
  ASSUME CInv, NEW token, verify_rs256_token(token), UNCHANGED now
  PROVE  CInv'
  <1> DEFINE url == tenant_jwks_url_for_issuer(token.iss)
  <1>0. UNCHANGED <<jwks_config, published, by_url, last_attempt, fetching, failed>>
    BY DEF verify_rs256_token
  <1>1. TypedCache' /\ Fetching' /\ Held' /\ Settled'
    BY <1>0, StillCache DEF CInv, TypedCache, Fetching
  <1>2. CASE token.kid = ServiceKey.kid
    <2>1. verdict' = [token |-> token, accepted |-> Decode(token, ServiceKey)]
      BY <1>2 DEF verify_rs256_token, Says
    <2>2. AcceptedIsVouchedFor' /\ NewKeyIsSeen'
      BY <1>2, <2>1 DEF AcceptedIsVouchedFor, NewKeyIsSeen, Decode
    <2>. QED
      BY <1>1, <2>2 DEF CInv
  <1>3. CASE token.kid # ServiceKey.kid /\ url \notin Https
    <2>1. verdict' = [token |-> token, accepted |-> FALSE]
      BY <1>3 DEF verify_rs256_token, Says
    <2>2. ~OfIssuer(token)'
      BY <1>0, <1>3 DEF OfIssuer, tenant_jwks_url_for_issuer
    <2>3. AcceptedIsVouchedFor' /\ NewKeyIsSeen'
      BY <2>1, <2>2 DEF AcceptedIsVouchedFor, NewKeyIsSeen, OfIssuer
    <2>. QED
      BY <1>1, <2>3 DEF CInv
  <1>4. CASE token.kid # ServiceKey.kid /\ url \in Https
    <2>0. PICK u \in Https : u = url
      BY <1>4
    <2>1. fetching = NoFetch /\ ~NeedsFetch(u) /\ Judge(token, u, by_url[u])
      BY <1>4, <2>0 DEF verify_rs256_token
    <2>2. \A k \in Keys : k.url = u /\ (by_url[u] = NoEntry \/ Differs(k, by_url[u].keys)) =>
             Recent(k) \/ Excused(u)'
      BY <1>0, <2>1, FreshEnough DEF Excused
    <2>3. by_url[u] # NoEntry => \A kid \in by_url[u].keys : [url |-> u, kid |-> kid] \in Keys
      BY DEF CInv, Held
    <2>4. AcceptedIsVouchedFor' /\ NewKeyIsSeen'
      BY <1>0, <1>4, <2>0, <2>1, <2>2, <2>3, JudgedIsRight DEF CInv
    <2>. QED
      BY <1>1, <2>4 DEF CInv
  <1>. QED
    BY <1>2, <1>3, <1>4

LEMMA FetchStep ==
  ASSUME CInv, NEW token, Fetch(token), UNCHANGED now
  PROVE  CInv'
  <1>1. PICK url \in Https : 
          /\ url = tenant_jwks_url_for_issuer(token.iss) /\ token.kid # ServiceKey.kid
          /\ last_attempt' = [last_attempt EXCEPT ![url] = now]
          /\ fetching' = [token |-> token, url |-> url, read |-> FALSE, keys |-> {}]
          /\ failed' = failed \ {url} /\ fetching = NoFetch
    BY DEF Fetch
  <1>2. UNCHANGED <<jwks_config, published, by_url>> /\ verdict' = NoVerdict
    BY DEF Fetch
  <1>3. TypedCache'
    BY <1>1, <1>2 DEF CInv, TypedCache
  <1>4. Fetching'
    BY <1>1, <1>2, JwksFacts DEF CInv, TypedCache, Fetching, tenant_jwks_url_for_issuer
  <1>5. Held'
    BY <1>2 DEF CInv, Held, Differs
  <1>6. Settled'
    <2>1. fetching' # NoFetch /\ fetching'.url = url
      BY <1>1, SomeIsNotNone
    <2>2. \A u \in Https : u # url => last_attempt'[u] = last_attempt[u] /\ (u \in failed => u \in failed')
      BY <1>1 DEF CInv, TypedCache
    <2>. QED
      BY <1>1, <1>2, <2>1, <2>2 DEF CInv, Settled
  <1>. QED
    BY <1>2, <1>3, <1>4, <1>5, <1>6, SilentIsRight DEF CInv

LEMMA ReadStep ==
  ASSUME CInv, SiteReads, UNCHANGED now
  PROVE  CInv'
  <1> DEFINE kids == {k.kid : k \in {j \in Keys : j.url = fetching.url /\ published[j].out}}
  <1>1. /\ fetching # NoFetch /\ fetching' = [fetching EXCEPT !.read = TRUE, !.keys = kids]
        /\ UNCHANGED <<jwks_config, published, by_url, last_attempt, failed>> /\ verdict' = NoVerdict
    BY DEF SiteReads
  <1>2. fetching' = [token |-> fetching.token, url |-> fetching.url, read |-> TRUE, keys |-> kids]
    BY <1>1 DEF CInv, Fetching
  <1>3. \A kid \in kids : [url |-> fetching.url, kid |-> kid] \in Keys
    BY JwksFacts
  <1>4. \A k \in Keys : k.url = fetching.url => (k.kid \in kids <=> published[k].out)
    BY JwksFacts
  <1>5. \A k \in Keys : published[k].out \in BOOLEAN
    BY DEF CInv, TypedCache
  <1>6. \A k \in Keys : k.url = fetching.url => ~Differs(k, kids)
    BY <1>4, <1>5 DEF Differs
  <1> HIDE DEF kids
  <1>7. fetching' # NoFetch /\ fetching'.url = fetching.url /\ fetching'.token = fetching.token
        /\ fetching'.keys = kids
    BY <1>2, SomeIsNotNone
  <1>8. Fetching'
    BY <1>1, <1>2, <1>3, <1>6, <1>7 DEF CInv, Fetching, Differs, tenant_jwks_url_for_issuer
  <1>9. TypedCache' /\ Held'
    BY <1>1 DEF CInv, TypedCache, Held, Differs
  <1>10. Settled'
    BY <1>1, <1>7 DEF CInv, Settled
  <1>. QED
    BY <1>1, <1>8, <1>9, <1>10, SilentIsRight DEF CInv

LEMMA ArrivesStep ==
  ASSUME CInv, FetchArrives, UNCHANGED now
  PROVE  CInv'
  <1> DEFINE u == fetching.url
             entry == [keys |-> fetching.keys, fetched |-> now]
  <1>1. /\ fetching # NoFetch /\ fetching.read /\ fetching' = NoFetch
        /\ by_url' = [by_url EXCEPT ![u] = entry] /\ Judge(fetching.token, u, entry)
        /\ UNCHANGED <<jwks_config, published, last_attempt, failed>>
    BY DEF FetchArrives
  <1>2. /\ u \in Https /\ u = tenant_jwks_url_for_issuer(fetching.token.iss)
        /\ fetching.token.kid # ServiceKey.kid
        /\ last_attempt[u] <= now /\ now - last_attempt[u] <= Slow
        /\ \A kid \in fetching.keys : [url |-> u, kid |-> kid] \in Keys
        /\ \A k \in Keys : k.url = u /\ Differs(k, fetching.keys) => published[k].since >= last_attempt[u]
    BY <1>1 DEF CInv, Fetching
  <1>3. now \in Nat /\ last_attempt[u] \in Int /\ \A k \in Keys : published[k].since \in Nat
    BY <1>2 DEF CInv, TypedCache
  <1>4. entry # NoEntry /\ entry.keys = fetching.keys /\ entry.fetched = now
    BY SomeIsNotNone
  <1>5. by_url'[u] = entry /\ \A v \in Https \ {u} : by_url'[v] = by_url[v]
    BY <1>1, <1>2 DEF CInv, TypedCache
  <1>6. \A k \in Keys : k.url = u /\ Differs(k, entry.keys) => published[k].since >= now - Slow
    BY <1>2, <1>3, <1>4, JwksFacts
  <1>7. \A k \in Keys : k.url = u /\ Differs(k, entry.keys) => Recent(k)
    BY <1>3, <1>6, JwksFacts DEF Recent
  <1> HIDE DEF entry, u
  <1>8. TypedCache'
    <2>1. by_url' = [v \in Https |-> by_url'[v]]
      BY <1>1 DEF CInv, TypedCache
    <2>2. \A v \in Https : by_url'[v] # NoEntry => by_url'[v].fetched \in Int /\ by_url'[v].fetched <= now
      BY <1>3, <1>4, <1>5 DEF CInv, TypedCache
    <2>. QED
      BY <1>1, <2>1, <2>2 DEF CInv, TypedCache
  <1>9. Held'
    <2> SUFFICES ASSUME NEW v \in Https, by_url'[v] # NoEntry
                 PROVE  /\ \A kid \in by_url'[v].keys : [url |-> v, kid |-> kid] \in Keys
                        /\ \A k \in Keys : k.url = v /\ Differs(k, by_url'[v].keys) =>
                             published[k].since >= by_url'[v].fetched - Slow
      BY <1>1 DEF Held, Differs
    <2>1. CASE v = u
      BY <1>2, <1>4, <1>5, <1>6, <2>1
    <2>2. CASE v # u
      BY <1>5, <2>2 DEF CInv, Held
    <2>. QED
      BY <2>1, <2>2
  <1>10. Settled'
    <2>1. by_url'[u] # NoEntry /\ by_url'[u].fetched >= last_attempt'[u]
      BY <1>1, <1>2, <1>3, <1>4, <1>5
    <2>. QED
      BY <1>1, <1>5, <2>1 DEF CInv, Settled, u
  <1>11. AcceptedIsVouchedFor' /\ NewKeyIsSeen'
    BY <1>1, <1>2, <1>4, <1>7, JudgedIsRight DEF CInv
  <1>. QED
    BY <1>1, <1>8, <1>9, <1>10, <1>11 DEF CInv, Fetching

LEMMA FailsStep ==
  ASSUME CInv, FetchFails, UNCHANGED now
  PROVE  CInv'
  <1>1. PICK u \in Https :
          /\ u = fetching.url /\ u = tenant_jwks_url_for_issuer(fetching.token.iss)
          /\ fetching.token.kid # ServiceKey.kid
          /\ last_attempt[u] <= now /\ now - last_attempt[u] <= Slow
    BY DEF FetchFails, CInv, Fetching
  <1>2. /\ fetching # NoFetch /\ fetching' = NoFetch /\ failed' = failed \cup {u}
        /\ Judge(fetching.token, u, by_url[u])
        /\ UNCHANGED <<jwks_config, published, by_url, last_attempt>>
    BY <1>1 DEF FetchFails
  <1>3. Excused(u)'
    BY <1>1, <1>2, JwksFacts DEF Excused, CInv, TypedCache
  <1>4. by_url[u] # NoEntry => \A kid \in by_url[u].keys : [url |-> u, kid |-> kid] \in Keys
    BY DEF CInv, Held
  <1>5. AcceptedIsVouchedFor' /\ NewKeyIsSeen'
    BY <1>1, <1>2, <1>3, <1>4, JudgedIsRight DEF CInv
  <1>6. TypedCache' /\ Fetching' /\ Held'
    BY <1>2 DEF CInv, TypedCache, Fetching, Held, Differs
  <1>7. Settled'
    BY <1>1, <1>2 DEF CInv, Settled
  <1>. QED
    BY <1>5, <1>6, <1>7 DEF CInv

LEMMA RotateStep ==
  ASSUME CInv, NEW k \in Rotating, Rotate(k), UNCHANGED now
  PROVE  CInv'
  <1>0. k \in Keys /\ now \in Nat
    BY JwksFacts DEF CInv, TypedCache
  <1>1. /\ published' = [published EXCEPT ![k] = [out |-> ~published[k].out, since |-> now]]
        /\ UNCHANGED <<jwks_config, by_url, last_attempt, fetching, failed>> /\ verdict' = NoVerdict
    BY DEF Rotate
  <1>2. published'[k].since = now /\ \A j \in Keys \ {k} : published'[j] = published[j]
    BY <1>0, <1>1 DEF CInv, TypedCache
  <1>3. TypedCache'
    <2>1. [out |-> ~published[k].out, since |-> now] \in [out : BOOLEAN, since : Nat]
      BY <1>0
    <2>2. published' \in [Keys -> [out : BOOLEAN, since : Nat]]
      BY <1>1, <2>1 DEF CInv, TypedCache
    <2>3. \A j \in Keys : published'[j].since <= now
      BY <1>0, <1>2 DEF CInv, TypedCache
    <2>. QED
      BY <1>1, <2>2, <2>3 DEF CInv, TypedCache
  <1>5. Fetching'
    <2>1. ASSUME fetching # NoFetch, fetching.read, NEW j \in Keys, j.url = fetching.url,
                 Differs(j, fetching.keys)'
          PROVE  published'[j].since >= last_attempt[fetching.url]
      BY <1>1, <1>2, <2>1 DEF CInv, Fetching, Differs
    <2>. QED
      BY <1>1, <2>1 DEF CInv, Fetching, Differs, tenant_jwks_url_for_issuer
  <1>6. Held'
    <2>1. ASSUME NEW u \in Https, by_url[u] # NoEntry, NEW j \in Keys, j.url = u,
                 Differs(j, by_url[u].keys)'
          PROVE  published'[j].since >= by_url[u].fetched - Slow
      <3>1. CASE j = k
        <4>1. by_url[u].fetched \in Int /\ by_url[u].fetched <= now
          BY <2>1 DEF CInv, TypedCache
        <4>. QED
          BY <1>0, <1>2, <3>1, <4>1, JwksFacts
      <3>2. CASE j # k
        BY <1>1, <1>2, <2>1, <3>2 DEF CInv, Held, Differs
      <3>. QED
        BY <3>1, <3>2
    <2>. QED
      BY <1>1, <2>1 DEF CInv, Held, Differs
  <1>7. Settled'
    BY <1>1 DEF CInv, Settled
  <1>. QED
    BY <1>1, <1>3, <1>5, <1>6, <1>7, SilentIsRight DEF CInv

\* The clock moves on only while the fetch in flight is within its time.
LEMMA TickStep ==
  ASSUME CInv, Tick
  PROVE  CInv'
  <1>1. /\ now' = now + 1 /\ verdict' = NoVerdict
        /\ fetching # NoFetch => now - last_attempt[fetching.url] < Slow
        /\ UNCHANGED <<jwks_config, published, by_url, last_attempt, fetching, failed>>
    BY DEF Tick, Advance, CacheWaits
  <1>2. now \in Nat /\ \A u \in Https : last_attempt[u] \in Int
    BY DEF CInv, TypedCache
  <1>3. fetching # NoFetch => now' - last_attempt[fetching.url] <= Slow
    BY <1>1, <1>2, JwksFacts DEF CInv, Fetching
  <1>4. TypedCache' /\ Fetching' /\ Held' /\ Settled'
    BY <1>1, <1>2, <1>3, StillCache
  <1>. QED
    BY <1>1, <1>4, SilentIsRight DEF CInv

LEMMA CacheUnchanged ==
  ASSUME CInv, UNCHANGED <<now, cache>>
  PROVE  CInv'
  <1>1. UNCHANGED <<now, jwks_config, published, by_url, last_attempt, fetching, failed, verdict>>
    BY DEF cache
  <1>2. TypedCache' /\ Fetching' /\ Held' /\ Settled'
    BY <1>1, StillCache DEF CInv, TypedCache, Fetching
  <1>3. AcceptedIsVouchedFor' /\ NewKeyIsSeen'
    BY <1>1 DEF CInv, AcceptedIsVouchedFor, NewKeyIsSeen, OfIssuer, Recent, Excused,
                tenant_jwks_url_for_issuer
  <1>. QED
    BY <1>2, <1>3 DEF CInv

LEMMA CacheInvariant == AdmissionSpec => []CInv
  <1>1. AdmissionInit => CInv
    <2> SUFFICES ASSUME AdmissionInit PROVE CInv
      OBVIOUS
    <2> USE DEF AdmissionInit, CacheInit
    <2>1. \A k \in Keys : published[k] = [out |-> TRUE, since |-> 0]
      OBVIOUS
    <2>2. TypedCache
      BY JwksFacts DEF TypedCache
    <2>3. Fetching /\ Held /\ Settled
      BY DEF Fetching, Held, Settled
    <2>4. AcceptedIsVouchedFor /\ NewKeyIsSeen
      BY DEF AcceptedIsVouchedFor, NewKeyIsSeen
    <2>. QED
      BY <2>2, <2>3, <2>4 DEF CInv
  <1>2. CInv /\ [AdmissionNext]_admissionVars => CInv'
    <2>1. ASSUME CInv, VerifyTokens PROVE CInv'
      BY <2>1, VerifyStep, FetchStep, ReadStep, ArrivesStep, FailsStep, RotateStep
         DEF VerifyTokens, CacheNext
    <2>2. ASSUME CInv, Quotas \/ UNCHANGED admissionVars PROVE CInv'
      BY <2>2, CacheUnchanged DEF Quotas, admissionVars
    <2>. QED
      BY <2>1, <2>2, TickStep DEF AdmissionNext
  <1>. QED
    BY <1>1, <1>2, PTL DEF AdmissionSpec

----------------------------------------------------------------------------
(* The theorems about the key cache.                                        *)

\* No token is accepted but one the service signed, or one signed with a key of the
\* site its issuer leads to, over https, that is published, or was within the life of
\* a document and of a fetch, or whose site could not be reached: for any number of
\* sites, keys and tokens, however rotations fall between the steps of a fetch.
THEOREM AcceptedTokensAreVouchedFor == AdmissionSpec => []AcceptedIsVouchedFor
  <1>1. CInv => AcceptedIsVouchedFor
    BY DEF CInv
  <1>. QED
    BY <1>1, CacheInvariant, PTL

\* A token signed with a published key of its issuer's site is refused only while the
\* key is new or the last attempt at the site failed within the backoff: an attempt
\* that is over and did not fail has left its document (get_key).
THEOREM NewKeysAreSeen == AdmissionSpec => []NewKeyIsSeen
  <1>1. CInv => NewKeyIsSeen
    BY DEF CInv
  <1>. QED
    BY <1>1, CacheInvariant, PTL
============================================================================
