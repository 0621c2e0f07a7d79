---------------------------- MODULE RateLimiter ----------------------------
(***************************************************************************)
(* RateLimiter of clusteriq_engine/hardening.py and its one user,          *)
(* _enforce_rate_limit: a bucket is brought up to date only when its       *)
(* client calls, and idle buckets are thrown away when there are many.     *)
(* The caller runs on the event loop and awaits nothing between allow()    *)
(* and retry_after(), so a request is one action.                          *)
(*                                                                         *)
(* Time is in whole seconds and tokens in units of 1/Minute, in which the  *)
(* code's float arithmetic is exact; its rounding is not modelled.         *)
(* A limiter with per_minute <= 0 says yes and keeps no state.             *)
(***************************************************************************)
EXTENDS Integers, FiniteSets, FiniteSetsExt

CONSTANTS Clients,          \* rate-limit keys
          NoBucket,         \* the key is not in _buckets
          PerMinute,        \* RATE_LIMIT_PER_MINUTE, positive
          Minute,           \* seconds in a minute: 60 in the code
          PRUNE_THRESHOLD,
          IDLE_SECONDS,
          MaxTime           \* bound on the clock, for TLC

ASSUME LimiterAssumption ==
  /\ PerMinute \in Nat \ {0} /\ Minute \in Nat \ {0}
  /\ PRUNE_THRESHOLD \in Nat
  /\ IDLE_SECONDS \in Nat /\ IDLE_SECONDS >= Minute
  /\ MaxTime \in Nat \ {0}
  /\ NoBucket \notin [tokens : Int, last : Int]

VARIABLES buckets,   \* _buckets
          now,       \* the monotonic clock
          admitted,  \* as in RateLimit
          retryAt    \* retryAt[c]: the second c's last 429 told it to wait for, or 0

vars == <<buckets, now, admitted, retryAt>>

Capacity == PerMinute * Minute
Capped(n) == IF n > Capacity THEN Capacity ELSE n

Init ==
  /\ buckets = [c \in Clients |-> NoBucket]
  /\ now = 1
  /\ admitted = [c \in Clients |-> [t \in 1 .. MaxTime |-> 0]]
  /\ retryAt = [c \in Clients |-> 0]

\* A key without a bucket starts with a full one.
Refilled(b, t) ==
  IF b = NoBucket THEN Capacity ELSE Capped(b.tokens + (t - b.last) * PerMinute)

Known(bs) == {c \in Clients : bs[c] # NoBucket}

\* Faulty: a bucket is pruned when it was idle for less than it takes to fill.
PrunedHasty(bs, t) ==
  IF Cardinality(Known(bs)) <= PRUNE_THRESHOLD THEN bs
  ELSE [c \in Clients |-> IF c \in Known(bs) /\ bs[c].last < t THEN NoBucket ELSE bs[c]]

Pruned(bs, t) ==
  IF Cardinality(Known(bs)) <= PRUNE_THRESHOLD THEN bs
  ELSE [c \in Clients |->
          IF c \in Known(bs) /\ bs[c].last < t - IDLE_SECONDS THEN NoBucket ELSE bs[c]]

\* Faulty: the time of a refusal is not recorded with the tokens it counted.
AfterAllowStale(bs, c, t) ==
  LET tokens == Refilled(bs[c], t)
  IN  Pruned([bs EXCEPT ![c] =
                IF tokens >= Minute THEN [tokens |-> tokens - Minute, last |-> t]
                ELSE [tokens |-> tokens,
                      last |-> IF bs[c] = NoBucket THEN t ELSE bs[c].last]], t)

\* Faulty: a request pays even when it is refused.
AfterAllowPaying(bs, c, t) ==
  Pruned([bs EXCEPT ![c] = [tokens |-> Refilled(bs[c], t) - Minute, last |-> t]], t)

\* _buckets after allow(c) at time t.
AfterAllow(bs, c, t) ==
  LET tokens == Refilled(bs[c], t)
      left == IF tokens >= Minute THEN tokens - Minute ELSE tokens
  IN  Pruned([bs EXCEPT ![c] = [tokens |-> left, last |-> t]], t)

CeilDiv(n, d) == (n + d - 1) \div d

\* Faulty: the wait is rounded down.
RetryAfterShort(b) ==
  LET tokens == IF b = NoBucket THEN Capacity ELSE b.tokens
      deficit == IF tokens < Minute THEN Minute - tokens ELSE 0
  IN  Max({1, deficit \div PerMinute})

\* Seconds until the next token: at least 1.
RetryAfter(b) ==
  LET tokens == IF b = NoBucket THEN Capacity ELSE b.tokens
      deficit == IF tokens < Minute THEN Minute - tokens ELSE 0
  IN  Max({1, CeilDiv(deficit, PerMinute)})

\* POST /preview or POST /cluster of c, up to _enforce_rate_limit.
Enforce(c) ==
  /\ buckets' = AfterAllow(buckets, c, now)
  /\ IF Refilled(buckets[c], now) >= Minute
     THEN /\ admitted' = [admitted EXCEPT ![c][now] = @ + 1]
          /\ retryAt' = [retryAt EXCEPT ![c] = 0]
     ELSE /\ retryAt' = [retryAt EXCEPT ![c] = now + RetryAfter(buckets'[c])]
          /\ UNCHANGED admitted
  /\ UNCHANGED now

Second ==
  /\ now < MaxTime
  /\ now' = now + 1
  /\ UNCHANGED <<buckets, admitted, retryAt>>

Next == Second \/ \E c \in Clients : Enforce(c)

Spec == Init /\ [][Next]_vars

-----------------------------------------------------------------------------

\* Type correctness; no bucket is from the future or overfull.
TypeOK ==
  /\ now \in 1 .. MaxTime
  /\ \A c \in Known(buckets) :
       buckets[c].tokens \in 0 .. Capacity /\ buckets[c].last \in 1 .. now
  /\ admitted \in [Clients -> [1 .. MaxTime -> Nat]]
  /\ retryAt \in [Clients -> Nat]

AdmittedIn(c, from, to) == MapThenSumSet(LAMBDA t : admitted[c][t], from .. to)

\* The limit in any window of time: what a full bucket holds and what the
\* window earns, whatever was pruned meanwhile.
WithinRate ==
  \A c \in Clients, from, to \in 1 .. now :
    from <= to =>
      Minute * AdmittedIn(c, from, to) <= Capacity + (to - from) * PerMinute

\* Retry-After is honest: from the second it names on, the next request of that
\* client is let through, even if its bucket was pruned by then; and it asks for
\* no more than needed: a second before, the request is not.
RetryExact ==
  \A c \in Clients :
    /\ retryAt[c] # 0 /\ now >= retryAt[c] => Refilled(buckets[c], now) >= Minute
    /\ retryAt[c] > now + 1 => Refilled(buckets[c], retryAt[c] - 1) < Minute

\* Counting lazily and forgetting idle clients is invisible: every behaviour
\* is one of the limiter that keeps all buckets up to date for ever.
Eager == INSTANCE RateLimit WITH level <- [c \in Clients |-> Refilled(buckets[c], now)]

ImplementsEager == Eager!Spec
=============================================================================
