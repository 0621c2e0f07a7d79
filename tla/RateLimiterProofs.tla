------------------------- MODULE RateLimiterProofs -------------------------
(***************************************************************************)
(* Theorems about RateLimiter for any set of clients, any rate, any length *)
(* of the minute, any threshold and any idle time of at least a minute.    *)
(***************************************************************************)
EXTENDS RateLimiter, NaturalFacts

Bucket == [tokens : 0 .. Capacity, last : 1 .. now]

\* The part of the inductive invariant that has the types: buckets are proper
\* functions, so that a step that updates one leaves the others alone.
TypeInv ==
  /\ now \in 1 .. MaxTime
  /\ buckets \in [Clients -> Bucket \cup {NoBucket}]
  /\ admitted \in [Clients -> [1 .. MaxTime -> Nat]]
  /\ retryAt \in [Clients -> Nat]

-----------------------------------------------------------------------------
(* Buckets *)

LEMMA CapacityNatural ==
  Capacity \in Nat /\ Capacity >= Minute /\ Capacity >= PerMinute
<1>1. PerMinute * Minute >= 1 * Minute
  BY LimiterAssumption, TimesMonotonic
<1>2. Minute * PerMinute >= 1 * PerMinute
  BY LimiterAssumption, TimesMonotonic
<1>3. QED
  BY <1>1, <1>2, LimiterAssumption DEF Capacity

\* A bucket holds natural numbers of units up to its capacity, more as time goes by.
LEMMA RefilledGrows ==
  ASSUME TypeInv,
         NEW b \in Bucket \cup {NoBucket}, NEW s \in Nat, NEW t \in Nat, now <= s, s <= t
  PROVE  /\ Refilled(b, s) \in 0 .. Capacity
         /\ Refilled(b, s) <= Refilled(b, t)
<1>1. CASE b = NoBucket
  BY <1>1, CapacityNatural DEF Refilled
<1>2. CASE b # NoBucket
  <2>1. b \in Bucket /\ b.tokens \in 0 .. Capacity /\ b.last \in 1 .. now /\ now \in Nat
    BY <1>2 DEF Bucket, TypeInv
  <2>2. 0 <= (s - b.last) * PerMinute /\ (s - b.last) * PerMinute <= (t - b.last) * PerMinute
    <3>1. 0 <= s - b.last /\ s - b.last <= t - b.last
      BY <2>1
    <3>2. 0 * PerMinute <= (s - b.last) * PerMinute
      BY <2>1, <3>1, TimesMonotonic, LimiterAssumption
    <3>3. (s - b.last) * PerMinute <= (t - b.last) * PerMinute
      BY <2>1, <3>1, TimesMonotonic, LimiterAssumption
    <3>4. QED
      BY <3>2, <3>3, LimiterAssumption
  <2> DEFINE x == (s - b.last) * PerMinute
             y == (t - b.last) * PerMinute
  <2>3. x \in Int /\ y \in Int
    BY <2>1, LimiterAssumption
  <2>4. Refilled(b, s) = Capped(b.tokens + x) /\ Refilled(b, t) = Capped(b.tokens + y)
    BY <1>2 DEF Refilled
  <2> HIDE DEF x, y
  <2>5. QED
    BY <2>1, <2>2, <2>3, <2>4, CapacityNatural DEF Capped, x, y
<1>3. QED
  BY <1>1, <1>2

\* What a second adds to a bucket, counted then or later.
LEMMA RefilledNextSecond ==
  ASSUME TypeInv, NEW b \in Bucket \cup {NoBucket}
  PROVE  Refilled(b, now + 1) = Capped(Refilled(b, now) + PerMinute)
<1>1. CASE b = NoBucket
  BY <1>1, CapacityNatural, LimiterAssumption DEF Refilled, Capped
<1>2. CASE b # NoBucket
  <2>1. b.tokens \in 0 .. Capacity /\ b.last \in 1 .. now /\ now \in Nat
    BY <1>2 DEF Bucket, TypeInv
  <2> DEFINE x == (now - b.last) * PerMinute
             y == ((now + 1) - b.last) * PerMinute
  <2>2. x \in Int /\ y = x + PerMinute
    BY <2>1, LimiterAssumption
  <2>3. ASSUME NEW t \in Nat
        PROVE  Refilled(b, t) = Capped(b.tokens + (t - b.last) * PerMinute)
    BY <1>2 DEF Refilled
  <2>4. Refilled(b, now) = Capped(b.tokens + x)
    BY <2>1, <2>3
  <2>5. Refilled(b, now + 1) = Capped(b.tokens + y)
    <3>1. now + 1 \in Nat
      BY <2>1
    <3>2. QED
      BY <2>3, <3>1
  <2> HIDE DEF x, y
  <2>6. QED
    BY <2>1, <2>2, <2>4, <2>5, CapacityNatural, LimiterAssumption DEF Capped
<1>3. QED
  BY <1>1, <1>2

\* A bucket that may be pruned is full, and so is one that is not there.
LEMMA PrunedUnnoticed ==
  ASSUME TypeInv, NEW bs \in [Clients -> Bucket \cup {NoBucket}], NEW c \in Clients
  PROVE  /\ Pruned(bs, now) \in [Clients -> Bucket \cup {NoBucket}]
         /\ \A t \in Nat : t >= now => Refilled(Pruned(bs, now)[c], t) = Refilled(bs[c], t)
<1> DEFINE idle(d) == d \in Known(bs) /\ bs[d].last < now - IDLE_SECONDS
<1>1. ASSUME NEW t \in Nat, t >= now, idle(c)
      PROVE  Refilled(bs[c], t) = Capacity
  <2>1. /\ bs[c] # NoBucket
        /\ bs[c].tokens \in 0 .. Capacity /\ bs[c].last \in 1 .. now /\ now \in Nat
    BY <1>1 DEF Known, Bucket, TypeInv
  <2>2. Minute <= t - bs[c].last
    BY <1>1, <2>1, LimiterAssumption
  <2> DEFINE x == (t - bs[c].last) * PerMinute
  <2>3. Minute * PerMinute <= x /\ x \in Int
    BY <2>1, <2>2, TimesMonotonic, LimiterAssumption
  <2>4. Capacity <= x
    BY <2>3, LimiterAssumption DEF Capacity
  <2>5. Refilled(bs[c], t) = Capped(bs[c].tokens + x)
    BY <2>1 DEF Refilled
  <2> HIDE DEF x
  <2>6. QED
    BY <2>1, <2>3, <2>4, <2>5, CapacityNatural DEF Capped
<1>2. CASE Pruned(bs, now) = bs
  BY <1>2
<1>3. CASE Pruned(bs, now) = [d \in Clients |-> IF idle(d) THEN NoBucket ELSE bs[d]]
  <2> HIDE DEF idle
  <2>1. Pruned(bs, now) \in [Clients -> Bucket \cup {NoBucket}]
    BY <1>3
  <2>2. ASSUME NEW t \in Nat, t >= now
        PROVE  Refilled(Pruned(bs, now)[c], t) = Refilled(bs[c], t)
    <3>1. CASE idle(c)
      <4>1. Pruned(bs, now)[c] = NoBucket
        BY <1>3, <3>1
      <4>2. QED
        BY <1>1, <2>2, <3>1, <4>1 DEF Refilled
    <3>2. CASE ~ idle(c)
      BY <1>3, <3>2
    <3>3. QED
      BY <3>1, <3>2
  <2>3. QED
    BY <2>1, <2>2
<1>4. QED
  BY <1>2, <1>3 DEF Pruned

-----------------------------------------------------------------------------
(* Requests *)

\* The client's own bucket after a request is up to date, a token poorer if there
\* was one, and is not pruned; the others are as they were, if not pruned.
LEMMA AllowChanges ==
  ASSUME TypeInv, NEW c \in Clients
  PROVE  LET bs == AfterAllow(buckets, c, now)
             tokens == Refilled(buckets[c], now)
             left == IF tokens >= Minute THEN tokens - Minute ELSE tokens
         IN  /\ bs \in [Clients -> Bucket \cup {NoBucket}]
             /\ bs[c] = [tokens |-> left, last |-> now]
             /\ tokens \in 0 .. Capacity /\ left \in 0 .. Capacity
             /\ \A d \in Clients \ {c}, t \in Nat :
                  t >= now => Refilled(bs[d], t) = Refilled(buckets[d], t)
<1> DEFINE tokens == Refilled(buckets[c], now)
           left == IF tokens >= Minute THEN tokens - Minute ELSE tokens
           mine == [tokens |-> left, last |-> now]
           ps == [buckets EXCEPT ![c] = mine]
<1>1. now \in Nat /\ now \in 1 .. now /\ buckets[c] \in Bucket \cup {NoBucket}
  BY DEF TypeInv
<1>2. tokens \in 0 .. Capacity
  BY <1>1, RefilledGrows
<1>3. left \in 0 .. Capacity
  <2> HIDE DEF tokens
  <2>1. QED
    BY <1>2, CapacityNatural, LimiterAssumption
<1>4. AfterAllow(buckets, c, now) = Pruned(ps, now)
  BY DEF AfterAllow
<1>5. mine \in Bucket /\ mine.last = now
  <2> HIDE DEF left
  <2>1. QED
    BY <1>1, <1>3 DEF Bucket
<1> HIDE DEF tokens, left, mine
<1>6. ps \in [Clients -> Bucket \cup {NoBucket}]
  BY <1>5 DEF TypeInv
<1>7. ps[c] = mine /\ \A d \in Clients \ {c} : ps[d] = buckets[d]
  BY DEF TypeInv
<1> HIDE DEF ps
<1>8. Pruned(ps, now)[c] = mine
  <2>1. ~ (ps[c].last < now - IDLE_SECONDS)
    BY <1>1, <1>5, <1>7, LimiterAssumption
  <2>2. QED
    BY <1>7, <2>1 DEF Pruned
<1>9. Pruned(ps, now) \in [Clients -> Bucket \cup {NoBucket}]
  BY <1>6, PrunedUnnoticed
<1>10. \A d \in Clients \ {c}, t \in Nat :
         t >= now => Refilled(Pruned(ps, now)[d], t) = Refilled(buckets[d], t)
  BY <1>6, <1>7, PrunedUnnoticed
<1>11. QED
  BY <1>2, <1>3, <1>4, <1>8, <1>9, <1>10 DEF tokens, left, mine

\* A bucket that was used now.
LEMMA RefilledMine ==
  ASSUME TypeInv, NEW n \in 0 .. Capacity
  PROVE  LET b == [tokens |-> n, last |-> now]
         IN  /\ Refilled(b, now) = n
             /\ \A t \in Nat : Refilled(b, t) = Capped(n + (t - now) * PerMinute)
<1> DEFINE b == [tokens |-> n, last |-> now]
<1>1. b \in [tokens : Int, last : Int]
  BY CapacityNatural DEF TypeInv
<1>2. b # NoBucket
  BY <1>1, LimiterAssumption
<1>3. ASSUME NEW t \in Nat PROVE Refilled(b, t) = Capped(n + (t - now) * PerMinute)
  BY <1>2 DEF Refilled
<1>4. (now - now) * PerMinute = 0 /\ now \in Nat
  BY LimiterAssumption DEF TypeInv
<1>5. Refilled(b, now) = Capped(n + 0)
  BY <1>3, <1>4
<1>6. Capped(n + 0) = n
  BY CapacityNatural DEF Capped
<1>7. QED
  BY <1>3, <1>5, <1>6

-----------------------------------------------------------------------------
(* Types *)

LEMMA InitTypeInv ==
  Init => TypeInv
BY LimiterAssumption DEF Init, TypeInv

\* What a refused client is told.
LEMMA RetryAfterNatural ==
  ASSUME NEW b, b # NoBucket, b.tokens \in 0 .. Capacity
  PROVE  /\ RetryAfter(b) \in Nat \ {0}
         /\ b.tokens < Minute =>
              /\ b.tokens + RetryAfter(b) * PerMinute >= Minute
              /\ RetryAfter(b) > 1 => b.tokens + (RetryAfter(b) - 1) * PerMinute < Minute
<1> DEFINE deficit == IF b.tokens < Minute THEN Minute - b.tokens ELSE 0
           q == CeilDiv(deficit, PerMinute)
           S == {1, q}
<1>1. b.tokens \in Nat
  BY CapacityNatural
<1>2. RetryAfter(b) = Max(S)
  BY DEF RetryAfter
<1>3. q \in Nat
  <2>1. deficit + PerMinute - 1 \in Nat
    BY <1>1, LimiterAssumption
  <2>2. QED
    BY <2>1, LimiterAssumption DEF CeilDiv
<1>4. Max(S) \in S /\ \A s \in S : Max(S) >= s
  <2>1. S \in SUBSET Nat /\ S # {} /\ q + 1 \in Nat /\ \A s \in S : s <= q + 1
    <3> HIDE DEF q
    <3>1. QED
      BY <1>3
  <2> HIDE DEF S
  <2>2. QED
    BY <2>1, MaxOfNaturals
<1>5. ASSUME b.tokens < Minute
      PROVE  /\ Max(S) = q /\ q \in Nat \ {0}
             /\ q * PerMinute >= Minute - b.tokens
             /\ (q - 1) * PerMinute < Minute - b.tokens
  <2>1. deficit \in Nat \ {0} /\ deficit = Minute - b.tokens
    BY <1>1, <1>5, LimiterAssumption
  <2>2. q = (deficit + PerMinute - 1) \div PerMinute
    BY DEF CeilDiv
  <2>3. q \in Nat \ {0} /\ q * PerMinute >= deficit /\ (q - 1) * PerMinute < deficit
    <3> HIDE DEF q, deficit
    <3>1. QED
      BY <2>1, <2>2, RoundedUp, LimiterAssumption
  <2>4. Max(S) = q
    <3> HIDE DEF q
    <3>1. QED
      BY <1>4, <2>3
  <2>5. QED
    BY <2>1, <2>3, <2>4
<1>6. Max(S) \in Nat \ {0}
  <2> HIDE DEF q
  <2>1. QED
    BY <1>3, <1>4
<1> DEFINE u == q * PerMinute
           v == (q - 1) * PerMinute
<1>7. u \in Int /\ v \in Int
  <2> HIDE DEF q
  <2>1. QED
    BY <1>3, LimiterAssumption
<1> HIDE DEF S, q, deficit
<1>8. ASSUME b.tokens < Minute
      PROVE  b.tokens + u >= Minute /\ b.tokens + v < Minute
  <2>1. u >= Minute - b.tokens /\ v < Minute - b.tokens
    BY <1>5, <1>8
  <2> HIDE DEF u, v
  <2>2. QED
    BY <1>1, <1>7, <2>1, LimiterAssumption
<1>9. QED
  BY <1>2, <1>5, <1>6, <1>8

\* The types hold from step to step; what a refused client is told is a second.
LEMMA NextTypeInv ==
  ASSUME TypeInv, [Next]_vars
  PROVE  TypeInv'
<1>1. CASE Second
  <2>1. now' \in 1 .. MaxTime /\ 1 .. now \subseteq 1 .. now'
    BY <1>1, LimiterAssumption DEF Second, TypeInv
  <2>2. QED
    BY <1>1, <2>1 DEF Second, TypeInv, Bucket
<1>2. ASSUME NEW c \in Clients, Enforce(c) PROVE TypeInv'
  <2>1. now' = now /\ buckets' = AfterAllow(buckets, c, now) /\ now \in Nat
    BY <1>2 DEF Enforce, TypeInv
  <2>2. buckets' \in [Clients -> Bucket \cup {NoBucket}]
    BY <2>1, AllowChanges
  <2>3. buckets'[c] # NoBucket /\ buckets'[c].tokens \in 0 .. Capacity
    <3>1. \E n \in 0 .. Capacity : buckets'[c] = [tokens |-> n, last |-> now]
      BY <2>1, AllowChanges
    <3>2. PICK n \in 0 .. Capacity : buckets'[c] = [tokens |-> n, last |-> now]
      BY <3>1
    <3>3. buckets'[c] \in [tokens : Int, last : Int]
      BY <2>1, <3>2
    <3>4. QED
      BY <3>2, <3>3, LimiterAssumption
  <2>4. retryAt' \in [Clients -> Nat]
    <3>1. RetryAfter(buckets'[c]) \in Nat
      BY <2>3, RetryAfterNatural
    <3>2. now + RetryAfter(buckets'[c]) \in Nat
      BY <2>1, <3>1
    <3>3. \E n \in Nat : retryAt' = [retryAt EXCEPT ![c] = n]
      BY <1>2, <3>2 DEF Enforce
    <3>4. QED
      BY <3>3 DEF TypeInv
  <2>5. admitted' \in [Clients -> [1 .. MaxTime -> Nat]]
    <3>1. \/ admitted' = admitted
          \/ admitted' = [admitted EXCEPT ![c][now] = @ + 1]
      BY <1>2 DEF Enforce
    <3> DEFINE mine == [admitted[c] EXCEPT ![now] = admitted[c][now] + 1]
    <3>2. admitted \in [Clients -> [1 .. MaxTime -> Nat]] /\ now \in 1 .. MaxTime
      BY DEF TypeInv
    <3>3. admitted[c] \in [1 .. MaxTime -> Nat]
      BY <3>2
    <3>4. admitted[c][now] + 1 \in Nat
      <4>1. admitted[c][now] \in Nat
        BY <3>2, <3>3
      <4>2. QED
        BY <4>1
    <3>5. mine \in [1 .. MaxTime -> Nat]
      BY <3>3, <3>4
    <3>6. admitted' = admitted \/ admitted' = [admitted EXCEPT ![c] = mine]
      BY <3>1
    <3> HIDE DEF mine
    <3>7. QED
      BY <3>2, <3>5, <3>6
  <2>6. QED
    BY <2>1, <2>2, <2>4, <2>5 DEF TypeInv, Bucket
<1>3. CASE UNCHANGED vars
  BY <1>3 DEF vars, TypeInv, Bucket
<1>4. QED
  BY <1>1, <1>2, <1>3 DEF Next

LEMMA TypesHold ==
  Spec => []TypeInv
BY InitTypeInv, NextTypeInv, PTL DEF Spec

\* No bucket is ever overfull or from the future (allow, in hardening.py).
THEOREM TypeCorrect ==
  Spec => []TypeOK
<1>1. TypeInv => TypeOK
  BY DEF TypeInv, TypeOK, Bucket, Known
<1>2. QED
  BY <1>1, TypesHold, PTL

-----------------------------------------------------------------------------
(* Refinement *)

LEMMA InitEager ==
  Init => Eager!Init
BY DEF Init, Eager!Init, Refilled, Capacity, Eager!Capacity

\* A request that is let through pays the eager limiter, one that is refused is
\* nothing to it, and what is pruned is full there.
LEMMA NextEager ==
  ASSUME TypeInv, [Next]_vars
  PROVE  [Eager!Next]_Eager!vars
<1> DEFINE level == [c \in Clients |-> Refilled(buckets[c], now)]
<1>1. CASE Second
  <2>1. now' = now + 1 /\ now < MaxTime /\ UNCHANGED <<buckets, admitted>>
    BY <1>1 DEF Second
  <2>2. ASSUME NEW c \in Clients
        PROVE  Refilled(buckets[c], now + 1) = Eager!Capped(Refilled(buckets[c], now) + PerMinute)
    <3>1. buckets[c] \in Bucket \cup {NoBucket}
      BY DEF TypeInv
    <3>2. QED
      BY <3>1, RefilledNextSecond DEF Capped, Eager!Capped, Capacity, Eager!Capacity
  <2>3. level' = [c \in Clients |-> Eager!Capped(level[c] + PerMinute)]
    BY <2>1, <2>2
  <2>4. Eager!Second
    BY <2>1, <2>3 DEF Eager!Second
  <2>5. QED
    BY <2>4 DEF Eager!Next
<1>2. ASSUME NEW c \in Clients, Enforce(c)
      PROVE  Eager!Admit(c) \/ UNCHANGED Eager!vars
  <2> DEFINE tokens == Refilled(buckets[c], now)
             left == IF tokens >= Minute THEN tokens - Minute ELSE tokens
  <2>1. now' = now /\ buckets' = AfterAllow(buckets, c, now) /\ now \in Nat
    BY <1>2 DEF Enforce, TypeInv
  <2>2. /\ buckets'[c] = [tokens |-> left, last |-> now]
        /\ left \in 0 .. Capacity
        /\ \A d \in Clients \ {c} : Refilled(buckets'[d], now) = Refilled(buckets[d], now)
    BY <2>1, AllowChanges
  <2>3. Refilled(buckets'[c], now) = left
    <3> HIDE DEF left
    <3>1. QED
      BY <2>2, RefilledMine
  <2>4. level' = [level EXCEPT ![c] = left]
    <3> HIDE DEF left
    <3>1. QED
      BY <2>1, <2>2, <2>3
  <2>5. CASE tokens >= Minute
    <3>1. admitted' = [admitted EXCEPT ![c][now] = @ + 1]
      BY <1>2, <2>5 DEF Enforce
    <3>2. level[c] = tokens /\ level' = [level EXCEPT ![c] = @ - Minute]
      BY <2>4, <2>5
    <3>3. QED
      BY <2>1, <2>5, <3>1, <3>2 DEF Eager!Admit
  <2>6. CASE ~ (tokens >= Minute)
    <3>1. admitted' = admitted
      BY <1>2, <2>6 DEF Enforce
    <3>2. level' = level
      BY <2>4, <2>6
    <3>3. QED
      BY <2>1, <3>1, <3>2 DEF Eager!vars
  <2>7. QED
    BY <2>5, <2>6
<1>3. CASE UNCHANGED vars
  BY <1>3 DEF vars, Eager!vars
<1>4. QED
  BY <1>1, <1>2, <1>3 DEF Next, Eager!Next

\* The limiter that refills lazily and forgets idle clients lets through exactly
\* what one that keeps every bucket up to date would (hardening.py, RateLimiter).
THEOREM Implementation ==
  Spec => ImplementsEager
<1>1. Spec => Eager!Spec
  BY InitEager, NextEager, TypesHold, PTL DEF Spec, Eager!Spec
<1>2. QED
  BY <1>1 DEF ImplementsEager

-----------------------------------------------------------------------------
(* Retry-After *)

\* RetryExact is about the present second; this is about all later ones.
RetryInv ==
  \A c \in Clients :
    retryAt[c] # 0 =>
      /\ \A t \in Nat : t >= now /\ t >= retryAt[c] => Refilled(buckets[c], t) >= Minute
      /\ retryAt[c] > now + 1 => Refilled(buckets[c], retryAt[c] - 1) < Minute

\* What a refusal tells its client is right.
LEMMA RefusalIsExact ==
  ASSUME TypeInv, NEW n \in 0 .. Capacity, n < Minute
  PROVE  LET b == [tokens |-> n, last |-> now]
             w == RetryAfter(b)
         IN  /\ w \in Nat \ {0}
             /\ \A t \in Nat : t >= now + w => Refilled(b, t) >= Minute
             /\ w > 1 => Refilled(b, now + w - 1) < Minute
<1> DEFINE b == [tokens |-> n, last |-> now]
           w == RetryAfter(b)
<1>1. now \in Nat /\ n \in Nat /\ b.tokens = n
  BY CapacityNatural DEF TypeInv
<1>2. b # NoBucket
  <2>1. b \in [tokens : Int, last : Int]
    BY <1>1
  <2>2. QED
    BY <2>1, LimiterAssumption
<1>3. \A t \in Nat : Refilled(b, t) = Capped(n + (t - now) * PerMinute)
  BY RefilledMine
<1> HIDE DEF b
<1>4. /\ w \in Nat \ {0} /\ n + w * PerMinute >= Minute
      /\ w > 1 => n + (w - 1) * PerMinute < Minute
  BY <1>1, <1>2, RetryAfterNatural
<1> HIDE DEF w
<1>5. ASSUME NEW t \in Nat, t >= now + w PROVE Refilled(b, t) >= Minute
  <2> DEFINE x == w * PerMinute
             y == (t - now) * PerMinute
  <2>1. w <= t - now
    BY <1>1, <1>4, <1>5
  <2>2. x <= y /\ x \in Int /\ y \in Int
    BY <1>1, <1>4, <2>1, TimesMonotonic, LimiterAssumption
  <2>3. n + x >= Minute /\ Refilled(b, t) = Capped(n + y)
    BY <1>3, <1>4
  <2> HIDE DEF x, y
  <2>4. QED
    BY <1>1, <2>2, <2>3, CapacityNatural, LimiterAssumption DEF Capped
<1>6. ASSUME w > 1 PROVE Refilled(b, now + w - 1) < Minute
  <2> DEFINE x == (w - 1) * PerMinute
  <2>1. now + w - 1 \in Nat /\ (now + w - 1) - now = w - 1
    BY <1>1, <1>4
  <2>2. n + x < Minute /\ Refilled(b, now + w - 1) = Capped(n + x)
    BY <1>3, <1>4, <1>6, <2>1
  <2>3. x \in Int
    BY <1>4, LimiterAssumption
  <2> HIDE DEF x
  <2>4. QED
    BY <1>1, <2>2, <2>3, CapacityNatural, LimiterAssumption DEF Capped
<1>7. QED
  BY <1>4, <1>5, <1>6 DEF w, b

LEMMA NextRetryInv ==
  ASSUME TypeInv, RetryInv, [Next]_vars
  PROVE  RetryInv'
<1>1. CASE Second
  <2>1. now' = now + 1 /\ now \in Nat /\ UNCHANGED <<buckets, retryAt>>
    BY <1>1 DEF Second, TypeInv
  <2>2. \A c \in Clients : retryAt[c] \in Nat
    BY DEF TypeInv
  <2>3. QED
    BY <2>1, <2>2 DEF RetryInv
<1>2. ASSUME NEW c \in Clients, Enforce(c),
             NEW d \in Clients, retryAt'[d] # 0
      PROVE  /\ \A t \in Nat : t >= now' /\ t >= retryAt'[d] => Refilled(buckets'[d], t) >= Minute
             /\ retryAt'[d] > now' + 1 => Refilled(buckets'[d], retryAt'[d] - 1) < Minute
  <2>1. now' = now /\ buckets' = AfterAllow(buckets, c, now) /\ now \in Nat
    BY <1>2 DEF Enforce, TypeInv
  <2>2. CASE d # c
    <3>1. retryAt'[d] = retryAt[d] /\ retryAt[d] \in Nat
      BY <1>2, <2>2 DEF Enforce, TypeInv
    <3>2. \A t \in Nat : t >= now => Refilled(buckets'[d], t) = Refilled(buckets[d], t)
      BY <2>1, <2>2, AllowChanges
    <3>3. /\ \A t \in Nat : t >= now /\ t >= retryAt[d] => Refilled(buckets[d], t) >= Minute
          /\ retryAt[d] > now + 1 => Refilled(buckets[d], retryAt[d] - 1) < Minute
      BY <1>2, <3>1 DEF RetryInv
    <3>4. retryAt[d] > now + 1 => retryAt[d] - 1 \in Nat /\ retryAt[d] - 1 >= now
      BY <2>1, <3>1
    <3>5. QED
      BY <2>1, <3>1, <3>2, <3>3, <3>4
  <2>3. CASE d = c
    <3> DEFINE n == Refilled(buckets[c], now)
    <3>1. n < Minute /\ retryAt'[c] = now + RetryAfter(buckets'[c])
      <4>1. n \in Nat /\ ~ (n >= Minute)
        <5>1. n \in 0 .. Capacity
          BY AllowChanges
        <5>2. n >= Minute => retryAt'[c] = 0
          BY <1>2 DEF Enforce, TypeInv
        <5>3. QED
          BY <1>2, <2>3, <5>1, <5>2, CapacityNatural
      <4>2. retryAt'[c] = now + RetryAfter(buckets'[c])
        BY <1>2, <4>1 DEF Enforce, TypeInv
      <4>3. QED
        BY <4>1, <4>2, LimiterAssumption
    <3>2. n \in 0 .. Capacity /\ buckets'[c] = [tokens |-> n, last |-> now]
      <4>1. n \in 0 .. Capacity
        BY AllowChanges
      <4>2. ~ (n >= Minute)
        <5> HIDE DEF n
        <5>1. QED
          BY <3>1, <4>1, CapacityNatural, LimiterAssumption
      <4>3. QED
        BY <2>1, <4>1, <4>2, AllowChanges
    <3> DEFINE w == RetryAfter(buckets'[c])
    <3> HIDE DEF n
    <3>3. /\ w \in Nat \ {0}
          /\ \A t \in Nat : t >= now + w => Refilled(buckets'[c], t) >= Minute
          /\ w > 1 => Refilled(buckets'[c], now + w - 1) < Minute
      BY <3>1, <3>2, RefusalIsExact
    <3> HIDE DEF w
    <3>4. retryAt'[c] = now + w
      BY <3>1 DEF w
    <3>5. QED
      BY <2>1, <2>3, <3>3, <3>4
  <2>4. QED
    BY <2>2, <2>3
<1>3. CASE UNCHANGED vars
  BY <1>3 DEF vars, RetryInv
<1>4. CASE \E c \in Clients : Enforce(c)
  BY <1>2, <1>4 DEF RetryInv
<1>5. QED
  BY <1>1, <1>3, <1>4 DEF Next

\* Retry-After is honest and asks for no more than needed, at every rate, whatever
\* is pruned in the meantime (retry_after and _enforce_rate_limit).
THEOREM RetryIsExact ==
  Spec => []RetryExact
<1>1. Init => RetryInv
  BY DEF Init, RetryInv
<1>2. TypeInv /\ RetryInv => RetryExact
  <2> SUFFICES ASSUME TypeInv, RetryInv, NEW c \in Clients
               PROVE  /\ retryAt[c] # 0 /\ now >= retryAt[c] => Refilled(buckets[c], now) >= Minute
                      /\ retryAt[c] > now + 1 => Refilled(buckets[c], retryAt[c] - 1) < Minute
    BY DEF RetryExact
  <2>1. now \in Nat /\ retryAt[c] \in Nat /\ now >= now
    BY DEF TypeInv
  <2>2. QED
    BY <2>1 DEF RetryInv
<1>3. QED
  BY <1>1, <1>2, NextRetryInv, TypesHold, PTL DEF Spec

-----------------------------------------------------------------------------
(* The rate *)

\* What was let through from one second to another, and what the bucket holds
\* then, is no more than a full bucket and what the window earned.
Window(f, r, from, to) ==
  Minute * SumOf(f, from, to) + r <= Capacity + (to - from) * PerMinute

\* This holds of every window that ends now; nobody was let through in the future.
RateInv ==
  \A c \in Clients :
    /\ \A t \in 1 .. MaxTime : t > now => admitted[c][t] = 0
    /\ Refilled(buckets[c], now) \in 0 .. Capacity
    /\ \A from \in 1 .. now : Window(admitted[c], Refilled(buckets[c], now), from, now)

LEMMA SumOfAdmitted ==
  ASSUME NEW c, NEW from, NEW to
  PROVE  /\ AdmittedIn(c, from, to) = SumOf(admitted[c], from, to)
         /\ AdmittedIn(c, from, to)' = SumOf(admitted'[c], from, to)
<1>1. AdmittedIn(c, from, to) = SumOf(admitted[c], from, to)
  BY DEF AdmittedIn, SumOf, SumOver, MapThenSumSet, MapThenFoldSet
<1>2. AdmittedIn(c, from, to)' = SumOf(admitted'[c], from, to)
  BY DEF AdmittedIn, SumOf, SumOver, MapThenSumSet, MapThenFoldSet
<1>3. QED
  BY <1>1, <1>2

\* The windows of a client whose log is as long as the clock.
LEMMA WindowSums ==
  ASSUME NEW f \in [1 .. MaxTime -> Nat], NEW from \in 1 .. MaxTime, NEW to \in 1 .. MaxTime,
         from <= to
  PROVE  /\ SumOf(f, from, to) \in Int
         /\ SumOf(f, from, to) = SumOf(f, from, to - 1) + f[to]
         /\ SumOf(f, from, to - 1) \in Int
         /\ from = to => SumOf(f, from, to) = f[to]
         /\ \A g : (\A t \in from .. to : g[t] = f[t]) => SumOf(g, from, to) = SumOf(f, from, to)
         /\ \A g : (\A t \in from .. to - 1 : g[t] = f[t])
                     => SumOf(g, from, to - 1) = SumOf(f, from, to - 1)
<1>1. /\ from \in Int /\ to \in Int /\ to - 1 \in Int /\ from - 1 <= to - 1 /\ from - 1 <= to
      /\ from .. to \subseteq 1 .. MaxTime /\ from .. to - 1 \subseteq 1 .. MaxTime
  BY LimiterAssumption
<1>2. \A t \in 1 .. MaxTime : f[t] \in Int
  OBVIOUS
<1>3. /\ \A t \in from .. to : f[t] \in Int
      /\ \A t \in from .. to - 1 : f[t] \in Int
  BY <1>1, <1>2
<1>4. /\ SumOf(f, from, to) \in Int
      /\ SumOf(f, from, to) = SumOf(f, from, to - 1) + f[to]
      /\ \A g : (\A t \in from .. to : g[t] = f[t]) => SumOf(g, from, to) = SumOf(f, from, to)
  BY <1>1, <1>3, SumFacts
<1>5. /\ SumOf(f, from, to - 1) \in Int
      /\ to - 1 = from - 1 => SumOf(f, from, to - 1) = 0
      /\ \A g : (\A t \in from .. to - 1 : g[t] = f[t])
                  => SumOf(g, from, to - 1) = SumOf(f, from, to - 1)
  <2> DEFINE u == to - 1
  <2>1. u \in Int /\ from \in Int /\ from - 1 <= u /\ \A t \in from .. u : f[t] \in Int
    BY <1>1, <1>3
  <2> HIDE DEF u
  <2>2. /\ SumOf(f, from, u) \in Int
        /\ u = from - 1 => SumOf(f, from, u) = 0
        /\ \A g : (\A t \in from .. u : g[t] = f[t]) => SumOf(g, from, u) = SumOf(f, from, u)
    BY <2>1, SumFacts
  <2>3. QED
    BY <2>2 DEF u
<1>6. QED
  BY <1>4, <1>5

LEMMA InitRate ==
  Init => RateInv /\ WithinRate
<1> SUFFICES ASSUME Init PROVE RateInv /\ WithinRate
  OBVIOUS
<1>1. now = 1 /\ 1 .. now = {1} /\ 1 \in 1 .. MaxTime /\ MaxTime \in Nat
  BY LimiterAssumption DEF Init
<1>2. ASSUME NEW c \in Clients
      PROVE  /\ \A t \in 1 .. MaxTime : admitted[c][t] = 0
             /\ SumOf(admitted[c], 1, 1) = 0
             /\ Refilled(buckets[c], 1) = Capacity
  <2>1. admitted[c] \in [1 .. MaxTime -> Nat] /\ \A t \in 1 .. MaxTime : admitted[c][t] = 0
    BY DEF Init
  <2>2. SumOf(admitted[c], 1, 1) = admitted[c][1]
    BY <1>1, <2>1, WindowSums
  <2>3. QED
    BY <1>1, <2>1, <2>2 DEF Init, Refilled
<1>3. Minute * 0 = 0 /\ (1 - 1) * PerMinute = 0
  BY LimiterAssumption
<1>4. RateInv
  <2>1. ASSUME NEW c \in Clients, NEW from \in 1 .. now
        PROVE  Window(admitted[c], Refilled(buckets[c], now), from, now)
    <3>1. from = 1 /\ now = 1
      BY <1>1
    <3>2. Window(admitted[c], Refilled(buckets[c], 1), 1, 1)
      BY <1>2, <1>3, CapacityNatural DEF Window
    <3>3. QED
      BY <3>1, <3>2
  <2>2. ASSUME NEW c \in Clients
        PROVE  Refilled(buckets[c], now) \in 0 .. Capacity
    BY <1>1, <1>2, CapacityNatural
  <2>3. QED
    BY <1>2, <2>1, <2>2 DEF RateInv
<1>5. WithinRate
  <2>1. ASSUME NEW c \in Clients, NEW from \in 1 .. now, NEW to \in 1 .. now
        PROVE  Minute * AdmittedIn(c, from, to) <= Capacity + (to - from) * PerMinute
    <3>1. from = 1 /\ to = 1
      BY <1>1
    <3>2. Minute * AdmittedIn(c, 1, 1) <= Capacity + (1 - 1) * PerMinute
      BY <1>2, <1>3, CapacityNatural, SumOfAdmitted
    <3>3. QED
      BY <3>1, <3>2
  <2>2. QED
    BY <2>1 DEF WithinRate
<1>6. QED
  BY <1>4, <1>5

\* How a window fares when its client waits, and when it is let through.
LEMMA WindowSteps ==
  ASSUME NEW f \in [1 .. MaxTime -> Nat], NEW from \in 1 .. MaxTime, NEW t \in 1 .. MaxTime,
         from <= t, NEW r \in Nat, Window(f, r, from, t)
  PROVE  /\ Minute * SumOf(f, from, t) <= Capacity + (t - from) * PerMinute
         /\ t + 1 \in 1 .. MaxTime /\ f[t + 1] = 0 =>
              \A q \in Nat : q <= r + PerMinute => Window(f, q, from, t + 1)
         /\ r >= Minute => Window([f EXCEPT ![t] = @ + 1], r - Minute, from, t)
<1> DEFINE s == SumOf(f, from, t)
           x == Minute * s
           y == (t - from) * PerMinute
<1>1. s \in Int /\ from \in Nat /\ t \in Nat
  BY WindowSums, LimiterAssumption
<1>2. x \in Int /\ y \in Int /\ Minute \in Nat /\ PerMinute \in Nat /\ Capacity \in Nat
  <2> HIDE DEF s
  <2>1. QED
    BY <1>1, LimiterAssumption, CapacityNatural
<1>3. x + r <= Capacity + y
  BY DEF Window
<1>4. x <= Capacity + y
  <2> HIDE DEF x, y
  <2>1. QED
    BY <1>2, <1>3
<1>5. ASSUME t + 1 \in 1 .. MaxTime, f[t + 1] = 0, NEW q \in Nat, q <= r + PerMinute
      PROVE  Window(f, q, from, t + 1)
  <2>1. SumOf(f, from, t + 1) = s
    <3>1. from <= t + 1 /\ (t + 1) - 1 = t
      BY <1>1
    <3>2. SumOf(f, from, t + 1) = SumOf(f, from, (t + 1) - 1) + f[t + 1]
      BY <1>5, <3>1, WindowSums
    <3> HIDE DEF s
    <3>3. QED
      BY <1>1, <1>5, <3>1, <3>2 DEF s
  <2>2. ((t + 1) - from) * PerMinute = y + PerMinute
    BY <1>1, LimiterAssumption
  <2> HIDE DEF x, y
  <2>3. x + q <= Capacity + (y + PerMinute)
    BY <1>2, <1>3, <1>5
  <2>4. QED
    BY <2>1, <2>2, <2>3 DEF Window, x
<1>6. ASSUME r >= Minute
      PROVE  Window([f EXCEPT ![t] = @ + 1], r - Minute, from, t)
  <2> DEFINE g == [f EXCEPT ![t] = @ + 1]
  <2>1. f[t] \in Nat
    OBVIOUS
  <2>2. g \in [1 .. MaxTime -> Nat] /\ g[t] = f[t] + 1
    BY <2>1
  <2>3. \A u \in from .. t - 1 : g[u] = f[u]
    BY <1>1, LimiterAssumption
  <2> HIDE DEF g
  <2>4. SumOf(g, from, t - 1) = SumOf(f, from, t - 1)
    BY <2>3, WindowSums
  <2>5. /\ SumOf(g, from, t) = SumOf(g, from, t - 1) + g[t]
        /\ SumOf(f, from, t) = SumOf(f, from, t - 1) + f[t]
        /\ SumOf(f, from, t - 1) \in Int
    BY <2>2, WindowSums
  <2>6. SumOf(g, from, t) = s + 1
    BY <2>1, <2>2, <2>4, <2>5
  <2>7. Minute * (s + 1) = x + Minute
    <3> HIDE DEF s
    <3>1. QED
      BY <1>1, LimiterAssumption
  <2> HIDE DEF x, y, s
  <2>8. (x + Minute) + (r - Minute) <= Capacity + y
    BY <1>2, <1>3
  <2>9. QED
    BY <2>6, <2>7, <2>8 DEF Window, g, y
<1>7. QED
  BY <1>4, <1>5, <1>6

\* A window that opens when nobody was let through yet.
LEMMA WindowOpens ==
  ASSUME NEW f \in [1 .. MaxTime -> Nat], NEW t \in 1 .. MaxTime, f[t] = 0,
         NEW r \in 0 .. Capacity
  PROVE  Window(f, r, t, t)
<1>1. t \in Nat /\ t <= t
  BY LimiterAssumption
<1>2. SumOf(f, t, t) = 0
  BY <1>1, WindowSums
<1>3. Minute * 0 = 0 /\ (t - t) * PerMinute = 0
  BY <1>1, LimiterAssumption
<1>4. QED
  BY <1>2, <1>3, CapacityNatural DEF Window

LEMMA NextRateInv ==
  ASSUME TypeInv, RateInv, [Next]_vars
  PROVE  RateInv'
<1>1. /\ now \in 1 .. MaxTime /\ now \in Nat /\ MaxTime \in Nat
      /\ \A c \in Clients : /\ buckets[c] \in Bucket \cup {NoBucket}
                             /\ admitted[c] \in [1 .. MaxTime -> Nat]
  BY LimiterAssumption DEF TypeInv
<1>2. CASE Second
  <2>1. /\ now' = now + 1 /\ now' \in 1 .. MaxTime /\ buckets' = buckets /\ admitted' = admitted
    BY <1>1, <1>2 DEF Second
  <2>2. ASSUME NEW c \in Clients
        PROVE  /\ \A t \in 1 .. MaxTime : t > now + 1 => admitted[c][t] = 0
               /\ Refilled(buckets[c], now + 1) \in 0 .. Capacity
               /\ \A from \in 1 .. now + 1 :
                    Window(admitted[c], Refilled(buckets[c], now + 1), from, now + 1)
    <3> DEFINE r == Refilled(buckets[c], now)
               q == Refilled(buckets[c], now + 1)
    <3>1. /\ \A t \in 1 .. MaxTime : t > now => admitted[c][t] = 0
          /\ r \in 0 .. Capacity
          /\ \A from \in 1 .. now : Window(admitted[c], r, from, now)
      BY DEF RateInv
    <3>2. q = Capped(r + PerMinute)
      BY <1>1, RefilledNextSecond
    <3> HIDE DEF r, q
    <3>3. q \in 0 .. Capacity /\ q <= r + PerMinute /\ q \in Nat /\ r \in Nat
      BY <3>1, <3>2, CapacityNatural, LimiterAssumption DEF Capped
    <3>4. now + 1 \in 1 .. MaxTime /\ admitted[c][now + 1] = 0
      BY <1>1, <2>1, <3>1
    <3>5. ASSUME NEW from \in 1 .. now + 1
          PROVE  Window(admitted[c], q, from, now + 1)
      <4>1. CASE from = now + 1
        BY <1>1, <3>3, <3>4, <4>1, WindowOpens
      <4>2. CASE from # now + 1
        <5>1. from \in 1 .. now /\ from \in 1 .. MaxTime /\ from <= now
          BY <1>1, <4>2
        <5>2. Window(admitted[c], r, from, now)
          BY <3>1, <5>1
        <5>3. QED
          BY <1>1, <3>3, <3>4, <5>1, <5>2, WindowSteps
      <4>3. QED
        BY <4>1, <4>2
    <3>6. \A t \in 1 .. MaxTime : t > now + 1 => admitted[c][t] = 0
      BY <1>1, <3>1
    <3>7. QED
      BY <3>3, <3>5, <3>6 DEF q
  <2>3. QED
    BY <2>1, <2>2 DEF RateInv
<1>3. ASSUME NEW c \in Clients, Enforce(c)
      PROVE  RateInv'
  <2> DEFINE tokens == Refilled(buckets[c], now)
             left == IF tokens >= Minute THEN tokens - Minute ELSE tokens
  <2>1. now' = now /\ buckets' = AfterAllow(buckets, c, now)
    BY <1>3 DEF Enforce
  <2>2. /\ buckets'[c] = [tokens |-> left, last |-> now]
        /\ tokens \in 0 .. Capacity /\ left \in 0 .. Capacity
        /\ \A d \in Clients \ {c} : Refilled(buckets'[d], now) = Refilled(buckets[d], now)
    BY <1>1, <2>1, AllowChanges
  <2>3. Refilled(buckets'[c], now) = left
    <3> HIDE DEF left
    <3>1. QED
      BY <2>2, RefilledMine
  <2>4. /\ \A d \in Clients \ {c} : admitted'[d] = admitted[d]
        /\ tokens >= Minute => admitted'[c] = [admitted[c] EXCEPT ![now] = @ + 1]
        /\ ~ (tokens >= Minute) => admitted'[c] = admitted[c]
    BY <1>1, <1>3 DEF Enforce, TypeInv
  <2> HIDE DEF tokens
  <2>5. ASSUME NEW d \in Clients
        PROVE  /\ \A t \in 1 .. MaxTime : t > now => admitted'[d][t] = 0
               /\ Refilled(buckets'[d], now) \in 0 .. Capacity
               /\ \A from \in 1 .. now :
                    Window(admitted'[d], Refilled(buckets'[d], now), from, now)
    <3>1. /\ \A t \in 1 .. MaxTime : t > now => admitted[d][t] = 0
          /\ Refilled(buckets[d], now) \in 0 .. Capacity
          /\ \A from \in 1 .. now : Window(admitted[d], Refilled(buckets[d], now), from, now)
      BY DEF RateInv
    <3>2. CASE d # c
      BY <2>2, <2>4, <3>1, <3>2
    <3>3. CASE d = c /\ ~ (tokens >= Minute)
      BY <2>2, <2>3, <2>4, <3>1, <3>3 DEF tokens
    <3>4. CASE d = c /\ tokens >= Minute
      <4>1. left = tokens - Minute /\ tokens \in Nat
        BY <2>2, <3>4, CapacityNatural
      <4>2. \A t \in 1 .. MaxTime : t > now => admitted'[c][t] = 0
        BY <1>1, <2>4, <3>1, <3>4
      <4>3. ASSUME NEW from \in 1 .. now
            PROVE  Window(admitted'[c], tokens - Minute, from, now)
        <5>1. from \in 1 .. MaxTime /\ from <= now
          BY <1>1
        <5>2. Window(admitted[c], tokens, from, now)
          BY <3>1, <3>4 DEF tokens
        <5> DEFINE g == [admitted[c] EXCEPT ![now] = @ + 1]
        <5>3. Window(g, tokens - Minute, from, now)
          BY <1>1, <3>4, <4>1, <5>1, <5>2, WindowSteps
        <5>4. admitted'[c] = g
          BY <2>4, <3>4
        <5> HIDE DEF g
        <5>5. QED
          BY <5>3, <5>4
      <4>4. Refilled(buckets'[c], now) = tokens - Minute
        BY <2>3, <4>1
      <4>5. QED
        BY <2>2, <3>4, <4>1, <4>2, <4>3, <4>4
    <3>5. QED
      BY <3>2, <3>3, <3>4
  <2>6. QED
    BY <2>1, <2>5 DEF RateInv
<1>4. CASE UNCHANGED vars
  BY <1>4 DEF vars, RateInv
<1>5. QED
  BY <1>2, <1>3, <1>4 DEF Next

\* The past does not change; the windows that end now are those of the invariant.
LEMMA NextWithinRate ==
  ASSUME TypeInv, TypeInv', RateInv', WithinRate, [Next]_vars
  PROVE  WithinRate'
<1>1. /\ now \in Nat /\ now' \in Nat /\ now' \in 1 .. MaxTime /\ MaxTime \in Nat
      /\ \A c \in Clients : /\ admitted[c] \in [1 .. MaxTime -> Nat]
                             /\ admitted'[c] \in [1 .. MaxTime -> Nat]
  BY LimiterAssumption DEF TypeInv
<1>2. /\ now' <= now + 1
      /\ \A c \in Clients : \A t \in 1 .. MaxTime :
           t < now' => admitted'[c][t] = admitted[c][t]
  <2>1. CASE Second
    BY <1>1, <2>1 DEF Second
  <2>2. ASSUME NEW c \in Clients, Enforce(c)
        PROVE  /\ now' <= now + 1
               /\ \A d \in Clients : \A t \in 1 .. MaxTime :
                    t < now' => admitted'[d][t] = admitted[d][t]
    <3>1. \/ admitted' = admitted
          \/ admitted' = [admitted EXCEPT ![c][now] = @ + 1]
      BY <2>2 DEF Enforce
    <3>2. admitted \in [Clients -> [1 .. MaxTime -> Nat]] /\ now \in 1 .. MaxTime
      BY DEF TypeInv
    <3>3. ASSUME NEW d \in Clients, NEW t \in 1 .. MaxTime, t < now
          PROVE  admitted'[d][t] = admitted[d][t]
      <4>1. t # now
        BY <1>1, <3>3
      <4>2. CASE d = c
        <5>1. \/ admitted'[c] = admitted[c]
              \/ admitted'[c] = [admitted[c] EXCEPT ![now] = @ + 1]
          BY <3>1, <3>2
        <5>2. QED
          BY <1>1, <4>1, <4>2, <5>1
      <4>3. CASE d # c
        BY <3>1, <3>2, <4>3
      <4>4. QED
        BY <4>2, <4>3
    <3>4. now' = now
      BY <2>2 DEF Enforce
    <3>5. QED
      BY <1>1, <3>3, <3>4
  <2>3. CASE UNCHANGED vars
    BY <1>1, <2>3 DEF vars
  <2>4. QED
    BY <1>1, <2>1, <2>2, <2>3 DEF Next
<1>3. ASSUME NEW c \in Clients, NEW from \in 1 .. now', NEW to \in 1 .. now', from <= to
      PROVE  Minute * SumOf(admitted'[c], from, to) <= Capacity + (to - from) * PerMinute
  <2>1. from \in 1 .. MaxTime /\ to \in 1 .. MaxTime /\ from \in Nat /\ to \in Nat
    BY <1>1
  <2>2. CASE to = now'
    <3>1. PICK r \in 0 .. Capacity : Window(admitted'[c], r, from, to)
      BY <2>2 DEF RateInv
    <3>2. r \in Nat
      BY CapacityNatural
    <3>3. QED
      BY <1>1, <1>3, <2>1, <3>1, <3>2, WindowSteps
  <2>3. CASE to # now'
    <3>1. to \in 1 .. now /\ from \in 1 .. now
      BY <1>1, <1>2, <1>3, <2>1, <2>3
    <3>2. ASSUME NEW t \in from .. to
          PROVE  admitted'[c][t] = admitted[c][t]
      <4>1. to <= now' /\ from >= 1
        BY <1>1, <1>3, <2>1
      <4>2. t \in Nat /\ from <= t /\ t <= to
        BY <2>1
      <4>3. t \in 1 .. MaxTime /\ t < now'
        BY <1>1, <2>1, <2>3, <4>1, <4>2
      <4>4. QED
        BY <1>2, <4>3
    <3>3. SumOf(admitted'[c], from, to) = SumOf(admitted[c], from, to)
      <4> DEFINE f == admitted[c]
                 g == admitted'[c]
      <4>1. f \in [1 .. MaxTime -> Nat] /\ \A t \in from .. to : g[t] = f[t]
        BY <1>1, <3>2
      <4> HIDE DEF f, g
      <4>2. SumOf(g, from, to) = SumOf(f, from, to)
        BY <1>3, <2>1, <4>1, WindowSums
      <4>3. QED
        BY <4>2 DEF f, g
    <3>4. Minute * AdmittedIn(c, from, to) <= Capacity + (to - from) * PerMinute
      BY <1>3, <3>1 DEF WithinRate
    <3>5. QED
      BY <3>3, <3>4, SumOfAdmitted
  <2>4. QED
    BY <2>2, <2>3
<1>4. QED
  BY <1>3, SumOfAdmitted DEF WithinRate

\* The documented rate in any window of time: a full bucket and what the window
\* earns, however often the bucket was pruned meanwhile (allow and _prune_locked,
\* in hardening.py).
THEOREM RateKept ==
  Spec => []WithinRate
<1>1. Init => TypeInv /\ RateInv /\ WithinRate
  BY InitTypeInv, InitRate
<1>2. TypeInv /\ RateInv /\ WithinRate /\ [Next]_vars => TypeInv' /\ RateInv' /\ WithinRate'
  BY NextTypeInv, NextRateInv, NextWithinRate
<1>3. QED
  BY <1>1, <1>2, PTL DEF Spec
=============================================================================
