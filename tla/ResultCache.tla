----------------------------- MODULE ResultCache -----------------------------
(***************************************************************************)
(* The result cache of clusteriq_engine/cache.py: the event loop looks     *)
(* keys up, worker threads put bodies, in any order.  The hit and miss      *)
(* counters, which only /health reports, are left out.                     *)
(***************************************************************************)
EXTENDS ResultCacheOps

CONSTANTS Keys,    \* digests of (file, mapping, config)
          Sizes,   \* sizes a body may have; the size of one key's body may vary
          MaxOps   \* bound on the number of calls, for TLC

ASSUME SizesAssumption == Sizes \subseteq Nat

ASSUME BoundAssumption == MaxOps \in Nat

VARIABLES cache,   \* _store and _total_bytes
          clock,   \* how many calls were made
          used     \* used[k]: the last call that put or hit k, 0 if none

vars == <<cache, clock, used>>

Init ==
  /\ cache = EmptyCache
  /\ clock = 0
  /\ used = [k \in Keys |-> 0]

Call == clock < MaxOps /\ clock' = clock + 1

Get(key) ==
  /\ Call
  /\ cache' = AfterCacheGet(cache, key)
  /\ used' = IF key \in CachedKeys(cache)
             THEN [used EXCEPT ![key] = clock'] ELSE used

Put(key, size) ==
  /\ Call
  /\ cache' = AfterPut(cache, key, size)
  /\ used' = IF key \in CachedKeys(cache') /\ ~ Oversized(size)
             THEN [used EXCEPT ![key] = clock'] ELSE used

Next == \E key \in Keys : Get(key) \/ \E size \in Sizes : Put(key, size)

Spec == Init /\ [][Next]_vars

-----------------------------------------------------------------------------

\* Type correctness of the store and its counters; no key is held twice.
TypeOK ==
  /\ cache \in [store : Seq([key : Keys, size : Sizes]), total : Nat]
  /\ \A i, j \in DOMAIN cache.store :
       cache.store[i].key = cache.store[j].key => i = j
  /\ clock \in 0 .. MaxOps
  /\ used \in [Keys -> 0 .. clock]

\* "Bounded by entry count AND total bytes" (header of cache.py), measured on
\* the entries: both limits hold after every call, a disabled cache holds
\* nothing, and the incremental byte counter, on which the code bases its
\* evictions, does not drift from the entries through replacements, evictions
\* and refused bodies.
WithinLimits ==
  /\ Len(cache.store) <= MaxEntries
  /\ MaxTotalBytes > 0 => Bytes(cache.store) <= MaxTotalBytes
  /\ cache.total = Bytes(cache.store)

\* "Least-recently-used eviction": a call that drops an entry drops one that was
\* used longer ago than every entry it keeps, and none that the limits leave room
\* for: the most recent of the dropped would not have fitted with those kept.
EvictsRightly ==
  [][LET dropped == {k \in DOMAIN cache.store :
                       cache.store[k].key \notin CachedKeys(cache')}
     IN  /\ \A k \in dropped, kept \in CachedKeys(cache) \cap CachedKeys(cache') :
              used[cache.store[k].key] < used'[kept]
         /\ \A i \in dropped : (\A k \in dropped : k <= i)
              => LET back == <<cache.store[i]>> \o cache'.store
                 IN  Over(back, Bytes(back))]_vars
=============================================================================
