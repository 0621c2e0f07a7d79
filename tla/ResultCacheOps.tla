--------------------------- MODULE ResultCacheOps ---------------------------
(***************************************************************************)
(* The operations of ResultCache (clusteriq_engine/cache.py) as operators  *)
(* on its value: the OrderedDict as the sequence of its entries, least     *)
(* recently used first, next to the running byte counter.  Each method     *)
(* holds the cache's lock, so each is one step.                            *)
(***************************************************************************)
EXTENDS Integers, SequencesExt

CONSTANTS MaxEntries,     \* CLUSTER_CACHE_SIZE, 0 disables the cache
          MaxTotalBytes   \* CLUSTER_CACHE_MB in bytes, 0 means no byte budget

ASSUME CacheAssumption == MaxEntries \in Nat /\ MaxTotalBytes \in Nat

EmptyCache == [store |-> <<>>, total |-> 0]

Enabled == MaxEntries > 0

CachedKeys(c) == {c.store[i].key : i \in DOMAIN c.store}

SizeOf(c, key) == LET i == SelectInSeq(c.store, LAMBDA e : e.key = key)
                  IN  IF i = 0 THEN 0 ELSE c.store[i].size

Bytes(store) == FoldLeft(LAMBDA sum, e : sum + e.size, 0, store)

\* del self._store[key]
Deleted(store, key) == RemoveFirstMatch(store, LAMBDA e : e.key = key)

-----------------------------------------------------------------------------
\* Faulty: a hit does not refresh the entry.
AfterCacheGetUntouched(c, key) == c

\* get: a hit moves the entry to the most recently used end.
AfterCacheGet(c, key) ==
  IF Enabled /\ key \in CachedKeys(c)
  THEN [c EXCEPT !.store = Append(Deleted(c.store, key),
                                  [key |-> key, size |-> SizeOf(c, key)])]
  ELSE c

Oversized(size) == MaxTotalBytes > 0 /\ size > MaxTotalBytes

Over(store, total) ==
  \/ Len(store) > MaxEntries
  \/ MaxTotalBytes > 0 /\ total > MaxTotalBytes

\* The loop of _evict_locked: pop the oldest entry, and take its size off the
\* counter, while the cache is over a limit.
Evicted(store, total) ==
  LET After(i) == [store |-> SubSeq(store, i + 1, Len(store)),
                   total |-> total - Bytes(SubSeq(store, 1, i))]
      Stops(i) == i = Len(store) \/ ~ Over(After(i).store, After(i).total)
  IN  After(CHOOSE i \in 0 .. Len(store) :
              Stops(i) /\ \A k \in 0 .. i - 1 : ~ Stops(k))

\* Faulty: a replaced entry is not taken off the counter.
AfterPutDrifting(c, key, size) ==
  IF ~ Enabled \/ Oversized(size) THEN c
  ELSE Evicted(Append(Deleted(c.store, key), [key |-> key, size |-> size]),
               c.total + size)

\* Faulty: the entry a key already has is not deleted first.
AfterPutDuplicating(c, key, size) ==
  IF ~ Enabled \/ Oversized(size) THEN c
  ELSE Evicted(Append(c.store, [key |-> key, size |-> size]), c.total + size)

AfterPut(c, key, size) ==
  IF ~ Enabled \/ Oversized(size) THEN c
  ELSE Evicted(Append(Deleted(c.store, key), [key |-> key, size |-> size]),
               c.total - SizeOf(c, key) + size)
=============================================================================
