---------------------------- MODULE LookupCache ----------------------------
(***************************************************************************)
(* What the lookup services share: the bounded cache of values that are    *)
(* fresh, then stale, then gone (enrichment/route_cache.go), and the       *)
(* circuit breaker in front of an upstream (enrichment/service.go,         *)
(* routes.go).  A cache is the sequence of its entries, the most recently  *)
(* used first, as in the list the code keeps.                              *)
(***************************************************************************)
EXTENDS Integers, Sequences, FiniteSets, SequencesExt

VARIABLE clock   \* the time the services read, in ticks from 1

CachedKeys(cache) == {cache[i].key : i \in DOMAIN cache}
Place(cache, k) == CHOOSE i \in DOMAIN cache : cache[i].key = k
EntryOf(cache, k) == cache[Place(cache, k)]
Others(cache, k) == IF k \in CachedKeys(cache) THEN RemoveAt(cache, Place(cache, k)) ELSE cache

(* An entry holds a value, "found", or the error that was cached instead.  *)
Entry(k, value, ttl, staleTTL, now) ==
  [key |-> k, value |-> value, expires |-> now + ttl, staleAt |-> now + ttl + staleTTL]

Found(cache, k, now) == k \in CachedKeys(cache) /\ now < EntryOf(cache, k).staleAt
Stale(cache, k, now) == now >= EntryOf(cache, k).expires
Fresh(cache, k, now) == Found(cache, k, now) /\ ~Stale(cache, k, now)

(* A read moves the entry to the front, and removes one that is gone.      *)
AfterGet(cache, k, now) ==
  IF Found(cache, k, now)
  THEN <<EntryOf(cache, k)>> \o Others(cache, k)
  ELSE Others(cache, k)

AfterSet(cache, entry, max) ==
  LET written == <<entry>> \o Others(cache, entry.key)
  IN  SubSeq(written, 1, IF Len(written) > max THEN max ELSE Len(written))

(* Maps with a key written, and without one.                               *)
Put(f, k, v) == [o \in DOMAIN f \cup {k} |-> IF o = k THEN v ELSE f[o]]
Without(f, k) == [o \in DOMAIN f \ {k} |-> f[o]]

-----------------------------------------------------------------------------
(* The circuit.  0 is Go's zero time.                                      *)
Closed == [failures |-> 0, openUntil |-> 0, probing |-> FALSE]

Allows(circuit, now) ==
  \/ circuit.openUntil = 0
  \/ now >= circuit.openUntil /\ ~circuit.probing

AfterAllow(circuit) ==
  [circuit EXCEPT !.probing = circuit.openUntil # 0]

(* As if only a success ended a probe.                                     *)
AfterFailureProbing(circuit, now, threshold, openFor) ==
  LET failures == IF circuit.failures < threshold THEN circuit.failures + 1 ELSE threshold
  IN  [circuit EXCEPT !.failures = failures, !.openUntil = IF failures >= threshold THEN now + openFor ELSE @]

(* The count is only compared with the threshold: it stops there.          *)
AfterFailure(circuit, now, threshold, openFor) ==
  LET failures == IF circuit.failures < threshold THEN circuit.failures + 1 ELSE threshold
  IN  [failures |-> failures, probing |-> FALSE,
       openUntil |-> IF failures >= threshold THEN now + openFor ELSE circuit.openUntil]

-----------------------------------------------------------------------------
(* A queue of keys in front of the workers, with the set of pending keys:  *)
(* the request that finds the queue full takes the place of the oldest.    *)
Displaced(q, k, size) ==
  IF k \notin q.pending /\ Len(q.queue) = size THEN {Head(q.queue)} ELSE {}

(* As if the key of the request that is dropped stayed pending.            *)
QueuedLeaving(q, k, size) ==
  IF k \in q.pending THEN q
  ELSE [queue   |-> Append(IF Len(q.queue) = size THEN Tail(q.queue) ELSE q.queue, k),
        pending |-> q.pending \cup {k}]

Queued(q, k, size) ==
  IF k \in q.pending THEN q
  ELSE [queue   |-> Append(IF Len(q.queue) = size THEN Tail(q.queue) ELSE q.queue, k),
        pending |-> (q.pending \ Displaced(q, k, size)) \cup {k}]
=============================================================================
