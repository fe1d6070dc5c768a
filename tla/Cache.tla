------------------------------- MODULE Cache --------------------------------
(* The LRU caches with expiry of src/services/common/cache: Cache in cache.h *)
(* over the list in doubly_linked_list.h. Query and Insert hold cache_mutex_ *)
(* throughout and are operators on the state of one cache; the timers of the *)
(* entries fire on the event loop and are served later, by closures on the   *)
(* executor, which are actions of this module. Values are left out: both     *)
(* users of the class look up whether a key is there.                        *)
(*                                                                           *)
(* The data of a timer (ExpiryEventData) is reclaimed through the Event of   *)
(* its entry, so a closure whose entry has gone since the timer fired may    *)
(* read freed memory: it then looks for its key or for anything else.        *)
EXTENDS Integers, SequencesExt

CONSTANTS
    CacheIds,  \* the caches of the process
    Keys,      \* the keys of their entries
    Capacity   \* capacity_ of each cache

CacheAssumption ==
    /\ Keys \subseteq Nat
    /\ Capacity \in [CacheIds -> Nat \ {0}]

VARIABLE caches  \* each cache, as a record of CacheStates

CacheStates ==
    [dll : Seq(Keys),          \* dll_ and hash_to_node_: most recently used first
     num_entries : Int,
     armed : SUBSET Keys,      \* entries whose timer is pending in the event loop
     fired : [Keys -> Nat],    \* closures on the executor for the entry of a key
     stale : [Keys -> Nat]]    \* closures whose entry has gone

NewCache == [dll |-> <<>>, num_entries |-> 0, armed |-> {},
             fired |-> [k \in Keys |-> 0], stale |-> [k \in Keys |-> 0]]

Has(c, k) == Contains(c.dll, k)

MoveToFront(c, k) == [c EXCEPT !.dll = <<k>> \o RemoveFirst(@, k)]

\* Unlinks a node. ~Event stops its timer and hands the timer's data to a closure
\* that reclaims it.
RemoveNode(c, k) ==
    [dll |-> RemoveFirst(c.dll, k), num_entries |-> c.num_entries - 1,
     armed |-> c.armed \ {k},
     fired |-> [c.fired EXCEPT ![k] = 0],
     stale |-> [c.stale EXCEPT ![k] = @ + c.fired[k]]]

\* The cache after Query, whose keys come in the order of a hash set.
QueryKey(c, k) == IF Has(c, k) THEN MoveToFront(c, k) ELSE c

Queried(c, order) ==
    LET after[n \in 0..Len(order)] == IF n = 0 THEN c ELSE QueryKey(after[n - 1], order[n])
    IN after[Len(order)]

FoundIn(c, ks) == {k \in ks : Has(c, k)}

\* At most n entries from the tail of the list.
EvictTail(c) == IF c.dll = <<>> THEN c ELSE RemoveNode(c, Last(c.dll))

Evicted(c, n) ==
    LET after[m \in 0..n] == IF m = 0 THEN c ELSE EvictTail(after[m - 1])
    IN IF n > 0 THEN after[n] ELSE c

\* An entry that is there gets a new timeout...
RefreshKeepsTimerOff(c, k) == [MoveToFront(c, k) EXCEPT !.armed = @ \ {k}]
Refreshed(c, k) == [MoveToFront(c, k) EXCEPT !.armed = @ \cup {k}]

\* ...and one that is not a node at the front with a timer.
Added(c, k) == [c EXCEPT !.dll = <<k>> \o @, !.num_entries = @ + 1,
                         !.armed = @ \cup {k}]

\* The room to make does not depend on which keys are there already.
OverflowShort(c, n, cap) == c.num_entries + n - 1 - cap
Overflow(c, n, cap) == c.num_entries + n - cap

\* One turn of the loop over the batch, which stops once it has filled the cache.
NextNeverFull(acc, k, cap) ==
    IF Has(acc.c, k) THEN [acc EXCEPT !.c = Refreshed(acc.c, k)]
    ELSE [acc EXCEPT !.c = Added(acc.c, k)]
NextEntry(acc, k, cap) ==
    IF acc.full THEN acc
    ELSE IF Has(acc.c, k) THEN [acc EXCEPT !.c = Refreshed(acc.c, k)]
    ELSE LET d == Added(acc.c, k)
         IN [c |-> d, full |-> d.num_entries = cap]

\* The cache after Insert of a batch in the order of a hash map.
Inserted(c, order, cap) ==
    LET after[n \in 0..Len(order)] ==
            IF n = 0 THEN [c |-> Evicted(c, Overflow(c, Len(order), cap)), full |-> FALSE]
            ELSE NextEntry(after[n - 1], order[n], cap)
    IN after[Len(order)].c

(***************************************************************************)
(* Expiry: the event loop, then the executor.                              *)
(***************************************************************************)
TimerFires(i, k) ==
    /\ k \in caches[i].armed
    /\ caches' = [caches EXCEPT ![i].armed = @ \ {k}, ![i].fired[k] = @ + 1]

ExpireEntry(i, k) ==
    /\ caches[i].fired[k] > 0
    /\ LET c == [caches[i] EXCEPT !.fired[k] = @ - 1]
       IN caches' = [caches EXCEPT ![i] = RemoveNode(c, k)]

ExpireStale(i, k) ==
    /\ caches[i].stale[k] > 0
    /\ \E found \in (SUBSET {k}) \cup {{l} : l \in Keys} :
         LET c == [caches[i] EXCEPT !.stale[k] = @ - 1]
         IN caches' = [caches EXCEPT
                ![i] = IF FoundIn(c, found) = {} THEN c
                       ELSE RemoveNode(c, CHOOSE l \in found : TRUE)]

Expiry(i, k) == TimerFires(i, k) \/ ExpireEntry(i, k) \/ ExpireStale(i, k)

\* ~Cache, once the event loop has stopped.
Destroyed(c) ==
    [NewCache EXCEPT !.stale = [k \in Keys |-> c.stale[k] + c.fired[k]]]

(***************************************************************************)
(* Properties of each cache                                                *)
(***************************************************************************)
\* num_entries_, the map and the list agree, no key is listed twice, and no
\* cache outgrows its capacity. No entry is left without anything that will
\* remove it: its timer is pending or a closure that will find it is on the
\* executor. (Insert resets timers, timers fire and entries are evicted in any
\* order.)
CachesOK ==
    /\ caches \in [CacheIds -> CacheStates]
    /\ \A i \in CacheIds :
         /\ IsInjective(caches[i].dll)
         /\ caches[i].num_entries = Len(caches[i].dll)
         /\ Len(caches[i].dll) <= Capacity[i]
         /\ ToSet(caches[i].dll)
              = caches[i].armed \cup {k \in Keys : caches[i].fired[k] > 0}
=============================================================================
