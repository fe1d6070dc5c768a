------------------------- MODULE KAnonCacheManager --------------------------
(* KAnonCacheManager of a seller front end                                   *)
(* (src/services/seller_frontend_service/k_anon/k_anon_cache_manager.cc):    *)
(* which hashes are k-anonymous is answered from two sharded caches and, for *)
(* what they do not hold, by the k-anonymity service, whose answer is given  *)
(* to the caller and then cached. Requests run on threads of their own; each *)
(* operation on a shard is a step.                                           *)
(*                                                                           *)
(* The hashes a caller passes are views into its memory: this module assumes *)
(* that they stay valid until its answer has been cached.                    *)
EXTENDS Cache

CONSTANTS
    Requests,   \* calls of AreKAnonymous
    KShards,    \* k_anon_caches_, a sequence of caches
    NonShards,  \* non_k_anon_caches_
    HashSets    \* the sets of hashes callers ask about

KAnonAssumption ==
    /\ {KShards, NonShards} \subseteq Seq(CacheIds) \ {<<>>}
    /\ IsInjective(KShards \o NonShards) /\ ToSet(KShards \o NonShards) = CacheIds
    /\ HashSets \subseteq SUBSET Keys /\ \A hs \in HashSets : IsFiniteSet(hs)

VARIABLES
    enabled,  \* enable_k_anon_cache_
    req,      \* each request
    said,     \* each hash: what the service has said of it so far
    alive     \* the manager has not been destroyed

vars == <<caches, enabled, req, said, alive>>

AtWork == {"queryK", "queryNon", "resolve", "waiting", "insertK", "insertNon"}

TypeOK ==
    /\ CachesOK
    /\ enabled \in BOOLEAN /\ alive \in BOOLEAN
    /\ \A r \in Requests :
         /\ req[r].pc \in AtWork \cup {"idle", "done"}
         /\ req[r].shard \in Nat /\ req[r].hashes \subseteq Keys
         /\ req[r].kAnon \cup req[r].nonKAnon \subseteq req[r].hashes
         /\ req[r].calls \in Seq([ok : BOOLEAN, kAnon : SUBSET Keys])
    /\ said \in [Keys -> SUBSET BOOLEAN]

Init ==
    /\ caches = [i \in CacheIds |-> NewCache]
    /\ enabled \in BOOLEAN
    /\ req = [r \in Requests |->
          [pc |-> "idle", shard |-> 1, hashes |-> {}, kAnon |-> {}, nonKAnon |-> {},
           calls |-> <<>>]]
    /\ said = [h \in Keys |-> {}]
    /\ alive = TRUE

GetShardIndex(h, numShards) == h % numShards

\* The part of hs that shard s of a sharded cache is responsible for.
OfShard(hs, shards, s) == {h \in hs : GetShardIndex(h, Len(shards)) = s - 1}

Goto(r, pc) == req' = [req EXCEPT ![r].pc = pc, ![r].shard = 1]

\* After shard s of a sharded cache: the next one, or what follows.
NextShard(q, shards, pc) ==
    IF q.shard < Len(shards) THEN [q EXCEPT !.shard = @ + 1]
    ELSE [q EXCEPT !.shard = 1, !.pc = pc]

\* AreKAnonymous.
Ask(r, hs) ==
    /\ alive /\ req[r].pc = "idle"
    /\ req' = [req EXCEPT ![r].hashes = hs,
                          ![r].pc = IF enabled THEN "queryK" ELSE "resolve"]
    /\ UNCHANGED <<caches, enabled, said, alive>>

\* QueryShardedCaches, one shard at a time.
Query(r, shards, field, pc) ==
    LET q == req[r]
        i == shards[q.shard]
        hs == OfShard(q.hashes, shards, q.shard)
        found == [q EXCEPT ![field] = @ \cup FoundIn(caches[i], hs)]
    IN /\ \E order \in SetToSeqs(hs) :
            caches' = [caches EXCEPT ![i] = Queried(@, order)]
       /\ req' = [req EXCEPT ![r] = NextShard(found, shards, pc)]
       /\ UNCHANGED <<enabled, said, alive>>

QueryKAnon(r) == req[r].pc = "queryK" /\ Query(r, KShards, "kAnon", "queryNon")
QueryNonKAnon(r) == req[r].pc = "queryNon" /\ Query(r, NonShards, "nonKAnon", "resolve")

Unresolved(r) == req[r].hashes \ (req[r].kAnon \cup req[r].nonKAnon)

Callback(q, ok, hs) == [q EXCEPT !.calls = Append(@, [ok |-> ok, kAnon |-> hs])]

\* All hashes are resolved and the callback is called, or the service is asked,
\* which may fail at once: the caller then gets the status and no callback. The
\* empty set of hashes is resolved unless the caches are disabled.
Resolve(r) ==
    /\ req[r].pc = "resolve"
    /\ IF enabled /\ Unresolved(r) = {}
       THEN req' = [req EXCEPT ![r] =
                [Callback(@, TRUE, req[r].kAnon) EXCEPT !.pc = "done"]]
       ELSE Goto(r, "waiting") \/ Goto(r, "done")
    /\ UNCHANGED <<caches, enabled, said, alive>>

\* on_done_execute without an answer: what the cache knew.
AnswerFails(r) ==
    /\ req[r].pc = "waiting"
    /\ req' = [req EXCEPT ![r] =
           [Callback(@, FALSE, req[r].kAnon) EXCEPT !.pc = "done"]]
    /\ UNCHANGED <<caches, enabled, said, alive>>

\* on_done_execute with an answer: the hashes yes of those asked about. The
\* service may leave the sets out when yes is empty, and then nothing is cached.
Answer(r, yes, sets) ==
    /\ req[r].pc = "waiting"
    /\ yes \subseteq Unresolved(r) /\ (sets \/ yes = {})
    /\ said' = [h \in Keys |-> said[h] \cup
          (IF h \in yes THEN {TRUE} ELSE IF h \in Unresolved(r) THEN {FALSE} ELSE {})]
    /\ req' = [req EXCEPT ![r] =
           [Callback(@, TRUE, yes \cup req[r].kAnon) EXCEPT
                !.pc = IF enabled /\ sets THEN "insertK" ELSE "done"]]
    /\ UNCHANGED <<caches, enabled, alive>>

\* InsertShardedCaches, one shard at a time. The hashes found in the cache of
\* k-anonymous ones are inserted again, which resets their expiry.
Insert(r, shards, hs, pc) ==
    LET i == shards[req[r].shard]
    IN /\ \E order \in SetToSeqs(OfShard(hs, shards, req[r].shard)) :
            caches' = [caches EXCEPT ![i] = Inserted(@, order, Capacity[i])]
       /\ req' = [req EXCEPT ![r] = NextShard(@, shards, pc)]
       /\ UNCHANGED <<enabled, said, alive>>

ResolvedKAnon(r) == Last(req[r].calls).kAnon
AllUnresolved(r) == Unresolved(r)
ResolvedNonKAnon(r) == Unresolved(r) \ ResolvedKAnon(r)

InsertKAnon(r) ==
    req[r].pc = "insertK" /\ Insert(r, KShards, ResolvedKAnon(r), "insertNon")
InsertNonKAnon(r) ==
    req[r].pc = "insertNon" /\ Insert(r, NonShards, ResolvedNonKAnon(r), "done")

\* The destructors of the caches, when no request is being served.
Shutdown ==
    /\ alive /\ \A r \in Requests : req[r].pc \notin AtWork
    /\ alive' = FALSE
    /\ caches' = [i \in CacheIds |-> Destroyed(caches[i])]
    /\ UNCHANGED <<enabled, req, said>>

Background ==
    /\ \E i \in CacheIds, k \in Keys : Expiry(i, k)
    /\ UNCHANGED <<enabled, req, said, alive>>

Step(r) ==
    \/ QueryKAnon(r) \/ QueryNonKAnon(r) \/ Resolve(r)
    \/ AnswerFails(r) \/ \E yes \in SUBSET Keys, sets \in BOOLEAN : Answer(r, yes, sets)
    \/ InsertKAnon(r) \/ InsertNonKAnon(r)

Next ==
    \/ \E r \in Requests, hs \in HashSets : Ask(r, hs)
    \/ \E r \in Requests : Step(r)
    \/ Background
    \/ Shutdown

\* The event loop runs until the cache is destroyed and the executor runs what it
\* is given; nothing makes callers come or the service answer.
Spec == Init /\ [][Next]_vars /\ WF_vars(Background)

(***************************************************************************)
(* Properties                                                              *)
(***************************************************************************)
\* What callers are told and what the caches hold goes back to the service: a
\* hash is reported or cached as k-anonymous only if the service has said so of
\* it, and as not k-anonymous only if the service has left it out of an answer.
\* When the service fails (on_done_execute) nothing is cached and only what was
\* cached before is reported.
AnswersComeFromTheService ==
    /\ \A i \in CacheIds : \A h \in ToSet(caches[i].dll) :
         (i \in ToSet(KShards)) \in said[h]
    /\ \A r \in Requests : \A call \in ToSet(req[r].calls), h \in req[r].hashes :
         IF h \in call.kAnon THEN TRUE \in said[h]
         ELSE call.ok => FALSE \in said[h]

\* Insert makes enough room for its batch and does not stop before the last key
\* of a batch that fits, whichever of the keys were cached already and whichever
\* of those are evicted first (Insert, Evict).
BatchIsCached ==
    [][\A r \in Requests :
         /\ req[r].pc = "insertK" /\ req'[r] # req[r]
         /\ Cardinality(req[r].hashes) <= Capacity[KShards[req[r].shard]]
         => OfShard(ResolvedKAnon(r), KShards, req[r].shard)
              \subseteq ToSet(caches'[KShards[req[r].shard]].dll)]_vars

\* Once no request touches the caches any more every entry expires, however its
\* timer was reset before (EntryExpiryCallback).
EntriesExpire == <>[](\A i \in CacheIds : caches[i].dll = <<>>)
=============================================================================
