--------------------------- MODULE MCSharedState ----------------------------
(* What the threads and the requests of a server share: the tracker of one    *)
(* request's tasks, the caches of the k-anonymity manager and a buyer's window *)
(* of request sizes in the seller front end, and the two windows of a buyer    *)
(* front end. None of the four is read by those who use another, so each is    *)
(* explored by itself (part).                                                  *)
EXTENDS AsyncTaskTracker, TLC

CONSTANTS
    t1, t2, t3,
    k1, n1, n2,
    Parts,           \* "tracker", "kAnon", "seller", "buyer"
    CacheIds, Keys, Capacity,
    Requests, KShards, NonShards, HashSets,
    Auction, SellerWindow, Payload, SellerFixed,
    Reactor, BuyerWindow, Size, Duration, BuyerFixed

VARIABLES
    part,
    caches, enabled, req, said, alive,
    window, auction, sent, failed,
    size, duration, request, crashed

\* Three tasks: enough for two threads to meet at the lock while a third has been
\* counted, and for every sign of the summary.
MCTask == {t1, t2, t3}

\* A cache of k-anonymous hashes for two of three hashes, and two shards for one
\* other hash each.
MCCacheIds == {k1, n1, n2}
MCCapacity == [i \in MCCacheIds |-> IF i = k1 THEN 2 ELSE 1]
MCKShards == <<k1>>
MCNonShards == <<n1, n2>>
MCHashSets == {{1, 2}, {2, 3}, {1, 3}}

\* Sizes of requests that differ in more than one, so that an average is not one of
\* them, in a window of two samples. Windows of three in the buyer front end: a
\* median may be either of two values, and a window can hold equal samples.
Seller == INSTANCE SellerChaffing
         WITH WindowSize <- SellerWindow, FixedSize <- SellerFixed, req <- auction
Buyer == INSTANCE BuyerChaffing
         WITH WindowSize <- BuyerWindow, Fixed <- BuyerFixed

KAnon == INSTANCE KAnonCacheManager

ASSUME CachesAssumption == KAnon!CacheAssumption /\ KAnon!KAnonAssumption
ASSUME WindowsAssumption == Seller!SellerChaffingAssumption /\ Buyer!BuyerChaffingAssumption

kAnonVars == <<caches, enabled, req, said, alive>>
sellerVars == <<window, auction, sent, failed>>
buyerVars == <<size, duration, request, crashed>>
allVars == <<part, vars, kAnonVars, sellerVars, buyerVars>>

-----------------------------------------------------------------------------

SharedStateInit ==
    /\ part \in Parts
    /\ part # "kAnon" => enabled = TRUE
    /\ Init /\ KAnon!Init /\ Seller!Init /\ Buyer!Init

Using(p) == part = p /\ UNCHANGED part

SharedStateNext ==
    \/ Using("tracker") /\ Next /\ UNCHANGED <<kAnonVars, sellerVars, buyerVars>>
    \/ Using("kAnon") /\ KAnon!Next /\ UNCHANGED <<vars, sellerVars, buyerVars>>
    \/ Using("seller") /\ Seller!Next /\ UNCHANGED <<vars, kAnonVars, buyerVars>>
    \/ Using("buyer") /\ Buyer!Next /\ UNCHANGED <<vars, kAnonVars, sellerVars>>

\* As in Spec of AsyncTaskTracker and of KAnonCacheManager; the other two assume no
\* fairness.
SharedStateFairness ==
    /\ \A t \in Task :
         WF_allVars(/\ Using("tracker") /\ InTaskCompleted(t)
                    /\ UNCHANGED <<kAnonVars, sellerVars, buyerVars>>)
    /\ WF_allVars(/\ Using("kAnon") /\ KAnon!Background
                  /\ UNCHANGED <<vars, sellerVars, buyerVars>>)

SharedStateSpec ==
    SharedStateInit /\ [][SharedStateNext]_allVars /\ SharedStateFairness

-----------------------------------------------------------------------------

\* The type invariants of the caches and of the windows, and the inductive invariant of
\* the tracker, of which its type is a part: counters, lock and flags agree with the tasks.
TypesOK == IInv /\ KAnon!TypeOK /\ Seller!TypeOK /\ Buyer!TypeOK

\* What callers are told and what the caches hold goes back to the service.
AnswersComeFromTheService == KAnon!AnswersComeFromTheService

\* Insert makes room for every key of its batch.
BatchIsCached == KAnon!BatchIsCached

\* Once no request touches the caches any more every entry expires.
EntriesExpire == KAnon!EntriesExpire

\* The median of each window is that of its samples, whichever reactors sample and
\* read it. A seller's chaff passes for a request, as long as no RPC to the buyer has
\* failed, and is padded to the fixed size only until the window is full; a buyer
\* answers it, with both medians or with both fixed values.
ChaffFollowsTheWindows ==
    /\ Seller!WindowHasItsMedian /\ Buyer!WindowsHaveTheirMedians
    /\ Seller!ChaffLooksReal /\ Seller!PaddedOnlyUntilFilled /\ Buyer!ChaffIsAnswered

\* A buyer's full window takes more samples.
SamplingGoesOn == Buyer!SamplingGoesOn
=============================================================================
