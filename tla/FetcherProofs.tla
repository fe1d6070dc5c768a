--------------------------- MODULE FetcherProofs ---------------------------
(* Proofs about the fetchers that MCFetchers composes.                        *)
(*                                                                            *)
(* PeriodicUrlFetcher and the HttpFetcher it uses: for any requests, batches, *)
(* workers and capacity, of either fetcher, every request has one owner from  *)
(* when it is made until it has been answered, and the callback of a batch is *)
(* called with its last answer. An owner is a place of the code that will     *)
(* call the callback; a step moves a request from one place to another, and   *)
(* the lemmas say what that does to their number.                             *)
(*                                                                            *)
(* UdfFetch: for any number of fetchers, sources and contents, however often  *)
(* what is published changes and whatever fails, a service that has started   *)
(* has the code of each of its fetchers, and a buyer's reporting function is  *)
(* the one it publishes for the auction.                                      *)
EXTENDS MCFetchers, FiniteSetTheorems, TLAPS


(***************************************************************************)
(* The inductive invariant.                                                *)
(***************************************************************************)
\* The places where a request can be.
Queued(r) == {w \in Workers : r \in ToSet(queue[w])}
Held(r) == {w \in Workers : holding[w] = r}
Posted(r) == {w \in Workers : r \in posted[w]}
InMulti(r) == {w \in Workers : r \in multi[w]}
Tasked(r) == {t \in tasks : t[1] = r}
Transferring(r) == IF r \in transfers THEN 1 ELSE 0

\* A request that was not dropped has one owner once it is made, and none before.
OwnedOnce ==
    \A r \in Requests \ dropped : Owners(r) = IF r \in issued THEN 1 ELSE 0

\* Only requests that were made are dropped, or on their way into the set of handles.
OnlyIssued == dropped \cup adding \cup handles \subseteq issued

\* pending_results counts the requests of a batch without an answer, and the callback
\* of the batch has been called when there are none.
Unanswered(batch) == {r \in ToSet(Urls[batch]) : answers[r] = <<>>}
BatchCounted(batch) ==
    /\ pending[batch] = Cardinality(Unanswered(batch))
    /\ allDone[batch] = IF Unanswered(batch) = {} THEN 1 ELSE 0
BatchesCounted ==
    \A batch \in Batches : ToSet(Urls[batch]) \cap dropped = {} => BatchCounted(batch)

HttpInv == HttpTypeOK /\ OwnedOnce /\ OnlyIssued /\ BatchesCounted

\* The runs that have not begun have asked for nothing, and one that is in the loop
\* of FetchUrls not for everything.
RunsInOrder ==
    /\ \A k \in 1..Len(Rounds) : k > round => ToSet(Urls[Rounds[k]]) \cap issued = {}
    /\ sync = "fetch" =>
           /\ round > 0
           /\ Cardinality(ToSet(Urls[Rounds[round]]) \cap issued) < Len(Urls[Rounds[round]])

FetchInv == TypeOK /\ HttpInv /\ RunsInOrder

(***************************************************************************)
(* Sequences without repetition, and sets that gain or lose an element.    *)
(***************************************************************************)
\* A queue after a new entry at its front.
LEMMA ConsFields ==
    ASSUME NEW S, NEW q \in Seq(S), NEW r \in S
    PROVE  /\ <<r>> \o q \in Seq(S) /\ Len(<<r>> \o q) = Len(q) + 1
           /\ ToSet(<<r>> \o q) = ToSet(q) \cup {r}
           /\ IsInjective(q) /\ r \notin ToSet(q) => IsInjective(<<r>> \o q)
<1> DEFINE p == <<r>> \o q
<1>1. p \in Seq(S) /\ Len(p) = Len(q) + 1 /\ Len(q) \in Nat
  OBVIOUS
<1>2. p[1] = r /\ \A i \in 1..Len(q) : p[i + 1] = q[i]
  OBVIOUS
<1>3. DOMAIN p = 1..Len(q) + 1 /\ DOMAIN q = 1..Len(q)
  BY <1>1
<1>4. \A i \in DOMAIN p : i = 1 \/ (i - 1 \in DOMAIN q /\ p[i] = q[i - 1])
  BY <1>1, <1>2, <1>3
<1>5. \A i \in DOMAIN q : i + 1 \in DOMAIN p /\ p[i + 1] = q[i]
  BY <1>1, <1>2, <1>3
<1>6. 1 \in DOMAIN p
  BY <1>1, <1>3
<1> HIDE DEF p
<1>7. ToSet(p) = ToSet(q) \cup {r}
  BY <1>2, <1>4, <1>5, <1>6 DEF ToSet
<1>8. ASSUME IsInjective(q), r \notin ToSet(q) PROVE IsInjective(p)
  <2> SUFFICES ASSUME NEW i \in DOMAIN p, NEW j \in DOMAIN p, p[i] = p[j]
               PROVE  i = j
    BY DEF IsInjective
  <2>1. CASE i = 1 /\ j # 1
    BY <1>2, <1>4, <1>8, <2>1 DEF ToSet
  <2>2. CASE i # 1 /\ j = 1
    BY <1>2, <1>4, <1>8, <2>2 DEF ToSet
  <2>3. CASE i # 1 /\ j # 1
    <3>1. q[i - 1] = q[j - 1] /\ i - 1 \in DOMAIN q /\ j - 1 \in DOMAIN q
      BY <1>4, <2>3
    <3>2. i - 1 = j - 1
      BY <1>8, <3>1 DEF IsInjective
    <3> QED
      BY <1>1, <1>3, <3>2
  <2> QED
    BY <2>1, <2>2, <2>3
<1> QED
  BY <1>1, <1>7, <1>8 DEF p

\* A queue without its oldest entry.
LEMMA FrontFields ==
    ASSUME NEW S, NEW q \in Seq(S), q # <<>>, IsInjective(q)
    PROVE  /\ Front(q) \in Seq(S) /\ Len(Front(q)) = Len(q) - 1
           /\ IsInjective(Front(q)) /\ Last(q) \in S /\ Last(q) \in ToSet(q)
           /\ ToSet(Front(q)) = ToSet(q) \ {Last(q)}
<1> DEFINE p == Front(q)
<1>1. Len(q) \in Nat /\ Len(q) > 0 /\ DOMAIN q = 1..Len(q)
  OBVIOUS
<1>2. p \in Seq(S) /\ Len(p) = Len(q) - 1 /\ \A i \in 1..Len(q) - 1 : p[i] = q[i]
  BY <1>1 DEF Front
<1>3. DOMAIN p = 1..Len(q) - 1
  BY <1>2
<1>4. Last(q) = q[Len(q)] /\ Len(q) \in DOMAIN q
  BY <1>1 DEF Last
<1> HIDE DEF p
<1>5. \A i \in DOMAIN p : i \in DOMAIN q /\ i # Len(q) /\ p[i] = q[i]
  BY <1>1, <1>2, <1>3
<1>6. \A i \in DOMAIN q : i # Len(q) => i \in DOMAIN p
  BY <1>1, <1>3
<1>7. IsInjective(p)
  BY <1>5 DEF IsInjective
<1>8. ToSet(p) = ToSet(q) \ {Last(q)}
  BY <1>4, <1>5, <1>6 DEF ToSet, IsInjective
<1>9. Last(q) \in S /\ Last(q) \in ToSet(q)
  BY <1>1, <1>4 DEF ToSet
<1> QED
  BY <1>2, <1>7, <1>8, <1>9 DEF p

\* A sequence without repetition is as long as its set of elements is large.
LEMMA SizeOfSequence ==
    ASSUME NEW S, NEW q \in Seq(S), IsInjective(q)
    PROVE  IsFiniteSet(ToSet(q)) /\ Cardinality(ToSet(q)) = Len(q)
<1>1. Len(q) \in Nat /\ DOMAIN q = 1..Len(q)
  OBVIOUS
<1>2. q \in Bijection(1..Len(q), ToSet(q))
  BY <1>1 DEF IsInjective, ToSet, Bijection, Injection, Surjection
<1>3. IsFiniteSet(1..Len(q)) /\ Cardinality(1..Len(q)) = Len(q)
  BY <1>1, FS_Interval
<1> QED
  BY <1>2, <1>3, FS_Bijection DEF ExistsBijection

\* Sizes of finite sets.
LEMMA Sizes ==
    ASSUME NEW S, IsFiniteSet(S), NEW x
    PROVE  /\ Cardinality(S) \in Nat /\ (Cardinality(S) = 0 <=> S = {})
           /\ x \notin S => Cardinality(S \cup {x}) = Cardinality(S) + 1
           /\ x \in S => Cardinality(S \ {x}) = Cardinality(S) - 1
           /\ Cardinality({x}) = 1
BY FS_CardinalityType, FS_EmptySet, FS_AddElement, FS_RemoveElement, FS_Singleton

(***************************************************************************)
(* Owners.                                                                 *)
(***************************************************************************)
\* The number of owners of a request is the sum of the numbers of its places.
LEMMA OwnerSizes ==
    ASSUME HttpTypeOK, IsFiniteSet(Workers), NEW r \in Requests
    PROVE  /\ IsFiniteSet(Queued(r)) /\ IsFiniteSet(Held(r)) /\ IsFiniteSet(Posted(r))
           /\ IsFiniteSet(InMulti(r)) /\ IsFiniteSet(Tasked(r))
           /\ Transferring(r) \in 0..1
           /\ Len(answers[r]) \in Nat /\ (Len(answers[r]) = 0 <=> answers[r] = <<>>)
<1>1. /\ IsFiniteSet(Queued(r)) /\ IsFiniteSet(Held(r)) /\ IsFiniteSet(Posted(r))
      /\ IsFiniteSet(InMulti(r))
  BY FS_Subset DEF Queued, Held, Posted, InMulti
<1>2. IsFiniteSet(Tasked(r))
  <2>1. Tasked(r) \in SUBSET {<<r, "ok">>, <<r, "error">>}
    BY DEF HttpTypeOK, Tasked, Results
  <2>2. IsFiniteSet({<<r, "ok">>} \cup {<<r, "error">>})
    BY FS_Singleton, FS_AddElement
  <2>3. {<<r, "ok">>} \cup {<<r, "error">>} = {<<r, "ok">>, <<r, "error">>}
    OBVIOUS
  <2> QED
    BY <2>1, <2>2, <2>3, FS_Subset
<1>3. answers[r] \in Seq(Results)
  BY DEF HttpTypeOK
<1> QED
  BY <1>1, <1>2, <1>3 DEF Transferring

\* Each kind of owner is counted by a natural number, zero when there is none.
LEMMA OwnersAreNumbers ==
    ASSUME HttpTypeOK, IsFiniteSet(Workers), NEW r \in Requests
    PROVE  /\ Cardinality(Queued(r)) \in Nat /\ (Cardinality(Queued(r)) = 0 <=> Queued(r) = {})
           /\ Cardinality(Held(r)) \in Nat /\ (Cardinality(Held(r)) = 0 <=> Held(r) = {})
           /\ Cardinality(Posted(r)) \in Nat /\ (Cardinality(Posted(r)) = 0 <=> Posted(r) = {})
           /\ Cardinality(InMulti(r)) \in Nat
           /\ (Cardinality(InMulti(r)) = 0 <=> InMulti(r) = {})
           /\ Cardinality(Tasked(r)) \in Nat /\ (Cardinality(Tasked(r)) = 0 <=> Tasked(r) = {})
BY OwnerSizes, Sizes

\* Owners, term by term, before and after a step.
LEMMA OwnersIsASum ==
    ASSUME NEW r
    PROVE  /\ Owners(r) = Cardinality(Queued(r)) + Cardinality(Held(r))
                + Cardinality(Posted(r)) + Cardinality(InMulti(r))
                + Cardinality(Tasked(r)) + Transferring(r) + Len(answers[r])
           /\ Owners(r)' = Cardinality(Queued(r)') + Cardinality(Held(r)')
                + Cardinality(Posted(r)') + Cardinality(InMulti(r)')
                + Cardinality(Tasked(r)') + Transferring(r)' + Len(answers'[r])
BY DEF Owners, Queued, Held, Posted, InMulti, Tasked, Transferring

\* The terms of the sum, in a state of the invariant and in the one after a step.
OwnersAddUp(r) ==
    /\ Cardinality(Queued(r)) \in Nat /\ Cardinality(Held(r)) \in Nat
    /\ Cardinality(Posted(r)) \in Nat /\ Cardinality(InMulti(r)) \in Nat
    /\ Cardinality(Tasked(r)) \in Nat /\ Transferring(r) \in Nat
    /\ Len(answers[r]) \in Nat
    /\ Owners(r) = Cardinality(Queued(r)) + Cardinality(Held(r))
         + Cardinality(Posted(r)) + Cardinality(InMulti(r))
         + Cardinality(Tasked(r)) + Transferring(r) + Len(answers[r])
    /\ Owners(r)' = Cardinality(Queued(r)') + Cardinality(Held(r)')
         + Cardinality(Posted(r)') + Cardinality(InMulti(r)')
         + Cardinality(Tasked(r)') + Transferring(r)' + Len(answers'[r])

\* Owners is the sum of what each kind has, before a step and after it.
LEMMA OwnerTerms ==
    ASSUME HttpFetcherAssumption, HttpInv, NEW r \in Requests
    PROVE  OwnersAddUp(r)
<1>1. HttpTypeOK /\ IsFiniteSet(Workers)
  BY DEF HttpInv, HttpFetcherAssumption
<1>2. Transferring(r) \in Nat
  BY DEF Transferring
<1> QED
  BY <1>1, <1>2, OwnersAreNumbers, OwnerSizes, OwnersIsASum DEF OwnersAddUp

\* The places of a request are finite sets.
LEMMA PlacesAreFinite ==
    ASSUME HttpFetcherAssumption, HttpInv, NEW r \in Requests
    PROVE  /\ IsFiniteSet(Queued(r)) /\ IsFiniteSet(Held(r)) /\ IsFiniteSet(Posted(r))
           /\ IsFiniteSet(InMulti(r)) /\ IsFiniteSet(Tasked(r))
BY OwnerSizes DEF HttpInv, HttpFetcherAssumption

\* A request before it is made is nowhere.
LEMMA NowhereYet ==
    ASSUME HttpTypeOK, IsFiniteSet(Workers), NEW r \in Requests, Owners(r) = 0
    PROVE  /\ Queued(r) = {} /\ Held(r) = {} /\ Posted(r) = {} /\ InMulti(r) = {}
           /\ Tasked(r) = {} /\ Transferring(r) = 0 /\ answers[r] = <<>>
<1>1. PICK q \in Nat, h \in Nat, p \in Nat, m \in Nat, t \in Nat, x \in Nat, y \in Nat :
          /\ q = Cardinality(Queued(r)) /\ h = Cardinality(Held(r))
          /\ p = Cardinality(Posted(r)) /\ m = Cardinality(InMulti(r))
          /\ t = Cardinality(Tasked(r)) /\ x = Transferring(r) /\ y = Len(answers[r])
  <2>1. Transferring(r) \in Nat
    BY DEF Transferring
  <2>2. /\ Cardinality(Queued(r)) \in Nat /\ Cardinality(Held(r)) \in Nat
        /\ Cardinality(Posted(r)) \in Nat /\ Cardinality(InMulti(r)) \in Nat
        /\ Cardinality(Tasked(r)) \in Nat
    BY OwnersAreNumbers
  <2>3. Len(answers[r]) \in Nat
    BY OwnerSizes
  <2> QED
    BY <2>1, <2>2, <2>3, Zenon
<1>2. q + h + p + m + t + x + y = 0
  BY <1>1, OwnersIsASum, Zenon
<1>3. q = 0 /\ h = 0 /\ p = 0 /\ m = 0 /\ t = 0 /\ x = 0 /\ y = 0
  BY <1>2
<1>4. /\ Cardinality(Queued(r)) = 0 /\ Cardinality(Held(r)) = 0
      /\ Cardinality(Posted(r)) = 0 /\ Cardinality(InMulti(r)) = 0
      /\ Cardinality(Tasked(r)) = 0 /\ Transferring(r) = 0 /\ Len(answers[r]) = 0
  BY <1>1, <1>3, Zenon
<1> QED
  BY <1>4, OwnersAreNumbers, OwnerSizes

\* A request that is somewhere is nowhere else.
LEMMA OnlyOnce ==
    ASSUME HttpTypeOK, IsFiniteSet(Workers), NEW r \in Requests, Owners(r) = 1
    PROVE  /\ Queued(r) # {} => /\ Held(r) = {} /\ Posted(r) = {} /\ InMulti(r) = {}
                                /\ Tasked(r) = {} /\ Transferring(r) = 0
                                /\ answers[r] = <<>> /\ Cardinality(Queued(r)) = 1
           /\ Held(r) # {} => Posted(r) = {}
           /\ Posted(r) # {} => InMulti(r) = {} /\ Tasked(r) = {}
           /\ InMulti(r) # {} => Tasked(r) = {}
           /\ Transferring(r) = 1 => Tasked(r) = {} /\ answers[r] = <<>>
           /\ Tasked(r) # {} => answers[r] = <<>>
<1>1. PICK q \in Nat, h \in Nat, p \in Nat, m \in Nat, t \in Nat, x \in Nat, y \in Nat :
          /\ q = Cardinality(Queued(r)) /\ h = Cardinality(Held(r))
          /\ p = Cardinality(Posted(r)) /\ m = Cardinality(InMulti(r))
          /\ t = Cardinality(Tasked(r)) /\ x = Transferring(r) /\ y = Len(answers[r])
  <2>1. Transferring(r) \in Nat
    BY DEF Transferring
  <2>2. /\ Cardinality(Queued(r)) \in Nat /\ Cardinality(Held(r)) \in Nat
        /\ Cardinality(Posted(r)) \in Nat /\ Cardinality(InMulti(r)) \in Nat
        /\ Cardinality(Tasked(r)) \in Nat
    BY OwnersAreNumbers
  <2>3. Len(answers[r]) \in Nat
    BY OwnerSizes
  <2> QED
    BY <2>1, <2>2, <2>3, Zenon
<1>2. q + h + p + m + t + x + y = 1
  BY <1>1, OwnersIsASum, Zenon
<1>3. /\ q # 0 => h = 0 /\ p = 0 /\ m = 0 /\ t = 0 /\ x = 0 /\ y = 0 /\ q = 1
      /\ h # 0 => p = 0
      /\ p # 0 => m = 0 /\ t = 0
      /\ m # 0 => t = 0
      /\ x = 1 => t = 0 /\ y = 0
      /\ t # 0 => y = 0
  BY <1>2
<1>4. /\ (q = 0 <=> Queued(r) = {}) /\ (h = 0 <=> Held(r) = {})
      /\ (p = 0 <=> Posted(r) = {}) /\ (m = 0 <=> InMulti(r) = {})
      /\ (t = 0 <=> Tasked(r) = {}) /\ (y = 0 <=> answers[r] = <<>>)
  BY <1>1, OwnersAreNumbers, OwnerSizes
<1> QED
  BY <1>1, <1>3, <1>4

(***************************************************************************)
(* Answers and batches.                                                    *)
(***************************************************************************)
\* Unanswered requests of a batch are finitely many; at first they are all of it.
LEMMA BatchSizes ==
    ASSUME HttpFetcherAssumption, NEW batch \in Batches
    PROVE  /\ IsFiniteSet(ToSet(Urls[batch])) /\ Cardinality(ToSet(Urls[batch])) = Len(Urls[batch])
           /\ Urls[batch] \in Seq(Requests) /\ ToSet(Urls[batch]) \subseteq Requests
           /\ IsInjective(Urls[batch])
           /\ IsFiniteSet(Unanswered(batch)) /\ Cardinality(Unanswered(batch)) \in Nat
           /\ Cardinality(Unanswered(batch)) = 0 <=> Unanswered(batch) = {}
<1>1. Urls[batch] \in Seq(Requests) /\ IsInjective(Urls[batch])
  BY DEF HttpFetcherAssumption
<1>2. IsFiniteSet(ToSet(Urls[batch])) /\ Cardinality(ToSet(Urls[batch])) = Len(Urls[batch])
  BY <1>1, SizeOfSequence
<1>3. ToSet(Urls[batch]) \subseteq Requests
  BY <1>1 DEF ToSet
<1>4. IsFiniteSet(Unanswered(batch))
  BY <1>2, FS_Subset DEF Unanswered
<1> QED
  BY <1>1, <1>2, <1>3, <1>4, FS_CardinalityType, FS_EmptySet

\* What a callback does: one more answer, and one pending result less for its batch,
\* whose own callback comes with the last.
LEMMA AnswerKeeps ==
    ASSUME HttpFetcherAssumption, HttpTypeOK, BatchesCounted,
           NEW r \in Requests, NEW result \in Results, Answer(r, result),
           dropped \subseteq dropped', r \notin dropped' => answers[r] = <<>>
    PROVE  /\ answers' \in [Requests -> Seq(Results)]
           /\ pending' \in [Batches -> Int] /\ allDone' \in [Batches -> Nat]
           /\ Len(answers'[r]) = Len(answers[r]) + 1
           /\ \A s \in Requests \ {r} : answers'[s] = answers[s]
           /\ BatchesCounted'
<1>1. /\ answers \in [Requests -> Seq(Results)]
      /\ pending \in [Batches -> Int] /\ allDone \in [Batches -> Nat]
  BY DEF HttpTypeOK
<1>2. /\ answers' = [answers EXCEPT ![r] = Append(@, result)]
      /\ pending' = [batch \in Batches |->
             IF r \in ToSet(Urls[batch]) THEN pending[batch] - 1 ELSE pending[batch]]
      /\ allDone' = [batch \in Batches |->
             IF r \in ToSet(Urls[batch]) /\ pending[batch] = 1 THEN allDone[batch] + 1
             ELSE allDone[batch]]
  BY DEF Answer, LastResult
<1>3. /\ answers[r] \in Seq(Results) /\ Append(answers[r], result) \in Seq(Results)
      /\ Len(Append(answers[r], result)) = Len(answers[r]) + 1
      /\ Append(answers[r], result) # <<>>
  BY <1>1
<1>4. /\ answers' \in [Requests -> Seq(Results)]
      /\ Len(answers'[r]) = Len(answers[r]) + 1 /\ answers'[r] # <<>>
      /\ \A s \in Requests \ {r} : answers'[s] = answers[s]
  BY <1>1, <1>2, <1>3
<1>5. pending' \in [Batches -> Int] /\ allDone' \in [Batches -> Nat]
  BY <1>1, <1>2
<1>6. BatchesCounted'
  <2> SUFFICES ASSUME NEW batch \in Batches, ToSet(Urls[batch]) \cap dropped' = {}
               PROVE  BatchCounted(batch)'
    BY DEF BatchesCounted
  <2>1. BatchCounted(batch)
    BY DEF BatchesCounted
  <2>2. /\ ToSet(Urls[batch]) \subseteq Requests /\ IsFiniteSet(Unanswered(batch))
        /\ Cardinality(Unanswered(batch)) \in Nat
        /\ Cardinality(Unanswered(batch)) = 0 <=> Unanswered(batch) = {}
    BY BatchSizes
  <2>3. Unanswered(batch)' = {s \in ToSet(Urls[batch]) : answers'[s] = <<>>}
    BY DEF Unanswered
  <2>4. CASE r \notin ToSet(Urls[batch])
    <3>1. Unanswered(batch)' = Unanswered(batch)
      BY <1>4, <2>2, <2>3, <2>4 DEF Unanswered
    <3>2. pending'[batch] = pending[batch] /\ allDone'[batch] = allDone[batch]
      BY <1>2, <2>4
    <3> QED
      BY <2>1, <3>1, <3>2 DEF BatchCounted
  <2>5. CASE r \in ToSet(Urls[batch])
    <3>1. r \in Unanswered(batch)
      BY <2>5 DEF Unanswered
    <3>2. Unanswered(batch)' = Unanswered(batch) \ {r}
      BY <1>4, <2>2, <2>3 DEF Unanswered
    <3>3. /\ Cardinality(Unanswered(batch)') = Cardinality(Unanswered(batch)) - 1
          /\ IsFiniteSet(Unanswered(batch)')
      BY <2>2, <3>1, <3>2, FS_RemoveElement
    <3>4. Cardinality(Unanswered(batch)') = 0 <=> Unanswered(batch)' = {}
      BY <3>3, FS_EmptySet
    <3>5. pending'[batch] = pending[batch] - 1
          /\ allDone'[batch] = IF pending[batch] = 1 THEN allDone[batch] + 1 ELSE allDone[batch]
      BY <1>2, <2>5
    <3>6. pending[batch] = Cardinality(Unanswered(batch)) /\ allDone[batch] = 0
      BY <2>1, <3>1 DEF BatchCounted
    <3> QED
      BY <2>2, <3>3, <3>4, <3>5, <3>6 DEF BatchCounted
  <2> QED
    BY <2>4, <2>5
<1> QED
  BY <1>4, <1>5, <1>6

\* Without a callback the counters of batches stay right.
LEMMA NoAnswerKeeps ==
    ASSUME BatchesCounted, UNCHANGED answerVars, dropped \subseteq dropped'
    PROVE  BatchesCounted'
<1>1. \A batch \in Batches : BatchCounted(batch) => BatchCounted(batch)'
  BY DEF BatchCounted, Unanswered, answerVars
<1> QED
  BY <1>1 DEF BatchesCounted

\* A request none of whose places changes has the owners it had.
SamePlaces(s) ==
    /\ Queued(s)' = Queued(s) /\ Held(s)' = Held(s) /\ Posted(s)' = Posted(s)
    /\ InMulti(s)' = InMulti(s) /\ Tasked(s)' = Tasked(s)
    /\ Transferring(s)' = Transferring(s)

\* A request whose places and answers stay has as many owners as before.
LEMMA SameOwners ==
    ASSUME NEW s, SamePlaces(s), answers'[s] = answers[s]
    PROVE  Owners(s)' = Owners(s)
BY OwnersIsASum DEF SamePlaces

\* Nor does the callback of a request change any place.
LEMMA PlacesStay ==
    ASSUME UNCHANGED <<queueVars, transfers, tasks>>, NEW s
    PROVE  SamePlaces(s)
BY DEF SamePlaces, Queued, Held, Posted, InMulti, Tasked, Transferring, queueVars

(***************************************************************************)
(* Requests are made.                                                      *)
(***************************************************************************)
\* The facts about a request that has not been made.
LEMMA BeforeIssued ==
    ASSUME HttpFetcherAssumption, HttpInv, NEW r \in Requests, r \notin issued
    PROVE  /\ r \notin dropped /\ Owners(r) = 0
           /\ Queued(r) = {} /\ Held(r) = {} /\ Posted(r) = {} /\ InMulti(r) = {}
           /\ Tasked(r) = {} /\ Transferring(r) = 0 /\ answers[r] = <<>>
<1>1. r \notin dropped /\ Owners(r) = 0
  BY DEF HttpInv, OnlyIssued, OwnedOnce
<1> QED
  BY <1>1, NowhereYet DEF HttpInv, HttpFetcherAssumption

\* A request that is refused has been answered when it has been made.
LEMMA RefusedKeeps ==
    ASSUME HttpFetcherAssumption, HttpInv, NEW r \in Requests, r \notin issued,
           issued' = issued \cup {r}, Answer(r, "error"),
           UNCHANGED <<kind, queueVars, directVars, tasks, stage, dropped>>
    PROVE  HttpInv'
<1> USE DEF queueVars, directVars
<1>1. /\ r \notin dropped /\ Owners(r) = 0 /\ answers[r] = <<>>
  BY BeforeIssued
<1>2. /\ answers' \in [Requests -> Seq(Results)]
      /\ pending' \in [Batches -> Int] /\ allDone' \in [Batches -> Nat]
      /\ Len(answers'[r]) = Len(answers[r]) + 1
      /\ \A s \in Requests \ {r} : answers'[s] = answers[s]
      /\ BatchesCounted'
  BY <1>1, AnswerKeeps DEF HttpInv, Results
<1>3. HttpTypeOK'
  BY <1>2 DEF HttpInv, HttpTypeOK
<1>4. OnlyIssued'
  BY DEF HttpInv, OnlyIssued
<1>5. OwnedOnce'
  <2> SUFFICES ASSUME NEW s \in Requests \ dropped'
               PROVE  Owners(s)' = IF s \in issued' THEN 1 ELSE 0
    BY DEF OwnedOnce
  <2>1. SamePlaces(s)
    BY PlacesStay
  <2>2. CASE s = r
    <3>1. Owners(s)' = Owners(s) + 1
      <4>1. OwnersAddUp(s)
        BY OwnerTerms
      <4> QED
        BY <1>2, <2>1, <2>2, <4>1 DEF OwnersAddUp, SamePlaces
    <3> QED
      BY <1>1, <2>2, <3>1
  <2>3. CASE s # r
    <3>1. Owners(s)' = Owners(s)
      BY <1>2, <2>1, <2>3, SameOwners
    <3> QED
      BY <2>3, <3>1 DEF HttpInv, OwnedOnce
  <2> QED
    BY <2>2, <2>3
<1> QED
  BY <1>2, <1>3, <1>4, <1>5 DEF HttpInv

\* One that is accepted by a queue that has room is in that queue.
LEMMA ScheduledKeeps ==
    ASSUME HttpFetcherAssumption, HttpInv, NEW r \in Requests, r \notin issued,
           issued' = issued \cup {r}, NEW w \in Workers, ~Full(w),
           queue' = [queue EXCEPT ![w] = <<r>> \o @],
           UNCHANGED <<kind, holding, posted, multi, directVars, tasks, answerVars,
                       stage, dropped>>
    PROVE  HttpInv'
<1> USE DEF directVars, answerVars
<1>1. /\ r \notin dropped /\ Owners(r) = 0 /\ Queued(r) = {}
  BY BeforeIssued
<1>2. /\ queue \in [Workers -> Seq(Requests)] /\ queue[w] \in Seq(Requests)
      /\ IsInjective(queue[w]) /\ Len(queue[w]) < Capacity /\ Len(queue[w]) \in Nat
      /\ Capacity \in Nat
  BY DEF HttpInv, HttpTypeOK, Full, HttpFetcherAssumption
<1>3. r \notin ToSet(queue[w])
  BY <1>1 DEF Queued
<1>4. /\ queue'[w] = <<r>> \o queue[w] /\ queue'[w] \in Seq(Requests)
      /\ Len(queue'[w]) = Len(queue[w]) + 1 /\ ToSet(queue'[w]) = ToSet(queue[w]) \cup {r}
      /\ IsInjective(queue'[w])
  BY <1>2, <1>3, ConsFields
<1>5. queue' \in [Workers -> Seq(Requests)]
      /\ \A v \in Workers \ {w} : queue'[v] = queue[v]
  BY <1>2, <1>4
<1>6. HttpTypeOK'
  BY <1>2, <1>4, <1>5 DEF HttpInv, HttpTypeOK
<1>7. OnlyIssued'
  BY DEF HttpInv, OnlyIssued
<1>8. OwnedOnce'
  <2> SUFFICES ASSUME NEW s \in Requests \ dropped'
               PROVE  Owners(s)' = IF s \in issued' THEN 1 ELSE 0
    BY DEF OwnedOnce
  <2>1. /\ Held(s)' = Held(s) /\ Posted(s)' = Posted(s) /\ InMulti(s)' = InMulti(s)
        /\ Tasked(s)' = Tasked(s) /\ Transferring(s)' = Transferring(s)
    BY DEF Held, Posted, InMulti, Tasked, Transferring
  <2>2. Queued(s)' = {v \in Workers : s \in ToSet(queue'[v])}
    BY DEF Queued
  <2>3. CASE s = r
    <3>1. Queued(s)' = Queued(s) \cup {w} /\ w \notin Queued(s)
      <4>1. w \notin Queued(s)
        BY <1>1, <2>3
      <4>2. s \in ToSet(queue'[w])
        BY <1>4, <2>3
      <4>3. \A v \in Workers \ {w} : ToSet(queue'[v]) = ToSet(queue[v])
        BY <1>5
      <4> QED
        BY <2>2, <4>1, <4>2, <4>3 DEF Queued
    <3>2. Cardinality(Queued(s)') = Cardinality(Queued(s)) + 1
      <4>1. IsFiniteSet(Queued(s))
        BY PlacesAreFinite
      <4>2. Cardinality(Queued(s) \cup {w}) = Cardinality(Queued(s)) + 1
        BY <3>1, <4>1, FS_AddElement
      <4> QED
        BY <3>1, <4>2
    <3>3. Owners(s)' = Owners(s) + 1
      <4>1. OwnersAddUp(s)
        BY OwnerTerms
      <4>2. PICK q, h, p, m, t, x, y :
                /\ q = Cardinality(Queued(s)) /\ h = Cardinality(Held(s))
                /\ p = Cardinality(Posted(s)) /\ m = Cardinality(InMulti(s))
                /\ t = Cardinality(Tasked(s)) /\ x = Transferring(s) /\ y = Len(answers[s])
        OBVIOUS
      <4>3. q \in Nat /\ h \in Nat /\ p \in Nat /\ m \in Nat /\ t \in Nat /\ x \in Nat
            /\ y \in Nat /\ Owners(s) = q + h + p + m + t + x + y
        BY <4>1, <4>2, Zenon DEF OwnersAddUp
      <4>4. Owners(s)' = (q + 1) + h + p + m + t + x + y
        BY <2>1, <3>2, <4>1, <4>2, Zenon DEF OwnersAddUp
      <4>5. (q + 1) + h + p + m + t + x + y = q + h + p + m + t + x + y + 1
        BY <4>3
      <4> QED
        BY <4>3, <4>4, <4>5, Zenon
    <3> QED
      BY <1>1, <2>3, <3>3
  <2>4. CASE s # r
    <3>1. Queued(s)' = Queued(s)
      BY <1>4, <1>5, <2>2, <2>4 DEF Queued
    <3>2. Owners(s)' = Owners(s)
      BY <2>1, <3>1, SameOwners DEF SamePlaces
    <3> QED
      BY <2>4, <3>2 DEF HttpInv, OwnedOnce
  <2> QED
    BY <2>3, <2>4
<1>9. BatchesCounted'
  BY NoAnswerKeeps DEF HttpInv
<1> QED
  BY <1>6, <1>7, <1>8, <1>9 DEF HttpInv

\* One that libcurl takes at once is in the session.
LEMMA ExecutedKeeps ==
    ASSUME HttpFetcherAssumption, HttpInv, NEW r \in Requests, r \notin issued,
           issued' = issued \cup {r},
           transfers' = transfers \cup {r}, adding' = adding \cup {r},
           UNCHANGED <<kind, queueVars, handles, tasks, answerVars, stage, dropped>>
    PROVE  HttpInv'
<1> USE DEF queueVars, answerVars
<1>1. /\ r \notin dropped /\ Owners(r) = 0 /\ Transferring(r) = 0
  BY BeforeIssued
<1>2. HttpTypeOK'
  BY DEF HttpInv, HttpTypeOK
<1>3. OnlyIssued'
  BY DEF HttpInv, OnlyIssued
<1>4. OwnedOnce'
  <2> SUFFICES ASSUME NEW s \in Requests \ dropped'
               PROVE  Owners(s)' = IF s \in issued' THEN 1 ELSE 0
    BY DEF OwnedOnce
  <2>1. /\ Queued(s)' = Queued(s) /\ Held(s)' = Held(s) /\ Posted(s)' = Posted(s)
        /\ InMulti(s)' = InMulti(s) /\ Tasked(s)' = Tasked(s)
    BY DEF Queued, Held, Posted, InMulti, Tasked
  <2>2. CASE s = r
    <3>1. /\ Transferring(s)' = 1 /\ Transferring(s) = 0
          /\ answers'[s] = answers[s]
      BY <1>1, <2>2 DEF Transferring
    <3>2. Owners(s)' = Owners(s) + 1
      <4>1. OwnersAddUp(s)
        BY OwnerTerms
      <4> QED
        BY <2>1, <3>1, <4>1 DEF OwnersAddUp
    <3> QED
      BY <1>1, <2>2, <3>2
  <2>3. CASE s # r
    <3>1. Transferring(s)' = Transferring(s)
      BY <2>3 DEF Transferring
    <3>2. Owners(s)' = Owners(s)
      BY <2>1, <3>1, SameOwners DEF SamePlaces
    <3> QED
      BY <2>3, <3>2 DEF HttpInv, OwnedOnce
  <2> QED
    BY <2>2, <2>3
<1>5. BatchesCounted'
  BY NoAnswerKeeps DEF HttpInv
<1> QED
  BY <1>2, <1>3, <1>4, <1>5 DEF HttpInv

\* FetchUrl and PutUrl, of either fetcher.
LEMMA FetchUrlKeeps ==
    ASSUME HttpFetcherAssumption, HttpInv, NEW r \in Requests, FetchUrl(r)
    PROVE  HttpInv'
<1>1. r \notin issued /\ issued' = issued \cup {r}
  BY DEF FetchUrl
<1>2. ASSUME NEW w \in Workers, ScheduleAsyncCurlRequest(r, w) PROVE HttpInv'
  <2>1. CASE Full(w)
    <3>1. /\ Answer(r, "error")
          /\ UNCHANGED <<kind, queueVars, directVars, tasks, stage, dropped>>
      BY <1>2, <2>1 DEF ScheduleAsyncCurlRequest, queueVars
    <3> QED
      BY <1>1, <3>1, RefusedKeeps
  <2>2. CASE ~Full(w)
    BY <1>1, <1>2, <2>2, ScheduledKeeps DEF ScheduleAsyncCurlRequest
  <2> QED
    BY <2>1, <2>2
<1>3. ASSUME ExecuteCurlRequest(r) PROVE HttpInv'
  <2>1. CASE /\ transfers' = transfers \cup {r} /\ adding' = adding \cup {r}
             /\ UNCHANGED answerVars
    BY <1>1, <1>3, <2>1, ExecutedKeeps DEF ExecuteCurlRequest
  <2>2. CASE Answer(r, "error") /\ UNCHANGED <<transfers, adding>>
    BY <1>1, <1>3, <2>2, RefusedKeeps DEF ExecuteCurlRequest, directVars
  <2> QED
    BY <1>3, <2>1, <2>2 DEF ExecuteCurlRequest
<1> QED
  BY <1>2, <1>3 DEF FetchUrl

(***************************************************************************)
(* Requests move from one place to another.                                *)
(***************************************************************************)
\* A step that makes no request keeps the invariant of owners if it changes the
\* number of owners of none, unless it drops it.
LEMMA OwnedOnceKeeps ==
    ASSUME OwnedOnce, issued' = issued, dropped \subseteq dropped',
           \A s \in Requests \ dropped' : Owners(s)' = Owners(s)
    PROVE  OwnedOnce'
BY DEF OwnedOnce

\* In a state of the invariant a request that is somewhere is nowhere else.
NowhereElse(r) ==
    /\ Queued(r) # {} => /\ Held(r) = {} /\ Posted(r) = {} /\ InMulti(r) = {}
                         /\ Tasked(r) = {} /\ Transferring(r) = 0
                         /\ answers[r] = <<>> /\ Cardinality(Queued(r)) = 1
    /\ Held(r) # {} => Posted(r) = {}
    /\ Posted(r) # {} => InMulti(r) = {} /\ Tasked(r) = {}
    /\ InMulti(r) # {} => Tasked(r) = {}
    /\ Transferring(r) = 1 => Tasked(r) = {} /\ answers[r] = <<>>
    /\ Tasked(r) # {} => answers[r] = <<>>

\* A request that is in one place is in no other.
LEMMA SoleOwner ==
    ASSUME HttpFetcherAssumption, HttpInv, NEW r \in Requests \ dropped
    PROVE  NowhereElse(r)
<1>1. HttpTypeOK /\ IsFiniteSet(Workers)
  BY DEF HttpInv, HttpFetcherAssumption
<1>2. Owners(r) = 0 \/ Owners(r) = 1
  BY DEF HttpInv, OwnedOnce
<1>3. CASE Owners(r) = 0
  BY <1>1, <1>3, NowhereYet DEF NowhereElse
<1>4. CASE Owners(r) = 1
  BY <1>1, <1>4, OnlyOnce DEF NowhereElse
<1> QED
  BY <1>2, <1>3, <1>4

\* The worker takes the oldest request out of its queue.
LEMMA DequeueKeeps ==
    ASSUME HttpFetcherAssumption, HttpInv, NEW w \in Workers, Dequeue(w)
    PROVE  HttpInv'
<1> USE DEF directVars, answerVars
<1> DEFINE r == Last(queue[w])
<1>1. /\ queue \in [Workers -> Seq(Requests)] /\ queue[w] \in Seq(Requests)
      /\ IsInjective(queue[w]) /\ queue[w] # <<>> /\ Len(queue[w]) <= Capacity
      /\ holding \in [Workers -> Requests \cup {none}] /\ holding[w] = none
      /\ none \notin Requests /\ Capacity \in Nat /\ Len(queue[w]) \in Nat
  BY DEF HttpInv, HttpTypeOK, Dequeue, HttpFetcherAssumption
<1>2. /\ queue' = [queue EXCEPT ![w] = Front(queue[w])]
      /\ holding' = [holding EXCEPT ![w] = r]
      /\ UNCHANGED <<kind, issued, posted, multi, directVars, tasks, answerVars, stage, dropped>>
  BY DEF Dequeue
<1>3. /\ Front(queue[w]) \in Seq(Requests) /\ Len(Front(queue[w])) = Len(queue[w]) - 1
      /\ IsInjective(Front(queue[w])) /\ r \in Requests /\ r \in ToSet(queue[w])
      /\ ToSet(Front(queue[w])) = ToSet(queue[w]) \ {r}
  BY <1>1, FrontFields
<1> HIDE DEF r
<1>4. /\ queue' \in [Workers -> Seq(Requests)] /\ holding' \in [Workers -> Requests \cup {none}]
      /\ queue'[w] = Front(queue[w]) /\ holding'[w] = r
      /\ \A v \in Workers \ {w} : queue'[v] = queue[v] /\ holding'[v] = holding[v]
  BY <1>1, <1>2, <1>3
<1>5. HttpTypeOK'
  <2>1. \A v \in Workers : IsInjective(queue'[v]) /\ Len(queue'[v]) <= Capacity
    <3> SUFFICES ASSUME NEW v \in Workers
                 PROVE  IsInjective(queue'[v]) /\ Len(queue'[v]) <= Capacity
      OBVIOUS
    <3>1. CASE v = w
      BY <1>1, <1>3, <1>4, <3>1
    <3>2. CASE v # w
      BY <1>4, <3>2 DEF HttpInv, HttpTypeOK
    <3> QED
      BY <3>1, <3>2
  <2> QED
    BY <1>2, <1>4, <2>1 DEF HttpInv, HttpTypeOK
<1>6. OnlyIssued' /\ BatchesCounted'
  BY <1>2, NoAnswerKeeps DEF HttpInv, OnlyIssued
<1>7. ASSUME NEW s \in Requests \ dropped' PROVE Owners(s)' = Owners(s)
  <2>1. /\ Posted(s)' = Posted(s) /\ InMulti(s)' = InMulti(s)
        /\ Tasked(s)' = Tasked(s) /\ Transferring(s)' = Transferring(s)
        /\ answers'[s] = answers[s]
    BY <1>2 DEF Posted, InMulti, Tasked, Transferring
  <2>2. /\ Queued(s)' = {v \in Workers : s \in ToSet(queue'[v])}
        /\ Held(s)' = {v \in Workers : holding'[v] = s}
    BY DEF Queued, Held
  <2>3. CASE s = r
    <3>1. Queued(s)' = Queued(s) \ {w} /\ w \in Queued(s)
      BY <1>3, <1>4, <2>2, <2>3 DEF Queued
    <3>2. Held(s)' = Held(s) \cup {w} /\ w \notin Held(s)
      BY <1>1, <1>3, <1>4, <2>2, <2>3 DEF Held
    <3>3. IsFiniteSet(Queued(s)) /\ IsFiniteSet(Held(s))
      BY PlacesAreFinite
    <3>4. Cardinality(Queued(s)') = Cardinality(Queued(s)) - 1
      BY <3>1, <3>3, FS_RemoveElement
    <3>5. Cardinality(Held(s)') = Cardinality(Held(s)) + 1
      BY <3>2, <3>3, FS_AddElement
    <3>6. OwnersAddUp(s)
      BY OwnerTerms
    <3> QED
      BY <2>1, <3>4, <3>5, <3>6 DEF OwnersAddUp
  <2>4. CASE s # r
    <3>1. Queued(s)' = Queued(s)
      BY <1>3, <1>4, <2>2, <2>4 DEF Queued
    <3>2. Held(s)' = Held(s)
      BY <1>1, <1>4, <2>2, <2>4 DEF Held
    <3> QED
      BY <2>1, <3>1, <3>2, SameOwners DEF SamePlaces
  <2> QED
    BY <2>3, <2>4
<1>8. OwnedOnce'
  BY <1>2, <1>7, OwnedOnceKeeps DEF HttpInv
<1> QED
  BY <1>5, <1>6, <1>8 DEF HttpInv

\* The worker posts it on the event loop.
LEMMA StartProcessingKeeps ==
    ASSUME HttpFetcherAssumption, HttpInv, NEW w \in Workers, StartProcessing(w)
    PROVE  HttpInv'
<1> USE DEF directVars, answerVars
<1> DEFINE r == holding[w]
<1>1. /\ holding \in [Workers -> Requests \cup {none}] /\ r \in Requests
      /\ posted \in [Workers -> SUBSET Requests] /\ none \notin Requests
  BY DEF HttpInv, HttpTypeOK, StartProcessing, HttpFetcherAssumption
<1>2. /\ posted' = [posted EXCEPT ![w] = @ \cup {r}]
      /\ holding' = [holding EXCEPT ![w] = none]
      /\ UNCHANGED <<kind, issued, queue, multi, directVars, tasks, answerVars, stage, dropped>>
  BY DEF StartProcessing
<1>3. /\ posted' \in [Workers -> SUBSET Requests] /\ holding' \in [Workers -> Requests \cup {none}]
      /\ posted'[w] = posted[w] \cup {r} /\ holding'[w] = none
      /\ \A v \in Workers \ {w} : posted'[v] = posted[v] /\ holding'[v] = holding[v]
  BY <1>1, <1>2
<1>4. HttpTypeOK'
  BY <1>2, <1>3 DEF HttpInv, HttpTypeOK
<1>5. OnlyIssued' /\ BatchesCounted'
  BY <1>2, NoAnswerKeeps DEF HttpInv, OnlyIssued
<1>6. ASSUME NEW s \in Requests \ dropped' PROVE Owners(s)' = Owners(s)
  <2>1. /\ Queued(s)' = Queued(s) /\ InMulti(s)' = InMulti(s)
        /\ Tasked(s)' = Tasked(s) /\ Transferring(s)' = Transferring(s)
        /\ answers'[s] = answers[s]
    BY <1>2 DEF Queued, InMulti, Tasked, Transferring
  <2>2. /\ Posted(s)' = {v \in Workers : s \in posted'[v]}
        /\ Held(s)' = {v \in Workers : holding'[v] = s}
    BY DEF Posted, Held
  <2>3. CASE s = r
    <3>1. Held(s)' = Held(s) \ {w} /\ w \in Held(s)
      BY <1>1, <1>3, <2>2, <2>3 DEF Held
    <3>2. Posted(s) = {}
      BY <1>2, <3>1, SoleOwner DEF NowhereElse
    <3>3. Posted(s)' = Posted(s) \cup {w} /\ w \notin Posted(s)
      BY <1>3, <2>2, <2>3, <3>2 DEF Posted
    <3>4. IsFiniteSet(Held(s)) /\ IsFiniteSet(Posted(s))
      BY PlacesAreFinite
    <3>5. Cardinality(Held(s)') = Cardinality(Held(s)) - 1
      BY <3>1, <3>4, FS_RemoveElement
    <3>6. Cardinality(Posted(s)') = Cardinality(Posted(s)) + 1
      BY <3>3, <3>4, FS_AddElement
    <3>7. OwnersAddUp(s)
      BY OwnerTerms
    <3> QED
      BY <2>1, <3>5, <3>6, <3>7 DEF OwnersAddUp
  <2>4. CASE s # r
    <3>1. Posted(s)' = Posted(s)
      BY <1>3, <2>2, <2>4 DEF Posted
    <3>2. Held(s)' = Held(s)
      BY <1>1, <1>3, <2>2, <2>4 DEF Held
    <3> QED
      BY <2>1, <3>1, <3>2, SameOwners DEF SamePlaces
  <2> QED
    BY <2>3, <2>4
<1>7. OwnedOnce'
  BY <1>2, <1>6, OwnedOnceKeeps DEF HttpInv
<1> QED
  BY <1>4, <1>5, <1>7 DEF HttpInv

\* The event loop gives it to libcurl, or to the executor with an error.
LEMMA OnProcessingStartedKeeps ==
    ASSUME HttpFetcherAssumption, HttpInv, NEW w \in Workers, NEW r \in Requests,
           OnProcessingStarted(w, r)
    PROVE  HttpInv'
<1> USE DEF directVars, answerVars
<1>1. /\ posted \in [Workers -> SUBSET Requests] /\ multi \in [Workers -> SUBSET Requests]
      /\ tasks \in SUBSET (Requests \X Results) /\ r \in posted[w]
  BY DEF HttpInv, HttpTypeOK, OnProcessingStarted
<1>2. /\ posted' = [posted EXCEPT ![w] = @ \ {r}]
      /\ \/ multi' = [multi EXCEPT ![w] = @ \cup {r}] /\ UNCHANGED tasks
         \/ tasks' = tasks \cup {<<r, "error">>} /\ UNCHANGED multi
      /\ UNCHANGED <<kind, issued, queue, holding, directVars, answerVars, stage, dropped>>
  BY DEF OnProcessingStarted
<1>3. /\ posted' \in [Workers -> SUBSET Requests]
      /\ posted'[w] = posted[w] \ {r} /\ \A v \in Workers \ {w} : posted'[v] = posted[v]
  BY <1>1, <1>2
<1>4. multi' \in [Workers -> SUBSET Requests] /\ tasks' \in SUBSET (Requests \X Results)
  BY <1>1, <1>2 DEF Results
<1>5. HttpTypeOK'
  BY <1>2, <1>3, <1>4 DEF HttpInv, HttpTypeOK
<1>6. OnlyIssued' /\ BatchesCounted'
  BY <1>2, NoAnswerKeeps DEF HttpInv, OnlyIssued
<1>7. ASSUME NEW s \in Requests \ dropped' PROVE Owners(s)' = Owners(s)
  <2>1. /\ Queued(s)' = Queued(s) /\ Held(s)' = Held(s)
        /\ Transferring(s)' = Transferring(s) /\ answers'[s] = answers[s]
    BY <1>2 DEF Queued, Held, Transferring
  <2>2. /\ Posted(s)' = {v \in Workers : s \in posted'[v]}
        /\ InMulti(s)' = {v \in Workers : s \in multi'[v]}
        /\ Tasked(s)' = {t \in tasks' : t[1] = s}
    BY DEF Posted, InMulti, Tasked
  <2>3. CASE s = r
    <3>1. Posted(s)' = Posted(s) \ {w} /\ w \in Posted(s)
      BY <1>1, <1>3, <2>2, <2>3 DEF Posted
    <3>2. InMulti(s) = {} /\ Tasked(s) = {}
      BY <1>2, <3>1, SoleOwner DEF NowhereElse
    <3>3. IsFiniteSet(Posted(s))
      BY PlacesAreFinite
    <3>4. Cardinality(Posted(s)') = Cardinality(Posted(s)) - 1
      BY <3>1, <3>3, FS_RemoveElement
    <3>5. Cardinality(InMulti(s)) = 0 /\ Cardinality(Tasked(s)) = 0
      BY <3>2, FS_EmptySet
    <3>6. OwnersAddUp(s)
      BY OwnerTerms
    <3>7. CASE multi' = [multi EXCEPT ![w] = @ \cup {r}] /\ UNCHANGED tasks
      <4>1. InMulti(s)' = {w} /\ Tasked(s)' = Tasked(s)
        BY <1>1, <2>2, <2>3, <3>2, <3>7 DEF InMulti, Tasked
      <4>2. Cardinality(InMulti(s)') = 1
        BY <4>1, FS_Singleton
      <4> QED
        BY <2>1, <3>4, <3>5, <3>6, <4>1, <4>2 DEF OwnersAddUp
    <3>8. CASE tasks' = tasks \cup {<<r, "error">>} /\ UNCHANGED multi
      <4>1. Tasked(s)' = {<<r, "error">>} /\ InMulti(s)' = InMulti(s)
        BY <2>2, <2>3, <3>2, <3>8 DEF InMulti, Tasked
      <4>2. Cardinality(Tasked(s)') = 1
        BY <4>1, FS_Singleton
      <4> QED
        BY <2>1, <3>4, <3>5, <3>6, <4>1, <4>2 DEF OwnersAddUp
    <3> QED
      BY <1>2, <3>7, <3>8
  <2>4. CASE s # r
    <3>1. Posted(s)' = Posted(s)
      BY <1>3, <2>2, <2>4 DEF Posted
    <3>2. InMulti(s)' = InMulti(s)
      BY <1>1, <1>2, <2>2, <2>4 DEF InMulti
    <3>3. Tasked(s)' = Tasked(s)
      BY <1>2, <2>2, <2>4 DEF Tasked
    <3> QED
      BY <2>1, <3>1, <3>2, <3>3, SameOwners DEF SamePlaces
  <2> QED
    BY <2>3, <2>4
<1>8. OwnedOnce'
  BY <1>2, <1>7, OwnedOnceKeeps DEF HttpInv
<1> QED
  BY <1>5, <1>6, <1>8 DEF HttpInv

\* The transfer ends, and its result is on the executor.
LEMMA PerformCurlUpdateKeeps ==
    ASSUME HttpFetcherAssumption, HttpInv, NEW w \in Workers, NEW r \in Requests,
           NEW result \in Results, PerformCurlUpdate(w, r, result)
    PROVE  HttpInv'
<1> USE DEF directVars, answerVars
<1>1. /\ multi \in [Workers -> SUBSET Requests] /\ r \in multi[w]
      /\ tasks \in SUBSET (Requests \X Results)
  BY DEF HttpInv, HttpTypeOK, PerformCurlUpdate
<1>2. /\ multi' = [multi EXCEPT ![w] = @ \ {r}]
      /\ tasks' = tasks \cup {<<r, result>>}
      /\ UNCHANGED <<kind, issued, queue, holding, posted, directVars, answerVars, stage, dropped>>
  BY DEF PerformCurlUpdate
<1>3. /\ multi' \in [Workers -> SUBSET Requests] /\ tasks' \in SUBSET (Requests \X Results)
      /\ multi'[w] = multi[w] \ {r} /\ \A v \in Workers \ {w} : multi'[v] = multi[v]
  BY <1>1, <1>2
<1>4. HttpTypeOK'
  BY <1>2, <1>3 DEF HttpInv, HttpTypeOK
<1>5. OnlyIssued' /\ BatchesCounted'
  BY <1>2, NoAnswerKeeps DEF HttpInv, OnlyIssued
<1>6. ASSUME NEW s \in Requests \ dropped' PROVE Owners(s)' = Owners(s)
  <2>1. /\ Queued(s)' = Queued(s) /\ Held(s)' = Held(s) /\ Posted(s)' = Posted(s)
        /\ Transferring(s)' = Transferring(s) /\ answers'[s] = answers[s]
    BY <1>2 DEF Queued, Held, Posted, Transferring
  <2>2. /\ InMulti(s)' = {v \in Workers : s \in multi'[v]}
        /\ Tasked(s)' = {t \in tasks' : t[1] = s}
    BY DEF InMulti, Tasked
  <2>3. CASE s = r
    <3>1. InMulti(s)' = InMulti(s) \ {w} /\ w \in InMulti(s)
      BY <1>1, <1>3, <2>2, <2>3 DEF InMulti
    <3>2. Tasked(s) = {}
      BY <1>2, <3>1, SoleOwner DEF NowhereElse
    <3>3. Tasked(s)' = Tasked(s) \cup {<<r, result>>} /\ <<r, result>> \notin Tasked(s)
      BY <1>2, <2>2, <2>3, <3>2 DEF Tasked
    <3>4. IsFiniteSet(InMulti(s)) /\ IsFiniteSet(Tasked(s))
      BY PlacesAreFinite
    <3>5. Cardinality(InMulti(s)') = Cardinality(InMulti(s)) - 1
      BY <3>1, <3>4, FS_RemoveElement
    <3>6. Cardinality(Tasked(s)') = Cardinality(Tasked(s)) + 1
      BY <3>3, <3>4, FS_AddElement
    <3>7. OwnersAddUp(s)
      BY OwnerTerms
    <3> QED
      BY <2>1, <3>5, <3>6, <3>7 DEF OwnersAddUp
  <2>4. CASE s # r
    <3>1. InMulti(s)' = InMulti(s)
      BY <1>3, <2>2, <2>4 DEF InMulti
    <3>2. Tasked(s)' = Tasked(s)
      BY <1>2, <2>2, <2>4 DEF Tasked
    <3> QED
      BY <2>1, <3>1, <3>2, SameOwners DEF SamePlaces
  <2> QED
    BY <2>3, <2>4
<1>7. OwnedOnce'
  BY <1>2, <1>6, OwnedOnceKeeps DEF HttpInv
<1> QED
  BY <1>4, <1>5, <1>7 DEF HttpInv

\* The ticker takes every entry of a queue.
LEMMA RemoveExpiredEntriesKeeps ==
    ASSUME HttpFetcherAssumption, HttpInv, NEW w \in Workers, RemoveExpiredEntries(w)
    PROVE  HttpInv'
<1> USE DEF directVars, answerVars
<1>1. /\ queue \in [Workers -> Seq(Requests)] /\ queue[w] \in Seq(Requests)
      /\ tasks \in SUBSET (Requests \X Results) /\ Capacity \in Nat
  BY DEF HttpInv, HttpTypeOK, HttpFetcherAssumption
<1>2. /\ queue' = [queue EXCEPT ![w] = <<>>]
      /\ tasks' = tasks \cup {<<r, "error">> : r \in ToSet(queue[w])}
      /\ UNCHANGED <<kind, issued, holding, posted, multi, directVars, answerVars, stage, dropped>>
  BY DEF RemoveExpiredEntries, ExpiredLeft
<1>3. /\ queue'[w] = <<>> /\ queue'[w] \in Seq(Requests)
      /\ \A v \in Workers \ {w} : queue'[v] = queue[v]
  BY <1>1, <1>2
<1>4. ToSet(queue[w]) \subseteq Requests /\ ToSet(queue'[w]) = {}
  BY <1>1, <1>3 DEF ToSet
<1>5. HttpTypeOK'
  <2>1. queue' \in [Workers -> Seq(Requests)]
    BY <1>1, <1>2, <1>3
  <2>2. tasks' \in SUBSET (Requests \X Results)
    BY <1>1, <1>2, <1>4 DEF Results
  <2>3. IsInjective(queue'[w]) /\ Len(queue'[w]) <= Capacity
    BY <1>1, <1>3 DEF IsInjective
  <2>4. \A v \in Workers : IsInjective(queue'[v]) /\ Len(queue'[v]) <= Capacity
    BY <1>3, <2>3 DEF HttpInv, HttpTypeOK
  <2> QED
    BY <1>2, <2>1, <2>2, <2>4 DEF HttpInv, HttpTypeOK
<1>6. OnlyIssued' /\ BatchesCounted'
  BY <1>2, NoAnswerKeeps DEF HttpInv, OnlyIssued
<1>7. ASSUME NEW s \in Requests \ dropped' PROVE Owners(s)' = Owners(s)
  <2>1. /\ Held(s)' = Held(s) /\ Posted(s)' = Posted(s) /\ InMulti(s)' = InMulti(s)
        /\ Transferring(s)' = Transferring(s) /\ answers'[s] = answers[s]
    BY <1>2 DEF Held, Posted, InMulti, Transferring
  <2>2. /\ Queued(s)' = {v \in Workers : s \in ToSet(queue'[v])}
        /\ Tasked(s)' = {t \in tasks' : t[1] = s}
    BY DEF Queued, Tasked
  <2>3. CASE s \in ToSet(queue[w])
    <3>1. Queued(s)' = Queued(s) \ {w} /\ w \in Queued(s)
      BY <1>3, <1>4, <2>2, <2>3 DEF Queued
    <3>2. Tasked(s) = {}
      BY <1>2, <3>1, SoleOwner DEF NowhereElse
    <3>3. Tasked(s)' = {<<s, "error">>}
      BY <1>2, <2>2, <2>3, <3>2 DEF Tasked
    <3>4. IsFiniteSet(Queued(s))
      BY PlacesAreFinite
    <3>5. Cardinality(Queued(s)') = Cardinality(Queued(s)) - 1
      BY <3>1, <3>4, FS_RemoveElement
    <3>6. Cardinality(Tasked(s)) = 0 /\ Cardinality(Tasked(s)') = 1
      BY <3>2, <3>3, FS_EmptySet, FS_Singleton
    <3>7. OwnersAddUp(s)
      BY OwnerTerms
    <3> QED
      BY <2>1, <3>5, <3>6, <3>7 DEF OwnersAddUp
  <2>4. CASE s \notin ToSet(queue[w])
    <3>1. Queued(s)' = Queued(s)
      BY <1>3, <1>4, <2>2, <2>4 DEF Queued
    <3>2. Tasked(s)' = Tasked(s)
      BY <1>2, <2>2, <2>4 DEF Tasked
    <3> QED
      BY <2>1, <3>1, <3>2, SameOwners DEF SamePlaces
  <2> QED
    BY <2>3, <2>4
<1>8. OwnedOnce'
  BY <1>2, <1>7, OwnedOnceKeeps DEF HttpInv
<1> QED
  BY <1>5, <1>6, <1>8 DEF HttpInv

\* The event loop of a session takes the handle of a request that was added.
LEMMA AddHandleKeeps ==
    ASSUME HttpFetcherAssumption, HttpInv, NEW r \in Requests, AddHandle(r)
    PROVE  HttpInv'
<1> USE DEF queueVars, answerVars
<1>1. /\ r \in adding /\ adding' = adding \ {r} /\ handles' = handles \cup {r}
      /\ UNCHANGED <<kind, issued, queueVars, transfers, tasks, answerVars, stage, dropped>>
  BY DEF AddHandle
<1>2. HttpTypeOK' /\ OnlyIssued' /\ BatchesCounted'
  BY <1>1, NoAnswerKeeps DEF HttpInv, HttpTypeOK, OnlyIssued
<1>3. ASSUME NEW s \in Requests \ dropped' PROVE Owners(s)' = Owners(s)
  BY <1>1, PlacesStay, SameOwners
<1>4. OwnedOnce'
  BY <1>1, <1>3, OwnedOnceKeeps DEF HttpInv
<1> QED
  BY <1>2, <1>4 DEF HttpInv

\* The transfer of a fetcher without queue ends.
LEMMA PerformCurlUpdateDirectKeeps ==
    ASSUME HttpFetcherAssumption, HttpInv, NEW r \in Requests, NEW result \in Results,
           PerformCurlUpdateDirect(r, result)
    PROVE  HttpInv'
<1> USE DEF queueVars, answerVars
<1>1. /\ r \in transfers /\ transfers' = transfers \ {r} /\ handles' = handles \ {r}
      /\ tasks' = tasks \cup {<<r, result>>}
      /\ UNCHANGED <<kind, issued, queueVars, adding, answerVars, stage, dropped>>
  BY DEF PerformCurlUpdateDirect
<1>2. HttpTypeOK'
  BY <1>1 DEF HttpInv, HttpTypeOK
<1>3. OnlyIssued' /\ BatchesCounted'
  BY <1>1, NoAnswerKeeps DEF HttpInv, OnlyIssued
<1>4. ASSUME NEW s \in Requests \ dropped' PROVE Owners(s)' = Owners(s)
  <2>1. /\ Queued(s)' = Queued(s) /\ Held(s)' = Held(s) /\ Posted(s)' = Posted(s)
        /\ InMulti(s)' = InMulti(s) /\ answers'[s] = answers[s]
    BY <1>1 DEF Queued, Held, Posted, InMulti
  <2>2. Tasked(s)' = {t \in tasks' : t[1] = s}
    BY DEF Tasked
  <2>3. CASE s = r
    <3>1. Transferring(s) = 1 /\ Transferring(s)' = 0
      BY <1>1, <2>3 DEF Transferring
    <3>2. Tasked(s) = {}
      BY <1>1, <3>1, SoleOwner DEF NowhereElse
    <3>3. Tasked(s)' = {<<r, result>>}
      BY <1>1, <2>2, <2>3, <3>2 DEF Tasked
    <3>4. Cardinality(Tasked(s)) = 0 /\ Cardinality(Tasked(s)') = 1
      BY <3>2, <3>3, FS_EmptySet, FS_Singleton
    <3>5. OwnersAddUp(s)
      BY OwnerTerms
    <3> QED
      BY <2>1, <3>1, <3>4, <3>5 DEF OwnersAddUp
  <2>4. CASE s # r
    <3>1. Tasked(s)' = Tasked(s) /\ Transferring(s)' = Transferring(s)
      BY <1>1, <2>2, <2>4 DEF Tasked, Transferring
    <3> QED
      BY <2>1, <3>1, SameOwners DEF SamePlaces
  <2> QED
    BY <2>3, <2>4
<1>5. OwnedOnce'
  BY <1>1, <1>4, OwnedOnceKeeps DEF HttpInv
<1> QED
  BY <1>2, <1>3, <1>5 DEF HttpInv

\* The executor calls the callback.
LEMMA RunTaskKeeps ==
    ASSUME HttpFetcherAssumption, HttpInv, NEW r \in Requests, NEW result \in Results,
           RunTask(r, result)
    PROVE  HttpInv'
<1> USE DEF queueVars, directVars
<1>1. /\ <<r, result>> \in tasks /\ tasks' = tasks \ {<<r, result>>}
      /\ Answer(r, result)
      /\ UNCHANGED <<kind, issued, queueVars, directVars, stage, dropped>>
  BY DEF RunTask
<1>2. <<r, result>> \in Tasked(r)
  BY <1>1 DEF Tasked
<1>3. r \notin dropped => answers[r] = <<>>
  BY <1>2, SoleOwner DEF NowhereElse
<1>4. /\ answers' \in [Requests -> Seq(Results)]
      /\ pending' \in [Batches -> Int] /\ allDone' \in [Batches -> Nat]
      /\ Len(answers'[r]) = Len(answers[r]) + 1
      /\ \A s \in Requests \ {r} : answers'[s] = answers[s]
      /\ BatchesCounted'
  BY <1>1, <1>3, AnswerKeeps DEF HttpInv
<1>5. HttpTypeOK' /\ OnlyIssued'
  BY <1>1, <1>4 DEF HttpInv, HttpTypeOK, OnlyIssued
<1>6. ASSUME NEW s \in Requests \ dropped' PROVE Owners(s)' = Owners(s)
  <2>1. /\ Queued(s)' = Queued(s) /\ Held(s)' = Held(s) /\ Posted(s)' = Posted(s)
        /\ InMulti(s)' = InMulti(s) /\ Transferring(s)' = Transferring(s)
    BY <1>1 DEF Queued, Held, Posted, InMulti, Transferring
  <2>2. Tasked(s)' = {t \in tasks' : t[1] = s}
    BY DEF Tasked
  <2>3. CASE s = r
    <3>1. Tasked(s)' = Tasked(s) \ {<<r, result>>}
      BY <1>1, <2>2 DEF Tasked
    <3>2. IsFiniteSet(Tasked(s))
      BY PlacesAreFinite
    <3>3. Cardinality(Tasked(s)') = Cardinality(Tasked(s)) - 1
      BY <1>2, <2>3, <3>1, <3>2, FS_RemoveElement
    <3>4. OwnersAddUp(s)
      BY OwnerTerms
    <3>5. Len(answers'[s]) = Len(answers[s]) + 1
      BY <1>4, <2>3
    <3> QED
      BY <2>1, <3>3, <3>4, <3>5 DEF OwnersAddUp
  <2>4. CASE s # r
    <3>1. Tasked(s)' = Tasked(s)
      BY <1>1, <2>2, <2>4 DEF Tasked
    <3> QED
      BY <1>4, <2>1, <2>4, <3>1, SameOwners DEF SamePlaces
  <2> QED
    BY <2>3, <2>4
<1>7. OwnedOnce'
  BY <1>1, <1>6, OwnedOnceKeeps DEF HttpInv
<1> QED
  BY <1>4, <1>5, <1>7 DEF HttpInv

(***************************************************************************)
(* The destructors.                                                        *)
(***************************************************************************)
\* A step on the way through a destructor that touches no request.
LEMMA StageKeeps ==
    ASSUME HttpInv, stage' \in [Workers -> ToSet(Stages)],
           UNCHANGED <<kind, issued, queueVars, directVars, tasks, answerVars, dropped>>
    PROVE  HttpInv'
<1> USE DEF directVars, answerVars
<1>1. HttpTypeOK' /\ OnlyIssued' /\ BatchesCounted'
  BY NoAnswerKeeps DEF HttpInv, HttpTypeOK, OnlyIssued, queueVars
<1>2. ASSUME NEW s \in Requests \ dropped' PROVE Owners(s)' = Owners(s)
  BY PlacesStay, SameOwners
<1>3. OwnedOnce'
  BY <1>2, OwnedOnceKeeps DEF HttpInv
<1> QED
  BY <1>1, <1>3 DEF HttpInv

\* GoOn stays within the stages of a worker.
LEMMA StagesOfWorkers ==
    ASSUME HttpInv, NEW w \in Workers, NEW to \in ToSet(Stages),
           stage' = [stage EXCEPT ![w] = to]
    PROVE  stage' \in [Workers -> ToSet(Stages)]
BY DEF HttpInv, HttpTypeOK

\* Their names.
LEMMA StageNames ==
    /\ "up" \in ToSet(Stages) /\ "stopping" \in ToSet(Stages) /\ "stopped" \in ToSet(Stages)
    /\ "sessionGone" \in ToSet(Stages) /\ "queueGone" \in ToSet(Stages)
<1>1. DOMAIN Stages = 1..5
  BY DEF Stages
<1>2. /\ Stages[1] = "up" /\ Stages[2] = "stopping" /\ Stages[3] = "stopped"
      /\ Stages[4] = "sessionGone" /\ Stages[5] = "queueGone"
  BY DEF Stages
<1> QED
  BY <1>1, <1>2 DEF ToSet

\* The end of an event loop drops what it has.
LEMMA ShutdownEventLoopKeeps ==
    ASSUME HttpFetcherAssumption, HttpInv, NEW w \in Workers, ShutdownEventLoop(w)
    PROVE  HttpInv'
<1> USE DEF directVars, answerVars
<1>1. /\ posted \in [Workers -> SUBSET Requests] /\ multi \in [Workers -> SUBSET Requests]
  BY DEF HttpInv, HttpTypeOK
<1>2. /\ dropped' = dropped \cup posted[w] \cup multi[w]
      /\ posted' = [posted EXCEPT ![w] = {}] /\ multi' = [multi EXCEPT ![w] = {}]
      /\ stage' = [stage EXCEPT ![w] = "sessionGone"]
      /\ UNCHANGED <<kind, issued, queue, holding, directVars, tasks, answerVars>>
  BY DEF ShutdownEventLoop, GoOn
<1>3. /\ posted' \in [Workers -> SUBSET Requests] /\ multi' \in [Workers -> SUBSET Requests]
      /\ posted'[w] = {} /\ multi'[w] = {}
      /\ \A v \in Workers \ {w} : posted'[v] = posted[v] /\ multi'[v] = multi[v]
  BY <1>1, <1>2
<1>4. stage' \in [Workers -> ToSet(Stages)]
  BY <1>2, StagesOfWorkers, StageNames
<1>5. HttpTypeOK'
  BY <1>1, <1>2, <1>3, <1>4 DEF HttpInv, HttpTypeOK
<1>6. posted[w] \subseteq issued /\ multi[w] \subseteq issued
  <2> SUFFICES ASSUME NEW r \in posted[w] \cup multi[w], r \notin issued PROVE FALSE
    OBVIOUS
  <2>1. r \in Requests
    BY <1>1
  <2>2. Posted(r) = {} /\ InMulti(r) = {}
    BY <2>1, BeforeIssued
  <2> QED
    BY <2>2 DEF Posted, InMulti
<1>7. OnlyIssued' /\ BatchesCounted'
  BY <1>2, <1>6, NoAnswerKeeps DEF HttpInv, OnlyIssued
<1>8. ASSUME NEW s \in Requests \ dropped' PROVE Owners(s)' = Owners(s)
  <2>1. /\ Queued(s)' = Queued(s) /\ Held(s)' = Held(s) /\ Tasked(s)' = Tasked(s)
        /\ Transferring(s)' = Transferring(s) /\ answers'[s] = answers[s]
    BY <1>2 DEF Queued, Held, Tasked, Transferring
  <2>2. /\ Posted(s)' = {v \in Workers : s \in posted'[v]}
        /\ InMulti(s)' = {v \in Workers : s \in multi'[v]}
    BY DEF Posted, InMulti
  <2>3. s \notin posted[w] /\ s \notin multi[w]
    BY <1>2
  <2>4. Posted(s)' = Posted(s) /\ InMulti(s)' = InMulti(s)
    BY <1>3, <2>2, <2>3 DEF Posted, InMulti
  <2> QED
    BY <2>1, <2>4, SameOwners DEF SamePlaces
<1>9. OwnedOnce'
  BY <1>2, <1>8, OwnedOnceKeeps DEF HttpInv
<1> QED
  BY <1>5, <1>7, <1>9 DEF HttpInv

\* A request that leaves a queue with an answer has as many owners as before.
LEMMA AnsweredFromQueue ==
    ASSUME NEW s, OwnersAddUp(s),
           Cardinality(Queued(s)') = Cardinality(Queued(s)) - 1,
           Held(s)' = Held(s), Posted(s)' = Posted(s), InMulti(s)' = InMulti(s),
           Tasked(s)' = Tasked(s), Transferring(s)' = Transferring(s),
           Len(answers'[s]) = Len(answers[s]) + 1
    PROVE  Owners(s)' = Owners(s)
<1>1. PICK y, z, c, d, e, f, n :
          /\ y = Cardinality(Queued(s)) /\ z = Cardinality(Held(s))
          /\ c = Cardinality(Posted(s)) /\ d = Cardinality(InMulti(s))
          /\ e = Cardinality(Tasked(s)) /\ f = Transferring(s) /\ n = Len(answers[s])
  OBVIOUS
<1>2. /\ y \in Nat /\ z \in Nat /\ c \in Nat /\ d \in Nat /\ e \in Nat /\ f \in Nat
      /\ n \in Nat
  BY <1>1, Zenon DEF OwnersAddUp
<1>3. Owners(s) = y + z + c + d + e + f + n
  BY <1>1, Zenon DEF OwnersAddUp
<1>4. Owners(s)' = (y - 1) + z + c + d + e + f + (n + 1)
  BY <1>1, Zenon DEF OwnersAddUp
<1>5. (y - 1) + z + c + d + e + f + (n + 1) = y + z + c + d + e + f + n
  BY <1>2
<1> QED
  BY <1>3, <1>4, <1>5, Zenon

\* A queue answers its oldest request, until there is none.
LEMMA QueueShutdownKeeps ==
    ASSUME HttpFetcherAssumption, HttpInv, NEW w \in Workers, QueueShutdown(w)
    PROVE  HttpInv'
<1> USE DEF directVars, queueVars
<1>1. CASE queue[w] = <<>>
  <2>1. /\ stage' = [stage EXCEPT ![w] = "queueGone"]
        /\ UNCHANGED <<kind, issued, queueVars, directVars, tasks, answerVars, dropped>>
    BY <1>1 DEF QueueShutdown
  <2> QED
    BY <2>1, StageKeeps, StagesOfWorkers, StageNames
<1>2. CASE queue[w] # <<>>
  <2> DEFINE r == Last(queue[w])
  <2>1. /\ Answer(r, "error") /\ queue' = [queue EXCEPT ![w] = Front(queue[w])]
        /\ UNCHANGED <<kind, issued, holding, posted, multi, directVars, tasks, stage, dropped>>
    BY <1>2 DEF QueueShutdown
  <2>2. /\ queue \in [Workers -> Seq(Requests)] /\ queue[w] \in Seq(Requests)
        /\ IsInjective(queue[w]) /\ Len(queue[w]) <= Capacity
        /\ Capacity \in Nat /\ Len(queue[w]) \in Nat
    BY DEF HttpInv, HttpTypeOK, HttpFetcherAssumption
  <2>3. /\ Front(queue[w]) \in Seq(Requests) /\ Len(Front(queue[w])) = Len(queue[w]) - 1
        /\ IsInjective(Front(queue[w])) /\ r \in Requests /\ r \in ToSet(queue[w])
        /\ ToSet(Front(queue[w])) = ToSet(queue[w]) \ {r}
    BY <1>2, <2>2, FrontFields
  <2> HIDE DEF r
  <2>4. w \in Queued(r)
    BY <2>3 DEF Queued
  <2>5. r \notin dropped => answers[r] = <<>>
    BY <2>3, <2>4, SoleOwner DEF NowhereElse
  <2>6. /\ answers' \in [Requests -> Seq(Results)]
        /\ pending' \in [Batches -> Int] /\ allDone' \in [Batches -> Nat]
        /\ Len(answers'[r]) = Len(answers[r]) + 1
        /\ \A s \in Requests \ {r} : answers'[s] = answers[s]
        /\ BatchesCounted'
    BY <2>1, <2>3, <2>5, AnswerKeeps DEF HttpInv, Results
  <2>7. /\ queue' \in [Workers -> Seq(Requests)] /\ queue'[w] = Front(queue[w])
        /\ \A v \in Workers \ {w} : queue'[v] = queue[v]
    BY <2>1, <2>2, <2>3
  <2>8. IsInjective(queue'[w]) /\ Len(queue'[w]) <= Capacity
    BY <2>2, <2>3, <2>7
  <2>9. \A v \in Workers : IsInjective(queue'[v]) /\ Len(queue'[v]) <= Capacity
    BY <2>7, <2>8 DEF HttpInv, HttpTypeOK
  <2>10. HttpTypeOK' /\ OnlyIssued'
    BY <2>1, <2>6, <2>7, <2>9 DEF HttpInv, HttpTypeOK, OnlyIssued
  <2>11. ASSUME NEW s \in Requests \ dropped' PROVE Owners(s)' = Owners(s)
    <3>1. /\ Held(s)' = Held(s) /\ Posted(s)' = Posted(s) /\ InMulti(s)' = InMulti(s)
          /\ Tasked(s)' = Tasked(s) /\ Transferring(s)' = Transferring(s)
      BY <2>1 DEF Held, Posted, InMulti, Tasked, Transferring
    <3>2. Queued(s)' = {v \in Workers : s \in ToSet(queue'[v])}
      BY DEF Queued
    <3>3. CASE s = r
      <4>1. Queued(s)' = Queued(s) \ {w}
        BY <2>3, <2>7, <3>2, <3>3 DEF Queued
      <4>2. IsFiniteSet(Queued(s))
        BY PlacesAreFinite
      <4>3. Cardinality(Queued(s)') = Cardinality(Queued(s)) - 1
        BY <2>4, <3>3, <4>1, <4>2, FS_RemoveElement
      <4>4. Len(answers'[s]) = Len(answers[s]) + 1
        BY <2>6, <3>3
      <4>5. OwnersAddUp(s)
        BY OwnerTerms
      <4> QED
        BY <3>1, <4>3, <4>4, <4>5, AnsweredFromQueue
    <3>4. CASE s # r
      <4>1. Queued(s)' = Queued(s)
        BY <2>3, <2>7, <3>2, <3>4 DEF Queued
      <4> QED
        BY <2>6, <3>1, <3>4, <4>1, SameOwners DEF SamePlaces
    <3> QED
      BY <3>3, <3>4
  <2>12. OwnedOnce'
    BY <2>1, <2>11, OwnedOnceKeeps DEF HttpInv
  <2> QED
    BY <2>6, <2>10, <2>12 DEF HttpInv
<1> QED
  BY <1>1, <1>2

\* The destructor of the fetcher without queue answers for a handle; a dangling one
\* is not counted any more.
LEMMA DestroyHandleKeeps ==
    ASSUME HttpFetcherAssumption, HttpInv, NEW r \in Requests, DestroyHandle(r)
    PROVE  HttpInv'
<1> USE DEF queueVars
<1>1. /\ r \in handles /\ handles' = handles \ {r} /\ transfers' = transfers \ {r}
      /\ Answer(r, "error") \/ (r \in Dangling /\ UNCHANGED answerVars)
      /\ dropped' = IF r \in Dangling THEN dropped \cup {r} ELSE dropped
      /\ UNCHANGED <<kind, issued, queueVars, adding, tasks, stage>>
  BY DEF DestroyHandle
<1>2. r \in Dangling <=> r \notin transfers
  BY <1>1 DEF Dangling
<1>3. r \in issued /\ dropped \subseteq dropped' /\ dropped' \subseteq dropped \cup {r}
  BY <1>1 DEF HttpInv, OnlyIssued
<1>4. r \notin dropped' => r \in transfers /\ r \notin dropped /\ answers[r] = <<>>
  <2> SUFFICES ASSUME r \notin dropped'
               PROVE  r \in transfers /\ r \notin dropped /\ answers[r] = <<>>
    OBVIOUS
  <2>1. r \in transfers /\ r \notin dropped
    BY <1>1, <1>2
  <2>2. Transferring(r) = 1
    BY <2>1 DEF Transferring
  <2> QED
    BY <2>1, <2>2, SoleOwner DEF NowhereElse
<1>5. /\ answers' \in [Requests -> Seq(Results)]
      /\ pending' \in [Batches -> Int] /\ allDone' \in [Batches -> Nat]
      /\ r \notin dropped' => Len(answers'[r]) = Len(answers[r]) + 1
      /\ \A s \in Requests \ {r} : answers'[s] = answers[s]
      /\ BatchesCounted'
  <2>1. CASE Answer(r, "error")
    BY <1>3, <1>4, <2>1, AnswerKeeps DEF HttpInv, Results
  <2>2. CASE r \in Dangling /\ UNCHANGED answerVars
    <3>1. BatchesCounted'
      BY <1>3, <2>2, NoAnswerKeeps DEF HttpInv
    <3>2. r \in dropped'
      BY <1>1, <2>2
    <3> QED
      BY <2>2, <3>1, <3>2 DEF HttpInv, HttpTypeOK, answerVars
  <2> QED
    BY <1>1, <2>1, <2>2
<1>6. HttpTypeOK' /\ OnlyIssued'
  BY <1>1, <1>3, <1>5 DEF HttpInv, HttpTypeOK, OnlyIssued
<1>7. ASSUME NEW s \in Requests \ dropped' PROVE Owners(s)' = Owners(s)
  <2>1. /\ Queued(s)' = Queued(s) /\ Held(s)' = Held(s) /\ Posted(s)' = Posted(s)
        /\ InMulti(s)' = InMulti(s) /\ Tasked(s)' = Tasked(s)
    BY <1>1 DEF Queued, Held, Posted, InMulti, Tasked
  <2>2. CASE s = r
    <3>1. Transferring(s) = 1 /\ Transferring(s)' = 0
      BY <1>1, <1>4, <2>2 DEF Transferring
    <3>2. Len(answers'[s]) = Len(answers[s]) + 1
      BY <1>5, <2>2
    <3>3. OwnersAddUp(s)
      BY <1>3, OwnerTerms
    <3> QED
      BY <2>1, <3>1, <3>2, <3>3 DEF OwnersAddUp
  <2>3. CASE s # r
    <3>1. Transferring(s)' = Transferring(s)
      BY <1>1, <2>3 DEF Transferring
    <3> QED
      BY <1>5, <2>1, <2>3, <3>1, SameOwners DEF SamePlaces
  <2> QED
    BY <2>2, <2>3
<1>8. OwnedOnce'
  BY <1>1, <1>3, <1>7, OwnedOnceKeeps DEF HttpInv
<1> QED
  BY <1>5, <1>6, <1>8 DEF HttpInv

\* Every step of either fetcher, and of its destructor.
LEMMA HttpStepKeeps ==
    ASSUME HttpFetcherAssumption, HttpInv, HttpStep PROVE HttpInv'
BY DequeueKeeps, StartProcessingKeeps, OnProcessingStartedKeeps, PerformCurlUpdateKeeps,
   AddHandleKeeps, PerformCurlUpdateDirectKeeps, RunTaskKeeps DEF HttpStep

\* The steps of the destructor drop what has not been started, and answer nothing.
LEMMA DestroyKeeps ==
    ASSUME HttpFetcherAssumption, HttpInv, Destroy PROVE HttpInv'
<1> PICK w \in Workers : RequestShutdown(w) \/ WorkerStops(w)
                         \/ ShutdownEventLoop(w) \/ QueueShutdown(w)
  BY DEF Destroy
<1>1. CASE RequestShutdown(w)
  BY <1>1, StageKeeps, StagesOfWorkers, StageNames DEF RequestShutdown, GoOn
<1>2. CASE WorkerStops(w)
  BY <1>2, StageKeeps, StagesOfWorkers, StageNames DEF WorkerStops, GoOn
<1> QED
  BY <1>1, <1>2, ShutdownEventLoopKeeps, QueueShutdownKeeps

\* The same without a queue between the callers and the event loop.
LEMMA DestroyDirectKeeps ==
    ASSUME HttpFetcherAssumption, HttpInv, DestroyDirect PROVE HttpInv'
<1>1. CASE ShutdownDirect
  <2>1. /\ stage' = [v \in Workers |-> "stopping"]
        /\ UNCHANGED <<kind, issued, queueVars, directVars, tasks, answerVars, dropped>>
    BY <1>1 DEF ShutdownDirect
  <2>2. stage' \in [Workers -> ToSet(Stages)]
    BY <2>1, StageNames
  <2> QED
    BY <2>1, <2>2, StageKeeps
<1> QED
  BY <1>1, DestroyHandleKeeps DEF DestroyDirect

(***************************************************************************)
(* PeriodicUrlFetcher.                                                     *)
(***************************************************************************)
\* At first nothing has been asked for, and nobody owns a request.
LEMMA HttpInitially ==
    ASSUME HttpFetcherAssumption, HttpInit PROVE HttpInv
<1> USE DEF HttpInit
<1>1. HttpTypeOK
  <2>1. \A w \in Workers : queue[w] = <<>>
    OBVIOUS
  <2>2. IsInjective(<<>>) /\ Len(<<>>) = 0 /\ <<>> \in Seq(Requests) /\ <<>> \in Seq(Results)
    BY DEF IsInjective
  <2>3. \A w \in Workers : IsInjective(queue[w]) /\ Len(queue[w]) <= Capacity
    BY <2>1, <2>2 DEF HttpFetcherAssumption
  <2>4. queue \in [Workers -> Seq(Requests)] /\ answers \in [Requests -> Seq(Results)]
    BY <2>2
  <2>5. pending \in [Batches -> Int] /\ allDone \in [Batches -> Nat]
    <3>1. \A batch \in Batches : Len(Urls[batch]) \in Int
      BY BatchSizes
    <3> QED
      BY <3>1
  <2>6. stage \in [Workers -> ToSet(Stages)]
    BY StageNames
  <2> QED
    BY <2>3, <2>4, <2>5, <2>6 DEF HttpTypeOK
<1>2. OwnedOnce
  <2> SUFFICES ASSUME NEW r \in Requests PROVE Owners(r) = 0
    BY DEF OwnedOnce
  <2>1. Queued(r) = {} /\ Posted(r) = {} /\ InMulti(r) = {} /\ Tasked(r) = {}
    BY DEF Queued, Posted, InMulti, Tasked, ToSet
  <2>2. Held(r) = {}
    BY DEF Held, HttpFetcherAssumption
  <2>3. Transferring(r) = 0 /\ Len(answers[r]) = 0
    BY DEF Transferring
  <2>4. Cardinality({}) = 0
    BY FS_EmptySet
  <2>5. Owners(r) = 0 + 0 + 0 + 0 + 0 + 0 + 0
    BY <2>1, <2>2, <2>3, <2>4, OwnersIsASum, Zenon
  <2> QED
    BY <2>5
<1>3. OnlyIssued
  BY DEF OnlyIssued
<1>4. BatchesCounted
  <2> SUFFICES ASSUME NEW batch \in Batches PROVE BatchCounted(batch)
    BY DEF BatchesCounted
  <2>1. /\ Cardinality(ToSet(Urls[batch])) = Len(Urls[batch])
        /\ ToSet(Urls[batch]) \subseteq Requests
        /\ Urls[batch] \in Seq(Requests)
        /\ (Cardinality(Unanswered(batch)) = 0 <=> Unanswered(batch) = {})
    BY BatchSizes
  <2>2. Unanswered(batch) = ToSet(Urls[batch])
    BY <2>1 DEF Unanswered
  <2>3. pending[batch] = Len(Urls[batch]) /\ allDone[batch] = IF Urls[batch] = <<>> THEN 1 ELSE 0
    OBVIOUS
  <2>4. Urls[batch] = <<>> <=> Len(Urls[batch]) = 0
    BY <2>1
  <2>5. Urls[batch] = <<>> <=> Unanswered(batch) = {}
    BY <2>1, <2>2, <2>4
  <2> QED
    BY <2>1, <2>2, <2>3, <2>5 DEF BatchCounted
<1> QED
  BY <1>1, <1>2, <1>3, <1>4 DEF HttpInv

\* A step that leaves the HTTP fetcher alone.
LEMMA HttpStays ==
    ASSUME HttpInv, UNCHANGED httpVars PROVE HttpInv'
BY StageKeeps DEF HttpInv, HttpTypeOK, httpVars, queueVars, directVars, answerVars

\* No step inside the HTTP fetcher makes a request.
LEMMA NothingIssued ==
    ASSUME HttpStep \/ Expire \/ Destroy \/ DestroyDirect PROVE issued' = issued
BY DEF HttpStep, Expire, Destroy, DestroyDirect, Dequeue, StartProcessing,
       OnProcessingStarted, PerformCurlUpdate, AddHandle, PerformCurlUpdateDirect, RunTask,
       RemoveExpiredEntries, RequestShutdown, WorkerStops, ShutdownEventLoop, QueueShutdown,
       ShutdownDirect, DestroyHandle

\* The batches of the runs.
LEMMA BatchesOfRounds ==
    ASSUME PeriodicAssumption
    PROVE  /\ Len(Rounds) \in Nat /\ \A k \in 1..Len(Rounds) : Rounds[k] \in Batches
           /\ \A j, k \in 1..Len(Rounds) : j # k => Rounds[j] # Rounds[k]
<1>1. Rounds \in Seq(Batches) /\ IsInjective(Rounds) /\ DOMAIN Rounds = 1..Len(Rounds)
  BY DEF PeriodicAssumption
<1> QED
  BY <1>1 DEF IsInjective

\* A run begins with nothing of it asked for.
LEMMA BeginRunKeeps ==
    ASSUME HttpFetcherAssumption, PeriodicAssumption, FetchInv, BeginRun,
           UNCHANGED <<httpVars, cached, loaded, task_id, ended>>
    PROVE  FetchInv'
<1>1. /\ round \in 0..Len(Rounds) /\ Len(Rounds) \in Nat /\ round + 1 \in 1..Len(Rounds)
      /\ round' = round + 1 /\ Rounds[round + 1] \in Batches
      /\ sync' = IF Urls[Rounds[round + 1]] = <<>> THEN "wait" ELSE "fetch"
  BY BatchesOfRounds DEF FetchInv, TypeOK, BeginRun
<1>2. HttpInv' /\ issued' = issued
  BY HttpStays DEF FetchInv, httpVars
<1>3. TypeOK'
  BY <1>1, <1>2 DEF FetchInv, TypeOK, HttpInv, Syncs
<1>4. ToSet(Urls[Rounds[round + 1]]) \cap issued = {}
  BY <1>1 DEF FetchInv, RunsInOrder
<1>5. \A k \in 1..Len(Rounds) : k > round' => ToSet(Urls[Rounds[k]]) \cap issued' = {}
  BY <1>1, <1>2 DEF FetchInv, RunsInOrder
<1>6. ASSUME sync' = "fetch"
      PROVE  Cardinality(ToSet(Urls[Rounds[round']]) \cap issued') < Len(Urls[Rounds[round']])
  <2>1. Urls[Rounds[round + 1]] # <<>> /\ Urls[Rounds[round + 1]] \in Seq(Requests)
    BY <1>1, <1>6, BatchSizes
  <2>2. Len(Urls[Rounds[round + 1]]) > 0
    BY <2>1
  <2>3. Cardinality(ToSet(Urls[Rounds[round']]) \cap issued') = 0
    BY <1>1, <1>2, <1>4, FS_EmptySet
  <2> QED
    BY <1>1, <2>2, <2>3
<1>7. RunsInOrder'
  BY <1>1, <1>5, <1>6 DEF RunsInOrder
<1> QED
  BY <1>2, <1>3, <1>7 DEF FetchInv

\* The loop of FetchUrls asks for the next URL of the run.
LEMMA FetchNextKeeps ==
    ASSUME HttpFetcherAssumption, PeriodicAssumption, FetchInv, FetchNext
    PROVE  FetchInv'
<1> DEFINE urls == Urls[Rounds[round]]
           some == ToSet(urls) \cap issued
           i == Cardinality(some) + 1
<1>1. /\ round \in 1..Len(Rounds) /\ Len(Rounds) \in Nat /\ Rounds[round] \in Batches
      /\ sync = "fetch" /\ Cardinality(some) < Len(urls)
  BY BatchesOfRounds DEF FetchInv, TypeOK, RunsInOrder, FetchNext
<1>2. /\ urls \in Seq(Requests) /\ IsFiniteSet(ToSet(urls)) /\ Len(urls) \in Nat
      /\ ToSet(urls) \subseteq Requests
  BY <1>1, BatchSizes
<1>3. IsFiniteSet(some) /\ Cardinality(some) \in Nat
  BY <1>2, FS_Subset, FS_CardinalityType
<1>4. i \in 1..Len(urls) /\ urls[i] \in Requests /\ urls[i] \in ToSet(urls)
  <2> HIDE DEF urls, some
  <2>1. i \in 1..Len(urls)
    BY <1>1, <1>2, <1>3
  <2>2. urls[i] \in ToSet(urls)
    BY <1>2, <2>1 DEF ToSet
  <2> QED
    BY <1>2, <2>1, <2>2
<1>5. /\ FetchUrl(urls[i]) /\ sync' = IF i = Len(urls) THEN "wait" ELSE sync
      /\ UNCHANGED <<round, cached, loaded, task_id, ended>>
  BY DEF FetchNext
<1>6. urls[i] \notin issued /\ issued' = issued \cup {urls[i]}
  BY <1>5 DEF FetchUrl
<1>7. HttpInv'
  BY <1>4, <1>5, FetchUrlKeeps DEF FetchInv
<1>8. TypeOK'
  BY <1>1, <1>5, <1>7 DEF FetchInv, TypeOK, HttpInv, Syncs
<1>9. ASSUME NEW k \in 1..Len(Rounds), k > round'
      PROVE  ToSet(Urls[Rounds[k]]) \cap issued' = {}
  <2>1. k > round /\ k # round
    BY <1>1, <1>5, <1>9
  <2>2. ToSet(Urls[Rounds[k]]) \cap issued = {}
    BY <2>1 DEF FetchInv, RunsInOrder
  <2>3. Rounds[k] # Rounds[round] /\ Rounds[k] \in Batches
    BY <1>1, <2>1, BatchesOfRounds
  <2>4. ToSet(Urls[Rounds[k]]) \cap ToSet(urls) = {}
    BY <1>1, <2>3 DEF HttpFetcherAssumption
  <2> QED
    BY <1>4, <1>6, <2>2, <2>4
<1>10. ASSUME sync' = "fetch"
       PROVE  Cardinality(ToSet(Urls[Rounds[round']]) \cap issued') < Len(Urls[Rounds[round']])
  <2>1. i # Len(urls)
    BY <1>5, <1>10
  <2>2. ToSet(urls) \cap issued' = some \cup {urls[i]} /\ urls[i] \notin some
    BY <1>4, <1>6
  <2>3. Cardinality(some \cup {urls[i]}) = Cardinality(some) + 1
    BY <1>3, <2>2, FS_AddElement
  <2>4. Cardinality(ToSet(urls) \cap issued') = i
    BY <2>2, <2>3
  <2>5. Urls[Rounds[round']] = urls
    BY <1>5
  <2> HIDE DEF urls, i
  <2> QED
    BY <1>2, <1>4, <2>1, <2>4, <2>5
<1>11. RunsInOrder'
  BY <1>1, <1>5, <1>9, <1>10 DEF RunsInOrder
<1> QED
  BY <1>7, <1>8, <1>11 DEF FetchInv

\* Every step keeps the inductive invariant.
LEMMA FetchKeeps ==
    ASSUME HttpFetcherAssumption, PeriodicAssumption, FetchInv, [Next]_vars
    PROVE  FetchInv'
<1>1. CASE Start
  BY <1>1, BeginRunKeeps DEF Start
<1>2. CASE TimerFires
  BY <1>2, BeginRunKeeps DEF TimerFires
<1>3. CASE FetchNext
  BY <1>3, FetchNextKeeps
<1>4. ASSUME UNCHANGED <<httpVars, round>>, sync' \in Syncs,
             sync' = "fetch" => sync = "fetch",
             cached' \in BOOLEAN, loaded' \in BOOLEAN, task_id' \in BOOLEAN, ended' \in BOOLEAN
      PROVE  FetchInv'
  <2>1. HttpInv' /\ issued' = issued
    BY <1>4, HttpStays DEF FetchInv, httpVars
  <2> QED
    BY <1>4, <2>1 DEF FetchInv, TypeOK, HttpInv, RunsInOrder
<1>5. CASE DoneCallback
  <2>1. cached' \in BOOLEAN /\ loaded' \in BOOLEAN /\ sync' = "rearm"
        /\ UNCHANGED <<httpVars, round, task_id, ended>>
    BY <1>5 DEF DoneCallback, FetchInv, TypeOK
  <2> QED
    BY <1>4, <2>1 DEF FetchInv, TypeOK, Syncs
<1>6. CASE Rearm
  BY <1>4, <1>6 DEF Rearm, FetchInv, TypeOK, Syncs
<1>7. CASE End
  BY <1>4, <1>7 DEF End, FetchInv, TypeOK, Syncs
<1>8. ASSUME HttpInv', UNCHANGED <<issued, fetcherVars>> PROVE FetchInv'
  BY <1>8 DEF FetchInv, TypeOK, HttpInv, RunsInOrder, fetcherVars
<1>9. CASE Other
  <2>1. PICK r \in Singles : FetchUrl(r)
    BY <1>9 DEF Other
  <2>2. r \in Requests /\ \A batch \in Batches : r \notin ToSet(Urls[batch])
    BY <2>1 DEF Singles
  <2>3. HttpInv'
    BY <2>1, <2>2, FetchUrlKeeps DEF FetchInv
  <2>4. issued' = issued \cup {r} /\ UNCHANGED fetcherVars
    BY <1>9, <2>1 DEF Other, FetchUrl
  <2>5. \A k \in 1..Len(Rounds) : ToSet(Urls[Rounds[k]]) \cap issued'
                                  = ToSet(Urls[Rounds[k]]) \cap issued
    BY <2>2, <2>4, BatchesOfRounds
  <2>6. round \in 0..Len(Rounds) /\ Len(Rounds) \in Nat
    BY BatchesOfRounds DEF FetchInv, TypeOK
  <2>7. RunsInOrder'
    <3>1. \A k \in 1..Len(Rounds) : k > round' => ToSet(Urls[Rounds[k]]) \cap issued' = {}
      BY <2>4, <2>5 DEF FetchInv, RunsInOrder, fetcherVars
    <3>2. ASSUME sync' = "fetch"
          PROVE  /\ round' > 0
                 /\ Cardinality(ToSet(Urls[Rounds[round']]) \cap issued')
                      < Len(Urls[Rounds[round']])
      <4>1. round' = round /\ sync = "fetch"
        BY <2>4, <3>2 DEF fetcherVars
      <4>2. round \in 1..Len(Rounds)
        BY <2>6, <4>1 DEF FetchInv, RunsInOrder
      <4> QED
        BY <2>5, <4>1, <4>2 DEF FetchInv, RunsInOrder
    <3> QED
      BY <3>1, <3>2 DEF RunsInOrder
  <2>8. TypeOK'
    BY <2>3, <2>4 DEF FetchInv, TypeOK, HttpInv, fetcherVars
  <2> QED
    BY <2>3, <2>7, <2>8 DEF FetchInv
<1>10. CASE Shutdown
  BY <1>8, <1>10, NothingIssued, DestroyKeeps, DestroyDirectKeeps DEF Shutdown, FetchInv
<1>11. CASE Http
  BY <1>8, <1>11, NothingIssued, HttpStepKeeps DEF Http, FetchInv
<1>12. CASE Ticker
  BY <1>8, <1>12, NothingIssued, RemoveExpiredEntriesKeeps DEF Ticker, Expire, FetchInv
<1>13. CASE UNCHANGED vars
  BY <1>4, <1>13 DEF vars, FetchInv, TypeOK
<1> QED
  BY <1>1, <1>2, <1>3, <1>5, <1>6, <1>7, <1>9, <1>10, <1>11, <1>12, <1>13 DEF Next, Sync

(***************************************************************************)
(* The theorems.                                                           *)
(***************************************************************************)
\* The fetchers start with it.
LEMMA FetchInitially ==
    ASSUME HttpFetcherAssumption, PeriodicAssumption, Init
    PROVE  FetchInv
<1>1. HttpInv /\ issued = {} /\ round = 0 /\ sync = "start"
  BY HttpInitially DEF Init, HttpInit
<1>2. round \in 0..Len(Rounds)
  BY <1>1, BatchesOfRounds
<1>3. TypeOK
  BY <1>1, <1>2 DEF Init, HttpInv, TypeOK, Syncs
<1>4. RunsInOrder
  BY <1>1 DEF RunsInOrder
<1> QED
  BY <1>1, <1>4, <1>3 DEF FetchInv

\* The inductive invariant holds: requests pass from owner to owner in every step of
\* the workers, the event loops, the executor, the ticker and the destructors.
THEOREM FetchInvariant ==
    ASSUME HttpFetcherAssumption, PeriodicAssumption
    PROVE  Spec => []FetchInv
<1>1. Init => FetchInv
  BY FetchInitially
<1>2. FetchInv /\ [Next]_vars => FetchInv'
  BY FetchKeeps
<1> QED
  BY <1>1, <1>2, PTL DEF Spec

\* Type correctness: no queue of a worker ever exceeds its capacity or holds a
\* request twice.
THEOREM FetchTypeCorrect ==
    ASSUME HttpFetcherAssumption, PeriodicAssumption
    PROVE  Spec => []TypeOK
<1>1. FetchInv => TypeOK
  BY DEF FetchInv
<1> QED
  BY <1>1, FetchInvariant, PTL

\* A request has one owner from when it is made until its callback has been called,
\* and the callback of a batch is called once, with its last result (EachIsAnsweredOnce).
THEOREM EveryRequestHasOneOwner ==
    ASSUME HttpFetcherAssumption, PeriodicAssumption
    PROVE  Spec => []EachIsAnsweredOnce
<1>1. FetchInv => EachIsAnsweredOnce
  <2> SUFFICES ASSUME FetchInv PROVE EachIsAnsweredOnce
    OBVIOUS
  <2>1. ASSUME NEW r \in issued \ (dropped \cup Dangling) PROVE Owners(r) = 1
    BY <2>1 DEF FetchInv, HttpInv, HttpTypeOK, OwnedOnce
  <2>2. ASSUME NEW batch \in Batches, ToSet(Urls[batch]) \cap (dropped \cup Dangling) = {}
        PROVE  allDone[batch] = IF \A r \in ToSet(Urls[batch]) : answers[r] # <<>> THEN 1 ELSE 0
    <3>1. BatchCounted(batch)
      BY <2>2 DEF FetchInv, HttpInv, BatchesCounted
    <3> QED
      BY <3>1 DEF BatchCounted, Unanswered
  <2> QED
    BY <2>1, <2>2 DEF EachIsAnsweredOnce
<1> QED
  BY <1>1, FetchInvariant, PTL

-----------------------------------------------------------------------------
(* The inductive invariant.                                                  *)

Published == Contents \cup {None}
Codes == Seq(Scripts) \cup {None}
Polls == [pc : {"unstarted", "get", "load", "timer", "ended"}, waiting : SUBSET Sources,
          remaining : Nat, next : Nat, results : [Sources -> Published]]

Shape ==
    /\ conf \in Deployments
    /\ published \in [Sources -> Published]
    /\ changes \in 0..MaxChanges /\ faults \in 0..MaxFaults
    /\ starting \in 0..Len(fetcher) + 1
    /\ success \in [DOMAIN fetcher -> BOOLEAN]
    /\ poll \in [DOMAIN fetcher -> Polls]
    /\ cachedCode \in [Sources -> Codes] /\ loadedCode \in [Sources -> Codes]
    /\ rejected \subseteq Sources

\* A poll waits for what it has asked for, and counts at least that; only the answers
\* of buyers are loaded one by one.
Waits(i, p) ==
    /\ p.waiting \subseteq ToSet(RequestsOf(i))
    /\ Cardinality(p.waiting) <= p.remaining
    /\ p.next \in 1..Len(RequestsOf(i)) + 1
    /\ p.pc = "load" => fetcher[i].kind = "buyers"

PollsWait == \A i \in DOMAIN fetcher : Waits(i, poll[i])

\* Start returns OK on account of some_load_success_, which a later load that fails
\* resets; the code of an earlier load stays.
SuccessIsCode == \A i \in DOMAIN fetcher : success[i] => HasCode(i)
CodeOfThoseBefore == \A i \in DOMAIN fetcher : i < starting => HasCode(i)

CodeInv ==
    /\ Shape /\ PollsWait
    /\ SuccessIsCode /\ CodeOfThoseBefore /\ ReportsForTheirAuction

-----------------------------------------------------------------------------
(* The configuration and the parts of a step.                                *)

LEMMA Configured ==
    ASSUME conf \in Deployments
    PROVE  /\ fetcher \in Seq(Fetchers) /\ Len(fetcher) \in Nat
           /\ DOMAIN fetcher = 1..Len(fetcher)
           /\ \A i \in DOMAIN fetcher : WellConfigured(fetcher[i])
<1>1. fetcher \in Seq(Fetchers) /\ \A i \in DOMAIN fetcher : WellConfigured(fetcher[i])
  BY UdfFetchAssumption DEF fetcher
<1> QED
  BY <1>1

\* What fetchers ask for are sources, finitely many; those that are not of the buyers
\* ask for all of theirs, of which there are some.
LEMMA Requested ==
    ASSUME conf \in Deployments, NEW i \in DOMAIN fetcher
    PROVE  /\ RequestsOf(i) \in Seq(Sources) /\ fetcher[i].sources \in Seq(Sources)
           /\ ToSet(RequestsOf(i)) \subseteq Sources
           /\ ToSet(fetcher[i].sources) \subseteq Sources
           /\ ToSet(RequestsOf(i)) \subseteq ToSet(fetcher[i].sources)
           /\ IsFiniteSet(ToSet(RequestsOf(i)))
           /\ Cardinality(ToSet(RequestsOf(i))) <= Len(RequestsOf(i))
           /\ fetcher[i].kind # "buyers" =>
                 /\ RequestsOf(i) = fetcher[i].sources
                 /\ Version(i) \in Sources /\ Version(i) \in ToSet(RequestsOf(i))
                 /\ \A s \in ToSet(fetcher[i].sources) : s[1] = "code"
<1>1. WellConfigured(fetcher[i])
  BY Configured
<1>2. /\ RequestsOf(i) \in Seq(Sources) /\ fetcher[i].sources \in Seq(Sources)
      /\ ToSet(RequestsOf(i)) \subseteq ToSet(fetcher[i].sources)
  BY <1>1 DEF WellConfigured, Fetchers, RequestsOf
<1> DEFINE n == Len(RequestsOf(i))
           T == ToSet(RequestsOf(i))
<1>3. n \in Nat /\ DOMAIN RequestsOf(i) = 1..n /\ RequestsOf(i) \in [1..n -> T]
  BY <1>2 DEF ToSet
<1>4. RequestsOf(i) \in Surjection(1..n, T)
  BY <1>3 DEF Surjection, ToSet
<1>5. IsFiniteSet(1..n) /\ Cardinality(1..n) = n
  <2> HIDE DEF n
  <2>1. /\ IsFiniteSet(1..n)
        /\ Cardinality(1..n) = IF 1 > n THEN 0 ELSE n - 1 + 1
    BY <1>3, FS_Interval
  <2> QED
    BY <1>3, <2>1
<1>6. IsFiniteSet(T) /\ Cardinality(T) <= n
  BY <1>4, <1>5, FS_Surjection
<1>7. T \subseteq Sources /\ ToSet(fetcher[i].sources) \subseteq Sources
  BY <1>2 DEF ToSet
<1>8. ASSUME fetcher[i].kind # "buyers"
      PROVE  /\ RequestsOf(i) = fetcher[i].sources
             /\ Version(i) \in Sources /\ Version(i) \in ToSet(RequestsOf(i))
             /\ \A s \in ToSet(fetcher[i].sources) : s[1] = "code"
  <2>1. /\ RequestsOf(i) = fetcher[i].sources /\ fetcher[i].sources # <<>>
        /\ \A k \in DOMAIN fetcher[i].sources : fetcher[i].sources[k][1] = "code"
    BY <1>1, <1>8 DEF WellConfigured, RequestsOf
  <2>2. 1 \in DOMAIN fetcher[i].sources
    BY <2>1, <1>2
  <2> QED
    BY <2>1, <2>2, <1>2 DEF ToSet, Version
<1> QED
  BY <1>2, <1>6, <1>7, <1>8

LEMMA NoneIsNoCode == None \notin Seq(Scripts) /\ NoAnswer \in [Sources -> Published]
BY UdfFetchAssumption DEF NoAnswer, Published

\* An idle poll waits for nothing.
LEMMA IdlePoll ==
    ASSUME conf \in Deployments, NEW i \in DOMAIN fetcher,
           NEW pc \in {"unstarted", "get", "timer", "ended"}
    PROVE  Idle(pc) \in Polls /\ Waits(i, Idle(pc))
<1>1. RequestsOf(i) \in Seq(Sources)
  BY Requested
<1>2. {} \subseteq ToSet(RequestsOf(i)) /\ Cardinality({}) = 0
  BY FS_EmptySet
<1> QED
  BY <1>1, <1>2, NoneIsNoCode DEF Idle, Polls, Waits

\* A load adds code or leaves what there was; it fails unless the version is there.
LEMMA Loads ==
    ASSUME Shape, NEW i, NEW v \in Sources, NEW code \in Seq(Scripts), LoadSync(i, v, code)
    PROVE  /\ faults' \in 0..MaxFaults /\ loadedCode' \in [Sources -> Codes]
           /\ rejected' \subseteq Sources
           /\ \A s \in Sources :
                 loadedCode'[s] = loadedCode[s] \/ (s = v /\ loadedCode'[s] = code)
           /\ v \notin rejected' => loadedCode'[v] # None
<1>1. code # None /\ code \in Codes
  BY NoneIsNoCode DEF Codes
<1>2. faults' \in 0..MaxFaults
  BY UdfFetchAssumption DEF Shape, LoadSync, Fault
<1>3. loadedCode' \in [Sources -> Codes] /\ rejected' \subseteq Sources
  BY <1>1 DEF Shape, LoadSync
<1>4. \A s \in Sources :
          loadedCode'[s] = loadedCode[s] \/ (s = v /\ loadedCode'[s] = code)
  BY DEF Shape, LoadSync
<1>5. v \notin rejected' => loadedCode'[v] # None
  BY <1>1 DEF Shape, LoadSync
<1> QED
  BY <1>2, <1>3, <1>4, <1>5

\* Once there is code there is code.
LEMMA CodeStays ==
    ASSUME Shape, conf' = conf, NEW i \in DOMAIN fetcher, HasCode(i),
           \A s \in Sources : loadedCode[s] # None => loadedCode'[s] # None
    PROVE  HasCode(i)'
<1>1. fetcher' = fetcher
  BY DEF fetcher
<1>2. conf \in Deployments
  BY DEF Shape
<1>3. ASSUME fetcher[i].kind \in {"local", "url"} PROVE loadedCode'[Version(i)] # None
  BY <1>2, <1>3, Requested DEF HasCode
<1>4. ASSUME IsBucket(i) PROVE \E s \in ToSet(fetcher[i].sources) : loadedCode'[s] # None
  <2>1. PICK s \in ToSet(fetcher[i].sources) : loadedCode[s] # None
    BY <1>4 DEF HasCode
  <2>2. s \in Sources
    BY <1>2, Requested
  <2> QED
    BY <2>1, <2>2
<1> QED
  BY <1>1, <1>3, <1>4 DEF HasCode, Version, IsBucket

\* Steps that leave the code and the success of loads as they are.
LEMMA Quiet ==
    ASSUME CodeInv, UNCHANGED <<conf, starting, success, loadedCode>>
    PROVE  (SuccessIsCode /\ CodeOfThoseBefore /\ ReportsForTheirAuction)'
<1>1. fetcher' = fetcher
  BY DEF fetcher
<1>2. \A i \in DOMAIN fetcher : HasCode(i) <=> HasCode(i)'
  BY <1>1 DEF HasCode, Version, IsBucket
<1> QED
  BY <1>1, <1>2
     DEF CodeInv, SuccessIsCode, CodeOfThoseBefore, ReportsForTheirAuction, NothingLeftOut,
         RequestsOf

\* A step that loads code for a fetcher, of which it says what some_load_success_
\* becomes. What it loads as a buyer's must be of the auction.
LEMMA Loading ==
    ASSUME CodeInv, UNCHANGED <<conf, starting>>,
           NEW i \in DOMAIN fetcher, NEW v \in Sources, NEW code \in Seq(Scripts),
           LoadSync(i, v, code),
           success' = [success EXCEPT ![i] = success'[i]],
           success'[i] => success[i] \/ v \notin rejected',
           fetcher[i].kind \in {"local", "url"} => v = Version(i),
           IsBucket(i) => v \in ToSet(fetcher[i].sources),
           (\A j \in DOMAIN fetcher : NothingLeftOut(j)) /\ v[1] # "code" =>
               code[1].from = v
    PROVE  (SuccessIsCode /\ CodeOfThoseBefore /\ ReportsForTheirAuction)'
<1>1. fetcher' = fetcher
  BY DEF fetcher
<1>2. Shape /\ SuccessIsCode /\ CodeOfThoseBefore /\ ReportsForTheirAuction
  BY DEF CodeInv
<1>3. \A s \in Sources :
          loadedCode'[s] = loadedCode[s] \/ (s = v /\ loadedCode'[s] = code)
  BY <1>2, Loads
<1>4. \A s \in Sources : loadedCode[s] # None => loadedCode'[s] # None
  BY <1>3, NoneIsNoCode
<1>5. \A j \in DOMAIN fetcher : HasCode(j) => HasCode(j)'
  BY <1>2, <1>4, CodeStays
<1>6. SuccessIsCode'
  <2>0. v \notin rejected' => HasCode(i)'
    BY <1>1, <1>2, Loads DEF HasCode, Version, IsBucket
  <2> SUFFICES ASSUME NEW j \in DOMAIN fetcher, success'[j] PROVE HasCode(j)'
    BY <1>1 DEF SuccessIsCode
  <2>1. CASE j = i
    BY <2>0, <2>1, <1>2, <1>5 DEF SuccessIsCode
  <2>2. CASE j # i
    <3>1. success[j]
      BY <2>2, <1>2 DEF Shape
    <3> QED
      BY <3>1, <1>2, <1>5 DEF SuccessIsCode
  <2> QED
    BY <2>1, <2>2
<1>7. CodeOfThoseBefore'
  BY <1>1, <1>2, <1>5 DEF CodeOfThoseBefore
<1>8. ReportsForTheirAuction'
  BY <1>1, <1>2, <1>3 DEF ReportsForTheirAuction, NothingLeftOut, RequestsOf
<1> QED
  BY <1>6, <1>7, <1>8

-----------------------------------------------------------------------------
(* The steps.                                                                *)

\* A poll that has changed for one fetcher.
LEMMA PollChanges ==
    ASSUME CodeInv, conf' = conf, NEW i \in DOMAIN fetcher, NEW p \in Polls, Waits(i, p),
           poll' = [poll EXCEPT ![i] = p]
    PROVE  poll' \in [DOMAIN fetcher' -> Polls] /\ PollsWait'
<1>1. fetcher' = fetcher /\ \A j \in DOMAIN fetcher : \A q : Waits(j, q)' <=> Waits(j, q)
  BY DEF fetcher, Waits, RequestsOf
<1>2. poll' \in [DOMAIN fetcher -> Polls]
  BY DEF CodeInv, Shape
<1>3. \A j \in DOMAIN fetcher : Waits(j, poll'[j])
  BY DEF CodeInv, Shape, PollsWait
<1> QED
  BY <1>1, <1>2, <1>3 DEF PollsWait, Waits, RequestsOf, fetcher

LEMMA CodeInitially == CodeInit => CodeInv
<1> SUFFICES ASSUME CodeInit PROVE CodeInv
  OBVIOUS
<1>1. conf \in Deployments /\ Len(fetcher) \in Nat /\ DOMAIN fetcher = 1..Len(fetcher)
  BY Configured DEF CodeInit
<1>2. Shape
  <2>1. published \in [Sources -> Published]
    BY UdfFetchAssumption DEF CodeInit, Published
  <2>2. poll \in [DOMAIN fetcher -> Polls]
    BY <1>1, IdlePoll DEF CodeInit
  <2>3. NoAnswer \in [Sources -> Codes]
    BY DEF NoAnswer, Codes
  <2>4. changes \in 0..MaxChanges /\ faults \in 0..MaxFaults
    BY UdfFetchAssumption DEF CodeInit
  <2> QED
    BY <1>1, <2>1, <2>2, <2>3, <2>4 DEF CodeInit, Shape
<1>3. PollsWait
  BY <1>1, IdlePoll DEF CodeInit, PollsWait
<1>4. SuccessIsCode
  BY DEF CodeInit, SuccessIsCode
<1>5. CodeOfThoseBefore
  BY <1>1 DEF CodeInit, CodeOfThoseBefore
<1>6. ReportsForTheirAuction
  BY DEF CodeInit, ReportsForTheirAuction, NoAnswer
<1> QED
  BY <1>2, <1>3, <1>4, <1>5, <1>6 DEF CodeInv

LEMMA PublishKeeps == CodeInv /\ Publish => CodeInv'
<1> SUFFICES ASSUME CodeInv, Publish PROVE CodeInv'
  OBVIOUS
<1>1. UNCHANGED <<conf, faults, starting, poll, success, cachedCode, loadedCode, rejected>>
  BY DEF Publish
<1>2. published' \in [Sources -> Published]
  BY DEF Publish, CodeInv, Shape, Published
<1>3. changes' \in 0..MaxChanges
  BY UdfFetchAssumption DEF Publish, CodeInv, Shape
<1>4. Shape' /\ PollsWait'
  BY <1>1, <1>2, <1>3 DEF CodeInv, Shape, PollsWait, Waits, RequestsOf, fetcher
<1> QED
  BY <1>1, <1>4, Quiet DEF CodeInv

LEMMA LocalLoadKeeps ==
    ASSUME CodeInv, NEW i \in DOMAIN fetcher, LocalLoad(i)
    PROVE  CodeInv'
<1> USE DEF LocalLoad
<1>1. /\ Shape /\ conf \in Deployments
      /\ UNCHANGED <<conf, published, changes, starting, cachedCode>>
  BY DEF CodeInv, Shape
<1>2. poll' \in [DOMAIN fetcher' -> Polls] /\ PollsWait'
  BY <1>1, IdlePoll, PollChanges
<1>3. CASE published[Version(i)] = None
  <2>1. UNCHANGED <<faults, loadedCode, rejected, success>>
    BY <1>3 DEF NothingLoaded
  <2> QED
    BY <1>1, <1>2, <2>1, Quiet DEF CodeInv, Shape, fetcher
<1>4. CASE published[Version(i)] # None
  <2> DEFINE v == Version(i)
             code == <<Script(v, published[v])>>
  <2>1. /\ LoadSync(i, v, code)
        /\ success' = [success EXCEPT ![i] = v \notin rejected']
    BY <1>4
  <2>2. v \in Sources /\ v \in ToSet(fetcher[i].sources) /\ v[1] = "code"
    BY <1>1, Requested
  <2>3. code \in Seq(Scripts)
    <3>1. published[v] \in Contents
      BY <1>1, <1>4, <2>2 DEF Shape, Published
    <3> QED
      BY <2>2, <3>1 DEF Script, Scripts
  <2>4. success' \in [DOMAIN fetcher -> BOOLEAN] /\ success'[i] = (v \notin rejected')
    BY <1>1, <2>1 DEF Shape
  <2>5. (SuccessIsCode /\ CodeOfThoseBefore /\ ReportsForTheirAuction)'
    <3> HIDE DEF code
    <3> QED
      BY <1>1, <2>1, <2>2, <2>3, <2>4, Loading
  <2>6. /\ faults' \in 0..MaxFaults /\ loadedCode' \in [Sources -> Codes]
        /\ rejected' \subseteq Sources
    <3> HIDE DEF code
    <3> QED
      BY <1>1, <2>1, <2>2, <2>3, Loads
  <2> QED
    BY <1>1, <1>2, <2>4, <2>5, <2>6 DEF CodeInv, Shape, fetcher
<1> QED
  BY <1>3, <1>4

LEMMA FetchUrlsKeeps ==
    ASSUME CodeInv, NEW i \in DOMAIN fetcher, FetchUrls(i)
    PROVE  CodeInv'
<1> DEFINE asked == ToSet(RequestsOf(i))
           n == Len(RequestsOf(i))
           p == [Idle("get") EXCEPT !.waiting = asked, !.remaining = n]
<1>1. /\ Shape /\ conf \in Deployments
      /\ UNCHANGED <<conf, published, changes, faults, starting, success, cachedCode,
                     loadedCode, rejected>>
  BY DEF CodeInv, Shape, FetchUrls
<1>2. Idle("ended") \in Polls /\ Waits(i, Idle("ended"))
  BY <1>1, IdlePoll
<1>3. p \in Polls /\ Waits(i, p)
  <2>1. n \in Nat /\ asked \subseteq Sources /\ Cardinality(asked) <= n
    BY <1>1, Requested
  <2>2. Idle("get") \in Polls /\ Waits(i, Idle("get"))
    BY <1>1, IdlePoll
  <2> HIDE DEF asked, n
  <2>3. p \in Polls
    BY <2>1, <2>2 DEF Polls
  <2>4. /\ p.waiting = asked /\ p.remaining = n /\ p.next = Idle("get").next
        /\ p.pc = Idle("get").pc
    BY <2>2 DEF Polls
  <2> HIDE DEF p
  <2> QED
    BY <2>1, <2>2, <2>3, <2>4 DEF Waits, asked
<1>4. poll' = [poll EXCEPT ![i] = Idle("ended")] \/ poll' = [poll EXCEPT ![i] = p]
  BY DEF FetchUrls
<1>5. poll' \in [DOMAIN fetcher' -> Polls] /\ PollsWait'
  <2> HIDE DEF p
  <2> QED
    BY <1>1, <1>2, <1>3, <1>4, PollChanges
<1> QED
  BY <1>1, <1>5, Quiet DEF CodeInv, Shape, fetcher

\* One answer less to wait for.
LEMMA Answered ==
    ASSUME CodeInv, NEW i \in DOMAIN fetcher, NEW s \in poll[i].waiting,
           NEW results \in [Sources -> Published]
    PROVE  LET p == [poll[i] EXCEPT !.waiting = @ \ {s}, !.remaining = @ - 1,
                                    !.results = results]
           IN  p \in Polls /\ Waits(i, p)
<1> DEFINE w == poll[i].waiting
           r == poll[i].remaining
           p == [poll[i] EXCEPT !.waiting = @ \ {s}, !.remaining = @ - 1,
                                !.results = results]
<1>1. poll[i] \in Polls /\ Waits(i, poll[i]) /\ conf \in Deployments
  BY DEF CodeInv, Shape, PollsWait
<1>2. IsFiniteSet(w) /\ Cardinality(w) \in Nat /\ Cardinality(w) <= r /\ r \in Nat
  <2>1. w \subseteq ToSet(RequestsOf(i)) /\ IsFiniteSet(ToSet(RequestsOf(i)))
    BY <1>1, Requested DEF Waits
  <2>2. IsFiniteSet(w)
    BY <2>1, FS_Subset
  <2> QED
    BY <1>1, <2>2, FS_CardinalityType DEF Waits, Polls
<1>3. Cardinality(w \ {s}) = Cardinality(w) - 1 /\ Cardinality(w \ {s}) \in Nat
  BY <1>2, FS_RemoveElement, FS_CardinalityType
<1>4. r - 1 \in Nat
  BY <1>2, <1>3
<1>5. p \in Polls
  BY <1>1, <1>4 DEF Polls
<1>6. /\ p.waiting = w \ {s} /\ p.remaining = r - 1 /\ p.next = poll[i].next
      /\ p.pc = poll[i].pc
  BY <1>1 DEF Polls
<1>7. Waits(i, p)
  <2> HIDE DEF p
  <2> QED
    BY <1>1, <1>2, <1>3, <1>6 DEF Waits
<1> QED
  BY <1>5, <1>7

LEMMA AnswerUrlKeeps ==
    ASSUME CodeInv, NEW i \in DOMAIN fetcher, NEW s \in Sources, AnswerUrl(i, s)
    PROVE  CodeInv'
<1>1. /\ Shape /\ poll[i] \in Polls /\ s \in poll[i].waiting
      /\ UNCHANGED <<conf, published, changes, starting, success, cachedCode, loadedCode,
                     rejected>>
  BY DEF CodeInv, Shape, AnswerUrl
<1>2. PICK c \in {published[s], None} :
          /\ IF c # published[s] THEN Fault ELSE UNCHANGED faults
          /\ poll' = [poll EXCEPT ![i].waiting = @ \ {s}, ![i].remaining = @ - 1,
                                  ![i].results[s] = c]
  BY DEF AnswerUrl
<1>3. faults' \in 0..MaxFaults
  BY <1>1, <1>2, UdfFetchAssumption DEF Shape, Fault
<1> DEFINE results == [poll[i].results EXCEPT ![s] = c]
           p == [poll[i] EXCEPT !.waiting = @ \ {s}, !.remaining = @ - 1,
                                !.results = results]
<1>4. results \in [Sources -> Published]
  BY <1>1, <1>2 DEF Shape, Polls, Published
<1>5. p \in Polls /\ Waits(i, p)
  <2> HIDE DEF results
  <2> QED
    BY <1>1, <1>4, Answered
<1>6. poll' = [poll EXCEPT ![i] = p]
  BY <1>1, <1>2 DEF Shape, Polls
<1>7. poll' \in [DOMAIN fetcher' -> Polls] /\ PollsWait'
  <2> HIDE DEF p
  <2> QED
    BY <1>1, <1>5, <1>6, PollChanges
<1> QED
  BY <1>1, <1>3, <1>7, Quiet DEF CodeInv, Shape, fetcher

\* What all answers of a poll are, if each has a content.
LEMMA AllAnswers ==
    ASSUME Shape, NEW i \in DOMAIN fetcher
    PROVE  /\ Answers(i) = [k \in 1..Len(RequestsOf(i)) |-> Answers(i)[k]]
           /\ Len(RequestsOf(i)) \in Nat
           /\ \A k \in 1..Len(RequestsOf(i)) :
                 /\ Answers(i)[k].from = RequestsOf(i)[k] /\ RequestsOf(i)[k] \in Sources
                 /\ Answers(i)[k] \in [from : Sources, content : Published]
                 /\ Answers(i)[k].content # None => Answers(i)[k] \in Scripts
           /\ AllFetched(i) => Answers(i) \in Seq(Scripts)
<1>1. poll[i] \in Polls /\ RequestsOf(i) \in Seq(Sources)
  BY Requested DEF Shape
<1>2. \A k \in 1..Len(RequestsOf(i)) :
          /\ Answers(i)[k] = [from |-> RequestsOf(i)[k],
                              content |-> poll[i].results[RequestsOf(i)[k]]]
          /\ RequestsOf(i)[k] \in Sources
          /\ poll[i].results[RequestsOf(i)[k]] \in Published
  BY <1>1 DEF Answers, Script, Polls
<1>3. Answers(i) = [k \in 1..Len(RequestsOf(i)) |-> Answers(i)[k]]
  BY <1>1 DEF Answers
<1>4. \A k \in 1..Len(RequestsOf(i)) :
          /\ Answers(i)[k] \in [from : Sources, content : Published]
          /\ Answers(i)[k].content # None => Answers(i)[k] \in Scripts
  <2> TAKE k \in 1..Len(RequestsOf(i))
  <2> DEFINE s == RequestsOf(i)[k]
             c == poll[i].results[RequestsOf(i)[k]]
  <2>1. Answers(i)[k] = [from |-> s, content |-> c] /\ s \in Sources /\ c \in Published
    BY <1>2
  <2> HIDE DEF s, c
  <2>2. Answers(i)[k] \in [from : Sources, content : Published] /\ Answers(i)[k].content = c
    BY <2>1
  <2>3. c # None => Answers(i)[k] \in Scripts
    BY <2>1 DEF Scripts, Published
  <2> QED
    BY <2>2, <2>3
<1>5. ASSUME AllFetched(i) PROVE Answers(i) \in Seq(Scripts)
  <2>1. \A k \in 1..Len(RequestsOf(i)) : Answers(i)[k] \in Scripts
    BY <1>1, <1>4, <1>5 DEF AllFetched
  <2>2. Answers(i) \in [1..Len(RequestsOf(i)) -> Scripts] /\ Len(RequestsOf(i)) \in Nat
    BY <1>1, <1>3, <2>1
  <2> QED
    BY <2>2
<1> QED
  BY <1>1, <1>2, <1>3, <1>4, <1>5

LEMMA OnUrlFetchKeeps ==
    ASSUME CodeInv, NEW i \in DOMAIN fetcher, OnUrlFetch(i)
    PROVE  CodeInv'
<1>1. /\ Shape /\ conf \in Deployments /\ fetcher[i].kind = "url"
      /\ UNCHANGED <<conf, published, changes, starting>>
      /\ poll' = [poll EXCEPT ![i] = Idle("timer")]
  BY DEF CodeInv, Shape, OnUrlFetch
<1>2. poll' \in [DOMAIN fetcher' -> Polls] /\ PollsWait'
  BY <1>1, IdlePoll, PollChanges
<1>3. CASE ~(AllFetched(i) /\ Changed(i))
  <2>1. UNCHANGED <<faults, loadedCode, rejected, cachedCode, success>>
    BY <1>3 DEF OnUrlFetch, NothingLoaded
  <2> QED
    BY <1>1, <1>2, <2>1, Quiet DEF CodeInv, Shape, fetcher
<1>4. CASE AllFetched(i) /\ Changed(i)
  <2> DEFINE v == Version(i)
             code == Answers(i)
  <2>1. /\ LoadSync(i, v, code)
        /\ cachedCode' = [cachedCode EXCEPT ![v] = code]
        /\ success' = [success EXCEPT ![i] = v \notin rejected']
    BY <1>4 DEF OnUrlFetch
  <2>2. v \in Sources /\ v[1] = "code" /\ fetcher[i].kind # "buyers"
    BY <1>1, Requested
  <2>3. code \in Seq(Scripts)
    BY <1>1, <1>4, AllAnswers
  <2>4. success' \in [DOMAIN fetcher -> BOOLEAN] /\ success'[i] = (v \notin rejected')
    BY <1>1, <2>1 DEF Shape
  <2>5. cachedCode' \in [Sources -> Codes]
    BY <1>1, <2>1, <2>2, <2>3 DEF Shape, Codes
  <2> HIDE DEF code
  <2>6. (SuccessIsCode /\ CodeOfThoseBefore /\ ReportsForTheirAuction)'
    BY <1>1, <2>1, <2>2, <2>3, <2>4, Loading DEF IsBucket
  <2>7. /\ faults' \in 0..MaxFaults /\ loadedCode' \in [Sources -> Codes]
        /\ rejected' \subseteq Sources
    BY <1>1, <2>1, <2>2, <2>3, Loads
  <2> QED
    BY <1>1, <1>2, <2>4, <2>5, <2>6, <2>7 DEF CodeInv, Shape, fetcher
<1> QED
  BY <1>3, <1>4

\* Steps that only change the poll of one fetcher.
LEMMA OnlyPollKeeps ==
    ASSUME CodeInv, NEW i \in DOMAIN fetcher, NEW p \in Polls, Waits(i, p),
           poll' = [poll EXCEPT ![i] = p],
           UNCHANGED <<conf, published, changes, starting, success, cachedCode, loadedCode,
                       rejected>>,
           faults' \in 0..MaxFaults
    PROVE  CodeInv'
<1>1. poll' \in [DOMAIN fetcher' -> Polls] /\ PollsWait'
  BY PollChanges
<1> QED
  BY <1>1, Quiet DEF CodeInv, Shape, fetcher

LEMMA OnReportingFetchKeeps ==
    ASSUME CodeInv, NEW i \in DOMAIN fetcher, OnReportingFetch(i)
    PROVE  CodeInv'
<1> DEFINE p == [poll[i] EXCEPT !.pc = "load"]
<1>1. /\ poll[i] \in Polls /\ Waits(i, poll[i]) /\ faults \in 0..MaxFaults
      /\ fetcher[i].kind = "buyers"
  BY DEF CodeInv, Shape, PollsWait, OnReportingFetch
<1>2. p \in Polls /\ Waits(i, p)
  BY <1>1 DEF Polls, Waits
<1>3. /\ poll' = [poll EXCEPT ![i] = p]
      /\ UNCHANGED <<conf, published, changes, faults, starting, success, cachedCode,
                     loadedCode, rejected>>
  BY DEF OnReportingFetch
<1> HIDE DEF p
<1> QED
  BY <1>1, <1>2, <1>3, OnlyPollKeeps

LEMMA AllBuyersLoadedKeeps ==
    ASSUME CodeInv, NEW i \in DOMAIN fetcher, AllBuyersLoaded(i)
    PROVE  CodeInv'
<1>1. conf \in Deployments /\ faults \in 0..MaxFaults
  BY DEF CodeInv, Shape
<1> QED
  BY <1>1, IdlePoll, OnlyPollKeeps DEF AllBuyersLoaded

LEMMA AllBlobsLoadedKeeps ==
    ASSUME CodeInv, NEW i \in DOMAIN fetcher, AllBlobsLoaded(i)
    PROVE  CodeInv'
<1>1. conf \in Deployments /\ faults \in 0..MaxFaults
  BY DEF CodeInv, Shape
<1> QED
  BY <1>1, IdlePoll, OnlyPollKeeps DEF AllBlobsLoaded

\* The place of a request tells the auction if none was left out before it.
LEMMA LoadBuyerCodeKeeps ==
    ASSUME CodeInv, NEW i \in DOMAIN fetcher, LoadBuyerCode(i)
    PROVE  CodeInv'
<1> DEFINE k == poll[i].next
           script == Answers(i)[k]
           v == Target(i, k)
           p == [poll[i] EXCEPT !.next = k + 1]
<1>1. /\ Shape /\ conf \in Deployments /\ poll[i] \in Polls /\ Waits(i, poll[i])
      /\ k <= Len(RequestsOf(i)) /\ poll' = [poll EXCEPT ![i].next = k + 1]
      /\ UNCHANGED <<conf, published, changes, starting, success>>
      /\ poll[i].pc = "load" /\ fetcher[i].kind = "buyers"
  BY DEF CodeInv, Shape, PollsWait, Waits, LoadBuyerCode
<1>2. k \in 1..Len(RequestsOf(i)) /\ Len(RequestsOf(i)) \in Nat
  BY <1>1, Requested DEF Waits
<1>3. p \in Polls /\ Waits(i, p) /\ poll' = [poll EXCEPT ![i] = p]
  <2>1. p \in Polls
    BY <1>1, <1>2 DEF Polls
  <2>2. /\ p.waiting = poll[i].waiting /\ p.remaining = poll[i].remaining /\ p.next = k + 1
        /\ p.pc = poll[i].pc
    BY <1>1 DEF Polls
  <2>3. Waits(i, p)
    <3> HIDE DEF p
    <3> QED
      BY <1>1, <1>2, <2>2 DEF Waits
  <2>4. poll' = [poll EXCEPT ![i] = p]
    BY <1>1
  <2> QED
    BY <2>1, <2>3, <2>4
<1>4. poll' \in [DOMAIN fetcher' -> Polls] /\ PollsWait'
  <2> HIDE DEF p
  <2> QED
    BY <1>1, <1>3, PollChanges
<1>5. CASE ~(script.content \notin {None, Empty} /\ cachedCode[v] # <<script>>)
  <2>1. UNCHANGED <<faults, loadedCode, rejected, cachedCode>>
    BY <1>5 DEF LoadBuyerCode, NothingLoaded
  <2> QED
    BY <1>1, <1>4, <2>1, Quiet DEF CodeInv, Shape, fetcher
<1>6. CASE script.content \notin {None, Empty} /\ cachedCode[v] # <<script>>
  <2>1. LoadSync(i, v, <<script>>) /\ cachedCode' = [cachedCode EXCEPT ![v] = <<script>>]
    BY <1>6 DEF LoadBuyerCode
  <2>2. script \in Scripts /\ script.from = RequestsOf(i)[k] /\ RequestsOf(i)[k] \in Sources
    BY <1>1, <1>2, <1>6, AllAnswers
  <2>3. v \in Sources
    BY <2>2 DEF Target, Sources, Auctions
  <2>4. ASSUME NothingLeftOut(i) PROVE script.from = v
    <3>1. WellConfigured(fetcher[i]) /\ k \in DOMAIN fetcher[i].sources
      BY <1>1, <1>2, <2>4, Configured, Requested DEF NothingLeftOut
    <3>2. fetcher[i].sources[k][1] = IF k <= fetcher[i].audience THEN "PA" ELSE "PAS"
      BY <1>1, <3>1 DEF WellConfigured
    <3> QED
      BY <2>2, <2>4, <3>2 DEF NothingLeftOut, Target, Sources
  <2>5. success' = [success EXCEPT ![i] = success'[i]] /\ success'[i] = success[i]
    BY <1>1 DEF Shape
  <2> DEFINE code == <<script>>
  <2>6. code \in Seq(Scripts) /\ code[1] = script
    BY <2>2
  <2>7. cachedCode' \in [Sources -> Codes]
    BY <1>1, <2>1, <2>3, <2>6 DEF Shape, Codes
  <2> HIDE DEF code, script, v
  <2>8. LoadSync(i, v, code)
    BY <2>1 DEF code
  <2>9. (SuccessIsCode /\ CodeOfThoseBefore /\ ReportsForTheirAuction)'
    BY <1>1, <2>3, <2>4, <2>5, <2>6, <2>8, Loading DEF IsBucket
  <2>10. /\ faults' \in 0..MaxFaults /\ loadedCode' \in [Sources -> Codes]
         /\ rejected' \subseteq Sources
    BY <1>1, <2>3, <2>6, <2>8, Loads
  <2> QED
    BY <1>1, <1>4, <2>7, <2>9, <2>10 DEF CodeInv, Shape, fetcher
<1> QED
  BY <1>5, <1>6

LEMMA ListBlobsKeeps ==
    ASSUME CodeInv, NEW i \in DOMAIN fetcher, ListBlobs(i)
    PROVE  CodeInv'
<1>1. /\ Shape /\ conf \in Deployments /\ IsBucket(i)
      /\ UNCHANGED <<conf, published, changes, starting, success, cachedCode, loadedCode,
                     rejected>>
  BY DEF CodeInv, Shape, ListBlobs
<1>2. CASE Fault /\ poll' = [poll EXCEPT ![i] = Idle("timer")]
  <2>1. faults' \in 0..MaxFaults
    BY <1>1, <1>2, UdfFetchAssumption DEF Shape, Fault
  <2> QED
    BY <1>1, <1>2, <2>1, IdlePoll, OnlyPollKeeps
<1> DEFINE listed == {s \in ToSet(fetcher[i].sources) : published[s] # None}
<1>3. ASSUME NEW refused \in SUBSET listed,
             faults' = faults + Cardinality(refused), faults' <= MaxFaults,
             poll' = [poll EXCEPT ![i] = [Idle("get") EXCEPT
                          !.waiting = listed \ refused, !.remaining = BlobsRemaining(listed)]]
      PROVE  CodeInv'
  <2> DEFINE w == listed \ refused
             n == Cardinality(listed)
             p == [Idle("get") EXCEPT !.waiting = w, !.remaining = n]
  <2>1. /\ listed \subseteq ToSet(RequestsOf(i)) /\ listed \subseteq Sources
        /\ IsFiniteSet(listed)
    <3>1. /\ RequestsOf(i) = fetcher[i].sources /\ ToSet(RequestsOf(i)) \subseteq Sources
          /\ IsFiniteSet(ToSet(RequestsOf(i)))
      BY <1>1, Requested DEF IsBucket
    <3> QED
      BY <3>1, FS_Subset
  <2>2. n \in Nat /\ Cardinality(w) <= n
    BY <2>1, FS_Subset, FS_CardinalityType
  <2>3. faults' \in 0..MaxFaults
    <3>1. Cardinality(refused) \in Nat
      BY <2>1, FS_Subset, FS_CardinalityType
    <3> QED
      BY <1>1, <1>3, <3>1 DEF Shape
  <2>4. w \subseteq ToSet(RequestsOf(i)) /\ w \subseteq Sources
    BY <2>1
  <2>5. poll' = [poll EXCEPT ![i] = p]
    BY <1>3 DEF BlobsRemaining
  <2>6. Idle("get") \in Polls /\ Waits(i, Idle("get"))
    BY <1>1, IdlePoll
  <2> HIDE DEF w, n
  <2>7. p \in Polls
    BY <2>2, <2>4, <2>6 DEF Polls
  <2>8. /\ p.waiting = w /\ p.remaining = n /\ p.next = Idle("get").next
        /\ p.pc = Idle("get").pc
    BY <2>6 DEF Polls
  <2> HIDE DEF p
  <2>9. Waits(i, p)
    BY <2>2, <2>4, <2>6, <2>8 DEF Waits
  <2> QED
    BY <1>1, <2>3, <2>5, <2>7, <2>9, OnlyPollKeeps
<1>4. CASE ~(Fault /\ poll' = [poll EXCEPT ![i] = Idle("timer")])
  <2>1. \E refused \in IF fetcher[i].kind = "cpio" THEN SUBSET listed ELSE {{}} :
            /\ faults' = faults + Cardinality(refused) /\ faults' <= MaxFaults
            /\ poll' = [poll EXCEPT ![i] = [Idle("get") EXCEPT
                          !.waiting = listed \ refused, !.remaining = BlobsRemaining(listed)]]
    BY <1>4 DEF ListBlobs
  <2> HIDE DEF listed
  <2>2. PICK refused \in SUBSET listed :
            /\ faults' = faults + Cardinality(refused) /\ faults' <= MaxFaults
            /\ poll' = [poll EXCEPT ![i] = [Idle("get") EXCEPT
                          !.waiting = listed \ refused, !.remaining = BlobsRemaining(listed)]]
    BY <2>1
  <2> QED
    BY <2>2, <1>3
<1> QED
  BY <1>2, <1>4

LEMMA AnswerBlobKeeps ==
    ASSUME CodeInv, NEW i \in DOMAIN fetcher, NEW s \in Sources, AnswerBlob(i, s)
    PROVE  CodeInv'
<1>1. /\ Shape /\ conf \in Deployments /\ IsBucket(i) /\ s \in poll[i].waiting
      /\ poll[i] \in Polls /\ Waits(i, poll[i])
      /\ UNCHANGED <<conf, published, changes, starting, cachedCode>>
      /\ poll' = [poll EXCEPT ![i].waiting = @ \ {s}, ![i].remaining = @ - 1]
  BY DEF CodeInv, Shape, PollsWait, AnswerBlob
<1> DEFINE results == poll[i].results
           p == [poll[i] EXCEPT !.waiting = @ \ {s}, !.remaining = @ - 1,
                                !.results = results]
<1>2. p \in Polls /\ Waits(i, p)
  <2>1. results \in [Sources -> Published]
    BY <1>1 DEF Polls
  <2> HIDE DEF results
  <2> QED
    BY <1>1, <2>1, Answered
<1>3. poll' = [poll EXCEPT ![i] = p]
  BY <1>1 DEF Shape, Polls
<1>4. poll' \in [DOMAIN fetcher' -> Polls] /\ PollsWait'
  <2> HIDE DEF p
  <2> QED
    BY <1>1, <1>2, <1>3, PollChanges
<1>5. s \in ToSet(fetcher[i].sources) /\ s[1] = "code"
  BY <1>1, Requested DEF Waits, IsBucket
<1>6. ASSUME published[s] \notin {None, Empty},
             LoadSync(i, s, <<Script(s, published[s])>>),
             success' = [success EXCEPT ![i] = @ \/ s \notin rejected']
      PROVE  CodeInv'
  <2> DEFINE code == <<Script(s, published[s])>>
  <2>1. code \in Seq(Scripts)
    <3>1. published[s] \in Contents
      BY <1>1, <1>6 DEF Shape, Published
    <3> QED
      BY <3>1 DEF Script, Scripts
  <2>2. /\ success' \in [DOMAIN fetcher -> BOOLEAN]
        /\ success'[i] = (success[i] \/ s \notin rejected')
        /\ success' = [success EXCEPT ![i] = success'[i]]
    BY <1>1, <1>6 DEF Shape
  <2>3. LoadSync(i, s, code)
    BY <1>6
  <2> HIDE DEF code
  <2>4. (SuccessIsCode /\ CodeOfThoseBefore /\ ReportsForTheirAuction)'
    BY <1>1, <1>5, <2>1, <2>2, <2>3, Loading DEF IsBucket
  <2>5. /\ faults' \in 0..MaxFaults /\ loadedCode' \in [Sources -> Codes]
        /\ rejected' \subseteq Sources
    BY <1>1, <2>1, <2>3, Loads
  <2> QED
    BY <1>1, <1>4, <2>2, <2>4, <2>5 DEF CodeInv, Shape, fetcher
<1>7. ASSUME UNCHANGED <<success, loadedCode, rejected>>, faults' \in 0..MaxFaults
      PROVE  CodeInv'
  <2> HIDE DEF p
  <2> QED
    BY <1>1, <1>2, <1>3, <1>7, OnlyPollKeeps
<1>8. ASSUME UNCHANGED faults \/ Fault
      PROVE  faults' \in 0..MaxFaults
  BY <1>1, <1>8, UdfFetchAssumption DEF Shape, Fault
<1> QED
  BY <1>6, <1>7, <1>8 DEF AnswerBlob, NothingLoaded

LEMMA StartReturnsKeeps ==
    ASSUME CodeInv, NEW i \in DOMAIN fetcher, StartReturns(i)
    PROVE  CodeInv'
<1>1. /\ Shape /\ PollsWait /\ SuccessIsCode /\ CodeOfThoseBefore /\ ReportsForTheirAuction
      /\ UNCHANGED <<conf, published, changes, faults, poll, success, cachedCode, loadedCode,
                     rejected>>
      /\ starting = i /\ starting' = IF StartedOk(i) THEN i + 1 ELSE 0
  BY DEF CodeInv, StartReturns
<1>2. /\ fetcher' = fetcher /\ Len(fetcher) \in Nat /\ DOMAIN fetcher = 1..Len(fetcher)
  BY <1>1, Configured DEF Shape, fetcher
<1>3. \A j \in DOMAIN fetcher : HasCode(j) <=> HasCode(j)'
  BY <1>1, <1>2 DEF HasCode, Version, IsBucket
<1>4. Shape' /\ PollsWait'
  BY <1>1, <1>2 DEF Shape, PollsWait, Waits, RequestsOf
<1>5. CodeOfThoseBefore'
  <2>1. StartedOk(i) => HasCode(i)
    BY <1>1 DEF StartedOk, SuccessIsCode, HasCode, IsBucket
  <2> QED
    BY <1>1, <1>2, <1>3, <2>1 DEF CodeOfThoseBefore
<1>6. SuccessIsCode' /\ ReportsForTheirAuction'
  BY <1>1, <1>2, <1>3 DEF SuccessIsCode, ReportsForTheirAuction, NothingLeftOut, RequestsOf
<1> QED
  BY <1>4, <1>5, <1>6 DEF CodeInv

LEMMA ScopeEndsKeeps == CodeInv /\ ScopeEnds => CodeInv'
<1> SUFFICES ASSUME CodeInv, ScopeEnds PROVE CodeInv'
  OBVIOUS
<1>1. /\ Shape /\ conf \in Deployments
      /\ UNCHANGED <<conf, published, changes, faults, starting, success, cachedCode,
                     loadedCode, rejected>>
      /\ poll' = [i \in DOMAIN fetcher |-> Idle("ended")]
  BY DEF CodeInv, Shape, ScopeEnds
<1>2. \A i \in DOMAIN fetcher : Idle("ended") \in Polls /\ Waits(i, Idle("ended"))
  BY <1>1, IdlePoll
<1>3. fetcher' = fetcher /\ \A i \in DOMAIN fetcher : Waits(i, Idle("ended"))'
  BY <1>1, <1>2 DEF fetcher, Waits, RequestsOf, Idle, NoAnswer
<1>4. poll' \in [DOMAIN fetcher' -> Polls] /\ PollsWait'
  BY <1>1, <1>2, <1>3 DEF PollsWait, Waits, RequestsOf, fetcher
<1> QED
  BY <1>1, <1>3, <1>4, Quiet DEF CodeInv, Shape

-----------------------------------------------------------------------------
(* The theorems.                                                             *)

LEMMA CodeKeeps == CodeInv /\ [CodeNext]_codeVars => CodeInv'
<1> SUFFICES ASSUME CodeInv, [CodeNext]_codeVars PROVE CodeInv'
  OBVIOUS
<1>1. CASE Publish
  BY <1>1, PublishKeeps
<1>2. CASE ScopeEnds
  BY <1>2, ScopeEndsKeeps
<1>3. ASSUME NEW i \in 1..MaxFetchers, Step(i) PROVE CodeInv'
  <2>1. i \in DOMAIN fetcher
    BY <1>3 DEF Step
  <2>2. CASE LocalLoad(i)
    BY <2>1, <2>2, LocalLoadKeeps
  <2>3. CASE FetchUrls(i)
    BY <2>1, <2>3, FetchUrlsKeeps
  <2>4. CASE OnUrlFetch(i)
    BY <2>1, <2>4, OnUrlFetchKeeps
  <2>5. CASE OnReportingFetch(i)
    BY <2>1, <2>5, OnReportingFetchKeeps
  <2>6. CASE LoadBuyerCode(i)
    BY <2>1, <2>6, LoadBuyerCodeKeeps
  <2>7. CASE AllBuyersLoaded(i)
    BY <2>1, <2>7, AllBuyersLoadedKeeps
  <2>8. CASE ListBlobs(i)
    BY <2>1, <2>8, ListBlobsKeeps
  <2>9. CASE AllBlobsLoaded(i)
    BY <2>1, <2>9, AllBlobsLoadedKeeps
  <2>10. CASE StartReturns(i)
    BY <2>1, <2>10, StartReturnsKeeps
  <2>11. ASSUME NEW s \in Sources, AnswerUrl(i, s) \/ AnswerBlob(i, s) PROVE CodeInv'
    BY <2>1, <2>11, AnswerUrlKeeps, AnswerBlobKeeps
  <2> QED
    BY <1>3, <2>2, <2>3, <2>4, <2>5, <2>6, <2>7, <2>8, <2>9, <2>10, <2>11 DEF Step
<1>4. CASE UNCHANGED codeVars
  <2>1. UNCHANGED <<conf, published, changes, faults, starting, poll, success, cachedCode,
                    loadedCode, rejected>>
    BY <1>4 DEF codeVars
  <2>2. fetcher' = fetcher
    BY <2>1 DEF fetcher
  <2>3. Shape' /\ PollsWait'
    BY <2>1, <2>2 DEF CodeInv, Shape, PollsWait, Waits, RequestsOf
  <2> QED
    BY <2>1, <2>3, Quiet DEF CodeInv
<1> QED
  BY <1>1, <1>2, <1>3, <1>4 DEF CodeNext

\* The invariant holds of every behaviour of the fetchers, whatever is published and
\* whichever requests and loads fail (BuyerCodeFetchManager, SellerUdfFetchManager,
\* EgressSchemaFetchManager).
THEOREM CodeInvariant == CodeSpec => []CodeInv
<1>1. CodeInit => CodeInv
  BY CodeInitially
<1>2. CodeInv /\ [CodeNext]_codeVars => CodeInv'
  BY CodeKeeps
<1> QED
  BY <1>1, <1>2, PTL DEF CodeSpec

\* The invariant says more than the types.
LEMMA CodeInvIsTyped ==
    ASSUME CodeInv
    PROVE  CodeTypeOK
<1>1. \A i \in DOMAIN fetcher : poll[i] \in Polls /\ Waits(i, poll[i])
  BY DEF CodeInv, Shape, PollsWait
<1>2. \A i \in DOMAIN fetcher :
          /\ poll[i].pc \in {"unstarted", "get", "load", "timer", "ended"}
          /\ poll[i].waiting \subseteq ToSet(RequestsOf(i))
          /\ poll[i].remaining \in Nat /\ Cardinality(poll[i].waiting) <= poll[i].remaining
          /\ poll[i].next \in 1..Len(RequestsOf(i)) + 1
          /\ poll[i].results \in [Sources -> Contents \cup {None}]
  BY <1>1 DEF Polls, Waits, Published
<1>3. \A v \in Sources :
          /\ cachedCode[v] = None \/ cachedCode[v] \in Seq(Scripts)
          /\ loadedCode[v] = None \/ loadedCode[v] \in Seq(Scripts)
  BY DEF CodeInv, Shape, Codes
<1> QED
  BY <1>2, <1>3 DEF CodeInv, Shape, Published, CodeTypeOK

\* Type correctness, with what bounds the requests that a poll waits for
\* (blobs_remaining, the index of PeriodicBuyerReportingFetchAndLoadSync).
THEOREM CodeTypeCorrect == CodeSpec => []CodeTypeOK
<1>1. CodeInv => CodeTypeOK
  BY CodeInvIsTyped
<1> QED
  BY <1>1, CodeInvariant, PTL

\* A service that has started has the code of each of its fetchers for good, though
\* some_load_success_ is reset by a later load that fails; and a buyer's reportWin() for
\* an auction is the one it publishes for it, unless a URL of the list was left out
\* (LoadBuyerCode, OnProtectedAppSignalUdfFetch).
THEOREM StartedServicesHaveCode == CodeSpec => []ServerHasItsCode
<1>1. CodeInv => ServerHasItsCode
  <2> SUFFICES ASSUME CodeInv PROVE ServerHasItsCode
    OBVIOUS
  <2>1. ASSUME Started, NEW i \in DOMAIN fetcher PROVE HasCode(i)
    <3>1. Len(fetcher) \in Nat /\ DOMAIN fetcher = 1..Len(fetcher)
      BY Configured DEF CodeInv, Shape
    <3>2. i < starting
      BY <2>1, <3>1 DEF Started, CodeInv, Shape
    <3> QED
      BY <3>2 DEF CodeInv, CodeOfThoseBefore
  <2> QED
    BY <2>1 DEF CodeInv, ServerHasItsCode
<1> QED
  BY <1>1, CodeInvariant, PTL

(***************************************************************************)
(* The composition.                                                        *)
(***************************************************************************)
\* A periodic fetch and the code of the services share nothing: a step of either leaves
\* the other's state alone, so that both invariants hold of the composition.
THEOREM FetchersInvariant == FetchersSpec => [](FetchInv /\ CodeInv)
<1>1. FetchersInit => FetchInv /\ CodeInv
  <2> SUFFICES ASSUME Init, CodeInit PROVE FetchInv /\ CodeInv
    BY DEF FetchersInit
  <2>1. FetchInv
    BY FetchInitially, FetchersAssumption
  <2> QED
    BY <2>1, CodeInitially
<1>2. FetchInv /\ CodeInv /\ [FetchersNext]_allVars => FetchInv' /\ CodeInv'
  <2> SUFFICES ASSUME FetchInv, CodeInv, [FetchersNext]_allVars PROVE FetchInv' /\ CodeInv'
    OBVIOUS
  <2>1. [Next]_vars /\ [CodeNext]_codeVars
    BY DEF FetchersNext, allVars
  <2>2. FetchInv'
    BY <2>1, FetchKeeps, FetchersAssumption
  <2> QED
    BY <2>1, <2>2, CodeKeeps
<1> QED
  BY <1>1, <1>2, PTL DEF FetchersSpec

\* Type correctness of whichever part is explored.
THEOREM FetchersTypesOK == FetchersSpec => []TypesOK
<1>1. FetchInv /\ CodeInv => TypesOK
  BY CodeInvIsTyped DEF FetchInv, TypesOK
<1> QED
  BY <1>1, FetchersInvariant, PTL
=============================================================================
