------------------------- MODULE TaskCountersProofs -------------------------
(* Lemmas about TaskCounters and about the finite sets its counters stand    *)
(* for, which the proofs about every user of a tracker cite, and about loops. *)
EXTENDS TaskCounters, FiniteSetTheorems, WellFoundedInduction, TLAPS

\* Subsets of a finite set are finite, so that a counter that holds the cardinality
\* of one is a natural number, and zero only for the empty set.
LEMMA FiniteSubset ==
    ASSUME NEW T, IsFiniteSet(T), NEW S \in SUBSET T
    PROVE  /\ IsFiniteSet(S)
           /\ Cardinality(S) \in Nat
           /\ Cardinality(S) = 0 <=> S = {}
<1>1. IsFiniteSet(S)
  BY FS_Subset
<1> QED
  BY <1>1, FS_CardinalityType, FS_EmptySet

\* A tracker of n tasks has all of them pending and none counted.
LEMMA TrackingFields ==
    ASSUME NEW n \in Nat
    PROVE  /\ Tracking(n) \in Trackers
           /\ Tracking(n).num = n /\ Tracking(n).pending = n
           /\ \A s \in TaskStatus : Tracking(n).count[s] = 0
BY DEF Tracking, Trackers

\* What one TaskCompleted does to the counters of a tracker with a pending task.
LEMMA CountedFields ==
    ASSUME NEW c \in Trackers, NEW s \in TaskStatus, c.pending > 0
    PROVE  /\ Counted(c, s) \in Trackers
           /\ Counted(c, s).num = c.num
           /\ Counted(c, s).pending = c.pending - 1
           /\ \A r \in TaskStatus :
                 Counted(c, s).count[r]
                   = IF r = s THEN c.count[r] + 1 ELSE c.count[r]
<1>1. /\ c.num \in Nat /\ c.pending \in Nat
      /\ c.count \in [TaskStatus -> Nat]
  BY DEF Trackers
<1>2. [c.count EXCEPT ![s] = @ + 1] \in [TaskStatus -> Nat]
  BY <1>1
<1> QED
  BY <1>1, <1>2 DEF Trackers, Counted

\* The first n numbers, and the subsets of them that are as many.
LEMMA UpTo ==
    ASSUME NEW n \in Nat
    PROVE  /\ IsFiniteSet(1..n) /\ Cardinality(1..n) = n
           /\ \A S \in SUBSET (1..n) :
                  /\ IsFiniteSet(S) /\ Cardinality(S) \in Nat /\ Cardinality(S) <= n
                  /\ Cardinality(S) = n <=> S = 1..n
<1>1. IsFiniteSet(1..n) /\ Cardinality(1..n) = IF 1 > n THEN 0 ELSE n - 1 + 1
  BY FS_Interval
<1>2. Cardinality(1..n) = n
  BY <1>1
<1> QED
  BY <1>1, <1>2, FS_Subset, FS_CardinalityType

-----------------------------------------------------------------------------
(* Loops, which are recursive functions on the number of turns.              *)

LEMMA Least ==
    ASSUME NEW T, T \subseteq Nat, T # {}
    PROVE  \E m \in T : \A n \in T : m <= n
<1> DEFINE R == {p \in Nat \X Nat : p[1] < p[2]}
<1>1. IsWellFoundedOn(R, Nat)
  BY NatLessThanWellFounded DEF OpToRel
<1>2. ASSUME NEW m \in Nat, NEW n \in Nat, n < m PROVE <<n, m>> \in R
  BY <1>2
<1> HIDE DEF R
<1>3. PICK m \in T : \A n \in T : ~ (<<n, m>> \in R)
  BY <1>1, WFMin
<1>4. ASSUME NEW n \in T PROVE m <= n
  <2>1. m \in Nat /\ n \in Nat
    OBVIOUS
  <2>2. ~ (n < m)
    BY <1>2, <1>3, <2>1
  <2> QED
    BY <2>1, <2>2
<1> QED
  BY <1>4

\* Induction up to N, with a set for the predicate.
LEMMA UpToN ==
    ASSUME NEW N \in Nat, NEW A, 0 \in A, \A n \in 1..N : n - 1 \in A => n \in A
    PROVE  \A n \in 0..N : n \in A
<1> DEFINE T == {n \in 0..N : n \notin A}
<1> SUFFICES ASSUME T # {} PROVE FALSE
  OBVIOUS
<1>1. PICK m \in T : \A n \in T : m <= n
  <2>1. T \subseteq Nat
    OBVIOUS
  <2> HIDE DEF T
  <2> QED
    BY <2>1, Least
<1>2. m \in 1..N
  BY <1>1
<1>3. m - 1 \in 0..N /\ ~ (m <= m - 1)
  BY <1>2
<1>4. m - 1 \in A
  BY <1>1, <1>3
<1> QED
  BY <1>1, <1>2, <1>4

Turns(T, N) == [T \X (1..N) -> T]

IsRun(f, T, N, c, step) ==
    f \in [0..N -> T] /\ f[0] = c /\ \A n \in 1..N : f[n] = step[<<f[n - 1], n>>]

\* There is a run of any number of turns.
LEMMA Runs ==
    ASSUME NEW T, NEW N \in Nat, NEW c \in T, NEW step \in Turns(T, N)
    PROVE  \E f : IsRun(f, T, N, c, step)
<1> USE DEF Turns
<1> DEFINE A == {m \in 0..N :
                    \E f \in [0..m -> T] :
                        f[0] = c /\ \A n \in 1..m : f[n] = step[<<f[n - 1], n>>]}
<1>1. 0 \in A
  <2> DEFINE f == [n \in 0..0 |-> c]
  <2>1. f \in [0..0 -> T] /\ f[0] = c
    OBVIOUS
  <2> HIDE DEF f
  <2>2. \A n \in 1..0 : f[n] = step[<<f[n - 1], n>>]
    OBVIOUS
  <2>3. 0 \in 0..N
    OBVIOUS
  <2> QED
    BY <2>1, <2>2, <2>3
<1>2. ASSUME NEW m \in 1..N, m - 1 \in A PROVE m \in A
  <2>1. PICK f \in [0..m - 1 -> T] :
            f[0] = c /\ \A n \in 1..m - 1 : f[n] = step[<<f[n - 1], n>>]
    BY <1>2
  <2> DEFINE x == step[<<f[m - 1], m>>]
             g == [n \in 0..m |-> IF n = m THEN x ELSE f[n]]
  <2>2. m - 1 \in 0..m - 1 /\ f[m - 1] \in T /\ x \in T
    BY <2>1
  <2>3. \A n \in 0..m : n # m => n \in 0..m - 1 /\ f[n] \in T
    BY <2>1
  <2> HIDE DEF x
  <2>4. g \in [0..m -> T] /\ g[0] = c
    BY <2>1, <2>2, <2>3
  <2>5. ASSUME NEW n \in 1..m PROVE g[n] = step[<<g[n - 1], n>>]
    <3>1. n - 1 \in 0..m /\ n - 1 # m /\ g[n - 1] = f[n - 1]
      OBVIOUS
    <3>2. CASE n = m
      BY <3>1, <3>2 DEF x
    <3>3. CASE n # m
      <4>1. n \in 1..m - 1 /\ g[n] = f[n]
        BY <3>3
      <4> QED
        BY <2>1, <3>1, <4>1
    <3> QED
      BY <3>2, <3>3
  <2> HIDE DEF g
  <2>6. m \in 0..N
    OBVIOUS
  <2> QED
    BY <2>4, <2>5, <2>6
<1>3. N \in A
  <2> HIDE DEF A
  <2> QED
    BY <1>1, <1>2, UpToN
<1> QED
  BY <1>3 DEF IsRun
=============================================================================
