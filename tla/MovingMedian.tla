---------------------------- MODULE MovingMedian -----------------------------
(* The sliding window of samples with its median                             *)
(* (src/services/common/chaffing/moving_median.cc), as operators: every      *)
(* method of the class runs under window_mutex_. The samples are kept twice, *)
(* in the order of their arrival and sorted.                                 *)
EXTENDS Integers, FiniteSets, SequencesExt

NotFull == -1  \* the status "Window is not full."; samples are never negative

\* window_data_, window_, mid_ (0 for end()) and median_.
EmptyWindow == [data |-> <<>>, sorted |-> <<>>, mid |-> 0, median |-> NotFull]

\* multiset::insert
InsertSorted(s, v) ==
    LET n == Cardinality({i \in DOMAIN s : s[i] <= v})
    IN  SubSeq(s, 1, n) \o <<v>> \o SubSeq(s, n + 1, Len(s))

\* The average of the middle two of an even window is truncated to an int.
CalculateMedian(w, size) ==
    IF Len(w.data) < size THEN NotFull
    ELSE IF size % 2 = 0 THEN (w.sorted[w.mid] + w.sorted[w.mid + 1]) \div 2
    ELSE w.sorted[w.mid]

\* Mutant: the largest sample leaves the sorted copy in place of the oldest.
SlideLargest(w, size) ==
    IF Len(w.sorted) > size
    THEN [w EXCEPT !.data = Tail(@), !.sorted = Front(@)]
    ELSE w

\* A sample pushes the oldest one out of a full window.
Slide(w, size) ==
    IF Len(w.sorted) > size
    THEN [w EXCEPT !.data = Tail(@), !.sorted = RemoveFirst(@, Head(w.data))]
    ELSE w

\* AddNumber for a value that is sampled.
AddNumber(w, size, v) ==
    LET slid == Slide([w EXCEPT !.data = Append(@, v), !.sorted = InsertSorted(@, v)],
                      size)
        set == IF Len(slid.sorted) = size
               THEN [slid EXCEPT !.mid = (size - 1) \div 2 + 1]
               ELSE slid
    IN  [set EXCEPT !.median = CalculateMedian(set, size)]

IsWindowFilled(w, size) == Len(w.data) = size

\* A full window is sampled with a probability, for which the generator of the
\* request is asked.
NeedsGenerator(w, size) == Len(w.data) >= size

-----------------------------------------------------------------------------
(* What the class is for, without its data structures                        *)

\* The k-th smallest of the samples.
Ranked(s, k) ==
    CHOOSE v \in Range(s) :
        /\ Cardinality({i \in DOMAIN s : s[i] < v}) < k
        /\ Cardinality({i \in DOMAIN s : s[i] <= v}) >= k

\* The window has at most its size of samples, and the median is theirs.
IsMovingMedian(w, size) ==
    /\ Len(w.data) <= size
    /\ w.median = IF Len(w.data) < size THEN NotFull
                  ELSE (Ranked(w.data, (size + 1) \div 2)
                          + Ranked(w.data, (size + 2) \div 2)) \div 2

Windows(size, Sample) ==
    [data : UNION {[1..n -> Sample] : n \in 0..size},
     sorted : UNION {[1..n -> Sample] : n \in 0..size},
     mid : 0..size,
     median : Int]
=============================================================================
