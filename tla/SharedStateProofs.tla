------------------------- MODULE SharedStateProofs ---------------------------
(* Proofs about what the threads and the requests of a server share, each for *)
(* any number of those who share it: the tracker of a request's tasks, the    *)
(* caches of the k-anonymity manager and the windows of the chaffing front    *)
(* ends; last, about all of them as MCSharedState puts them together.         *)
EXTENDS MCSharedState, MovingMedian, TaskCountersProofs, SequenceTheorems

-----------------------------------------------------------------------------
(* The tracker: its counters are the cardinalities they stand for, the       *)
(* callback finds every response merged, and every step is a step of         *)
(* CompletionBarrier or a stutter.                                           *)

\* Sets of tasks are finite, so that a counter that holds the cardinality of one
\* is a natural number, and zero only for the empty set.
LEMMA TaskSets ==
    ASSUME NEW S \in SUBSET Task
    PROVE  /\ IsFiniteSet(S)
           /\ Cardinality(S) \in Nat
           /\ Cardinality(S) = 0 <=> S = {}
<1>1. IsFiniteSet(S)
  BY FS_Subset, TaskAssumption
<1> QED
  BY <1>1, FS_CardinalityType, FS_EmptySet

\* The step of a thread that only moves inside TaskCompleted, outside of Count,
\* leaves the set of counted tasks alone.
LEMMA CountedUnchanged ==
    ASSUME TypeOK, NEW t \in Task, NEW from, NEW to, Goto(t, from, to),
           status' = status,
           from \in {"counted", "unlocked", "returned"}
             <=> to \in {"counted", "unlocked", "returned"}
    PROVE  /\ CountedTasks' = CountedTasks
           /\ \A s : EndedWith(s)' = EndedWith(s)
<1>1. \A u \in Task : pc'[u] = IF u = t THEN to ELSE pc[u]
  BY DEF TypeOK, Goto
<1>2. CountedTasks' = CountedTasks
  BY <1>1 DEF Goto, CountedTasks
<1> QED
  BY <1>2 DEF EndedWith

\* Counting a task adds it to the counted tasks and to those of its status.
LEMMA CountAddsTask ==
    ASSUME TypeOK, NEW t \in Task, Goto(t, "merged", "counted"),
           status' = status
    PROVE  /\ t \notin CountedTasks
           /\ CountedTasks' = CountedTasks \cup {t}
           /\ \A s : EndedWith(s)' = IF s = status[t] THEN EndedWith(s) \cup {t}
                                     ELSE EndedWith(s)
<1>1. \A u \in Task : pc'[u] = IF u = t THEN "counted" ELSE pc[u]
  BY DEF TypeOK, Goto
<1>2. t \notin CountedTasks /\ CountedTasks' = CountedTasks \cup {t}
  BY <1>1 DEF Goto, CountedTasks
<1>3. ASSUME NEW s
      PROVE  EndedWith(s)' = IF s = status[t] THEN EndedWith(s) \cup {t}
                             ELSE EndedWith(s)
  BY <1>2 DEF EndedWith
<1> QED
  BY <1>2, <1>3

-----------------------------------------------------------------------------
(* Preservation of the invariant, one lemma per conjunct that needs more     *)
(* than its own values.                                                      *)

\* SetNumTasksToTrack counts the announced tasks, none of which has completed.
LEMMA SetNumKeepsCounters ==
    ASSUME IInv, NEW S \in SUBSET Task, SetNumTasksToTrack(S)
    PROVE  CountersMatchTasks'
<1>1. CountedTasks' = {}
  BY DEF SetNumTasksToTrack, CountedTasks
<1>2. \A s : EndedWith(s)' = {}
  BY <1>1 DEF EndedWith
<1>3. Cardinality({}) = 0
  BY FS_EmptySet
<1>4. tracker' = Tracking(Cardinality(S)) /\ tracked' = S
  BY DEF SetNumTasksToTrack
<1>5. S \ {} = S
  OBVIOUS
<1> QED
  BY <1>1, <1>2, <1>3, <1>4, <1>5 DEF CountersMatchTasks, Tracking

\* Before a thread counts its task the task is still pending, so that the DCHECK
\* at the head of the critical section holds and no counter passes below zero.
LEMMA CounterStillPending ==
    ASSUME IInv, NEW t \in Task, pc[t] = "merged"
    PROVE  tracker.pending \in Nat /\ tracker.pending > 0
<1>1. t \in tracked \ CountedTasks
  BY DEF IInv, CallersAreTracked, CountedTasks
<1>2. tracked \ CountedTasks \in SUBSET Task
  BY DEF IInv, TypeOK
<1> QED
  BY <1>1, <1>2, TaskSets DEF IInv, CountersMatchTasks

\* The counters follow the counted task: one pending task less, one more of its
\* status.
LEMMA CountKeepsCounters ==
    ASSUME IInv, NEW t \in Task, Count(t)
    PROVE  CountersMatchTasks' /\ tracker' \in Trackers
<1> DEFINE tr == Counted(tracker, status[t])
<1>1. TypeOK /\ Goto(t, "merged", "counted") /\ tracker' = tr
      /\ tracked' = tracked /\ status' = status
  BY DEF IInv, Count
<1>2. status[t] \in TaskStatus /\ t \in tracked
  BY <1>1 DEF IInv, TypeOK, CallersAreTracked, Goto
<1>3. /\ t \notin CountedTasks
      /\ CountedTasks' = CountedTasks \cup {t}
      /\ \A s : EndedWith(s)' = IF s = status[t] THEN EndedWith(s) \cup {t}
                                ELSE EndedWith(s)
  BY <1>1, CountAddsTask
<1>4. tracked \ CountedTasks' = (tracked \ CountedTasks) \ {t}
  BY <1>3
<1>5. tracker.pending \in Nat /\ tracker.pending > 0
  BY <1>1, CounterStillPending DEF Goto
<1>6. Cardinality(tracked \ CountedTasks') = tracker.pending - 1
  <2>1. tracked \ CountedTasks \in SUBSET Task
    BY <1>1 DEF TypeOK
  <2>2. IsFiniteSet(tracked \ CountedTasks)
    BY <2>1, TaskSets
  <2>3. Cardinality((tracked \ CountedTasks) \ {t})
          = Cardinality(tracked \ CountedTasks) - 1
    BY <2>2, <1>2, <1>3, FS_RemoveElement
  <2> QED
    BY <2>3, <1>4 DEF IInv, CountersMatchTasks
<1>7. ASSUME NEW s \in TaskStatus
      PROVE  Cardinality(EndedWith(s)')
               = IF s = status[t] THEN tracker.count[s] + 1 ELSE tracker.count[s]
  <2>1. EndedWith(s) \in SUBSET Task /\ t \notin EndedWith(s)
    BY <1>3 DEF EndedWith, CountedTasks
  <2>2. IsFiniteSet(EndedWith(s))
    BY <2>1, TaskSets
  <2>3. Cardinality(EndedWith(s) \cup {t}) = Cardinality(EndedWith(s)) + 1
    BY <2>1, <2>2, FS_AddElement
  <2>4. tracker.count[s] = Cardinality(EndedWith(s))
    BY DEF IInv, CountersMatchTasks
  <2> QED
    BY <1>3, <2>3, <2>4
<1>8. /\ tr \in Trackers
      /\ tr.num = tracker.num
      /\ tr.pending = tracker.pending - 1
      /\ \A r \in TaskStatus :
            tr.count[r] = IF r = status[t] THEN tracker.count[r] + 1
                          ELSE tracker.count[r]
  BY <1>1, <1>2, <1>5, CountedFields DEF TypeOK
<1>9. tracker.num = Cardinality(tracked)
  BY DEF IInv, CountersMatchTasks
<1> QED
  BY <1>1, <1>6, <1>7, <1>8, <1>9 DEF CountersMatchTasks

\* A step that counts no task leaves what the counters stand for as it was.
LEMMA OtherStepsKeepCounters ==
    ASSUME IInv, tracked' = tracked, tracker' = tracker,
           CountedTasks' = CountedTasks,
           \A s : EndedWith(s)' = EndedWith(s)
    PROVE  CountersMatchTasks'
BY DEF IInv, CountersMatchTasks

\* A counter is positive when some task ended so: the counters of a set T of tasks
\* that ended as st says tell what AnyTaskSuccessfullyCompleted wants to know.
LEMMA SummaryFromCounters ==
    ASSUME NEW c \in Trackers, NEW T \in SUBSET Task, NEW st,
           \A s \in TaskStatus : c.count[s] = Cardinality({t \in T : st[t] = s})
    PROVE  AnyTaskSuccessfullyCompleted(c) <=>
              \/ \E t \in T : st[t] \in {"SUCCESS", "EMPTY_RESPONSE", "SKIPPED"}
              \/ \A t \in T : st[t] # "ERROR"
<1>1. \A s \in TaskStatus : c.count[s] \in Nat
  BY DEF Trackers
<1>2. ASSUME NEW s \in TaskStatus
      PROVE  c.count[s] = 0 <=> \A t \in T : st[t] # s
  <2>1. {t \in T : st[t] = s} \in SUBSET Task
    OBVIOUS
  <2>2. c.count[s] = 0 <=> {t \in T : st[t] = s} = {}
    BY <2>1, TaskSets
  <2> QED
    BY <2>2
<1>3. \A s \in TaskStatus : c.count[s] > 0 <=> \E t \in T : st[t] = s
  BY <1>1, <1>2
<1>4. {"SUCCESS", "EMPTY_RESPONSE", "SKIPPED", "ERROR"} \subseteq TaskStatus
  BY DEF TaskStatus
<1> QED
  BY <1>2, <1>3, <1>4 DEF AnyTaskSuccessfullyCompleted

\* The summary depends only on the announced tasks and the counted outcomes.
LEMMA SummaryUnchanged ==
    ASSUME tracked' = tracked, CountedTasks' = CountedTasks,
           \A t \in CountedTasks : status'[t] = status[t]
    PROVE  Barrier!Summary' = Barrier!Summary
<1>1. [t \in Task |-> IF t \in CountedTasks THEN status[t] ELSE "UNKNOWN"]'
        = [t \in Task |-> IF t \in CountedTasks THEN status[t] ELSE "UNKNOWN"]
  OBVIOUS
<1> QED
  BY <1>1 DEF Barrier!Summary

-----------------------------------------------------------------------------
\* Initially nothing is announced, counted or called.
LEMMA InitEstablishesInvariant == Init => IInv
<1> SUFFICES ASSUME Init PROVE IInv
  OBVIOUS
<1>1. CountedTasks = {} /\ \A s : EndedWith(s) = {}
  BY DEF Init, CountedTasks, EndedWith
<1>2. Cardinality({}) = 0
  BY FS_EmptySet
<1>3. TypeOK
  BY DEF Init, TypeOK, Tracking, Trackers, TaskStatus, Control
<1>4. CountersMatchTasks
  <2>1. {} \ {} = {}
    OBVIOUS
  <2> QED
    BY <1>1, <1>2, <2>1 DEF Init, CountersMatchTasks, Tracking
<1>5. MutualExclusion /\ CallersAreTracked /\ MergedTasks
  BY TaskAssumption
     DEF Init, MutualExclusion, CallersAreTracked, MergedTasks
<1>6. LastIsUnique /\ SummaryIsRight
  BY DEF Init, LastIsUnique, SummaryIsRight
<1> QED
  BY <1>3, <1>4, <1>5, <1>6 DEF IInv

\* SetNumTasksToTrack runs before any task has entered TaskCompleted.
LEMMA SetNumKeepsInvariant ==
    ASSUME IInv, NEW S \in SUBSET Task, SetNumTasksToTrack(S)
    PROVE  IInv'
<1> USE DEF SetNumTasksToTrack
<1>1. CountersMatchTasks'
  BY SetNumKeepsCounters
<1>2. TypeOK'
  BY TaskSets DEF IInv, TypeOK, Tracking, Trackers
<1>3. MutualExclusion' /\ CallersAreTracked' /\ MergedTasks'
  BY DEF IInv, MutualExclusion, CallersAreTracked, MergedTasks
<1>4. \A t \in Task : ~isLast[t]
  BY DEF IInv, LastIsUnique, CountedTasks
<1>5. LastIsUnique' /\ SummaryIsRight'
  BY <1>4 DEF IInv, LastIsUnique, SummaryIsRight
<1> QED
  BY <1>1, <1>2, <1>3, <1>5 DEF IInv

\* A thread that enters TaskCompleted is not counted yet.
LEMMA TaskCompletedKeepsInvariant ==
    ASSUME IInv, NEW t \in Task, NEW s \in TaskStatus, TaskCompleted(t, s)
    PROVE  IInv'
<1>1. /\ TypeOK /\ Goto(t, "running", "acquire")
      /\ status' = [status EXCEPT ![t] = s] /\ t \in tracked
      /\ UNCHANGED <<tracked, tracker, mu, isLast, anySuccess, merged, calls>>
  BY DEF IInv, TaskCompleted
<1>2. \A u \in Task : /\ pc'[u] = IF u = t THEN "acquire" ELSE pc[u]
                      /\ status'[u] = IF u = t THEN s ELSE status[u]
  BY <1>1 DEF TypeOK, Goto
<1>3. CountedTasks' = CountedTasks /\ t \notin CountedTasks
  BY <1>1, <1>2 DEF CountedTasks, Goto
<1>4. \A r : EndedWith(r)' = EndedWith(r)
  BY <1>2, <1>3 DEF EndedWith, CountedTasks
<1>5. CountersMatchTasks'
  BY <1>1, <1>3, <1>4, OtherStepsKeepCounters
<1>6. TypeOK'
  BY <1>1 DEF TypeOK, Goto, Control
<1>7. MutualExclusion' /\ CallersAreTracked' /\ MergedTasks'
  BY <1>1, <1>2
     DEF IInv, MutualExclusion, CallersAreTracked, MergedTasks, Goto, TaskStatus
<1>8. LastIsUnique'
  BY <1>1, <1>3 DEF IInv, LastIsUnique
<1>9. SummaryIsRight'
  <2>1. Barrier!Summary' = Barrier!Summary
    BY <1>1, <1>2, <1>3, SummaryUnchanged
  <2>2. \A u \in Task : isLast[u] /\ pc'[u] = "returned"
                          <=> isLast[u] /\ pc[u] = "returned"
    BY <1>1, <1>2 DEF Goto
  <2> QED
    BY <1>1, <2>1, <2>2 DEF IInv, SummaryIsRight
<1> QED
  BY <1>5, <1>6, <1>7, <1>8, <1>9 DEF IInv

\* Taking the lock, storing the response and releasing the lock count nothing
\* and call nothing.
LEMMA MoveKeepsInvariant ==
    ASSUME IInv, NEW t \in Task, Lock(t) \/ OnSingleTaskDone(t) \/ Unlock(t)
    PROVE  IInv'
<1>1. /\ TypeOK
      /\ UNCHANGED <<tracked, tracker, status, isLast, anySuccess, calls>>
  BY DEF IInv, Lock, OnSingleTaskDone, Unlock
<1>2. PICK from, to :
         /\ Goto(t, from, to)
         /\ from # "returned" /\ to # "returned" /\ from # "running"
         /\ to \in Control /\ to # "running"
         /\ from \in {"counted", "unlocked", "returned"}
              <=> to \in {"counted", "unlocked", "returned"}
  BY DEF Lock, OnSingleTaskDone, Unlock, Control
<1>3. \A u \in Task : pc'[u] = IF u = t THEN to ELSE pc[u]
  BY <1>1, <1>2 DEF TypeOK, Goto
<1>4. CountedTasks' = CountedTasks /\ \A r : EndedWith(r)' = EndedWith(r)
  BY <1>1, <1>2, CountedUnchanged
<1>5. CountersMatchTasks'
  BY <1>1, <1>4, OtherStepsKeepCounters
<1>6. TypeOK'
  <2>1. pc' \in [Task -> Control]
    BY <1>1, <1>2 DEF TypeOK, Goto
  <2> QED
    BY <1>1, <2>1 DEF TypeOK, Lock, OnSingleTaskDone, Unlock
<1>7. MutualExclusion' /\ MergedTasks'
  <2>1. CASE Lock(t)
    BY <2>1, <1>1, TaskAssumption
       DEF IInv, TypeOK, MutualExclusion, MergedTasks, Lock, Goto
  <2>2. CASE OnSingleTaskDone(t)
    BY <2>2, <1>1
       DEF IInv, TypeOK, MutualExclusion, MergedTasks, OnSingleTaskDone, Goto
  <2>3. CASE Unlock(t)
    BY <2>3, <1>1, TaskAssumption
       DEF IInv, TypeOK, MutualExclusion, MergedTasks, Unlock, Goto
  <2> QED
    BY <2>1, <2>2, <2>3
<1>8. CallersAreTracked'
  BY <1>1, <1>2, <1>3 DEF IInv, CallersAreTracked, Goto
<1>9. LastIsUnique'
  BY <1>1, <1>4 DEF IInv, LastIsUnique
<1>10. SummaryIsRight'
  <2>1. Barrier!Summary' = Barrier!Summary
    BY <1>1, <1>4, SummaryUnchanged
  <2>2. \A u \in Task : pc'[u] = "returned" <=> pc[u] = "returned"
    BY <1>2, <1>3 DEF Goto
  <2> QED
    BY <1>1, <2>1, <2>2 DEF IInv, SummaryIsRight
<1> QED
  BY <1>5, <1>6, <1>7, <1>8, <1>9, <1>10 DEF IInv

\* No thread is the last before the last count: while a task is to be counted no
\* isLast is set, and Count sets the one of its own thread only.
LEMMA CountKeepsInvariant ==
    ASSUME IInv, NEW t \in Task, Count(t)
    PROVE  IInv'
<1> DEFINE last == NoneIsPending(tracker')
<1>1. /\ TypeOK /\ Goto(t, "merged", "counted")
      /\ UNCHANGED <<tracked, mu, status, merged, calls>>
      /\ isLast' = [isLast EXCEPT ![t] = last]
      /\ anySuccess' = [anySuccess EXCEPT
            ![t] = last /\ AnyTaskSuccessfullyCompleted(tracker')]
  BY DEF IInv, Count
<1>2. CountersMatchTasks' /\ tracker' \in Trackers
  BY CountKeepsCounters
<1>3. \A u \in Task : pc'[u] = IF u = t THEN "counted" ELSE pc[u]
  BY <1>1 DEF TypeOK, Goto
<1>4. t \notin CountedTasks /\ CountedTasks' = CountedTasks \cup {t}
  BY <1>1, CountAddsTask
<1>5. TypeOK'
  BY <1>1, <1>2 DEF TypeOK, Goto, Control, NoneIsPending,
                    AnyTaskSuccessfullyCompleted
<1>6. MutualExclusion' /\ CallersAreTracked' /\ MergedTasks'
  BY <1>1, <1>3
     DEF IInv, MutualExclusion, CallersAreTracked, MergedTasks, Goto
<1>7. t \in tracked /\ CountedTasks \subseteq tracked
  BY <1>1 DEF IInv, CallersAreTracked, Goto, CountedTasks
<1>8. \A u \in Task : ~isLast[u]
  BY <1>4, <1>7 DEF IInv, LastIsUnique
<1>9. \A u \in Task : isLast'[u] => u = t /\ last
  BY <1>1, <1>8 DEF TypeOK
<1>10. last => CountedTasks' = tracked'
  <2>1. tracked \ CountedTasks' \in SUBSET Task
    BY <1>1 DEF TypeOK
  <2>2. last => Cardinality(tracked \ CountedTasks') = 0
    BY <1>1, <1>2 DEF NoneIsPending, CountersMatchTasks
  <2>3. last => tracked \ CountedTasks' = {}
    BY <2>1, <2>2, TaskSets
  <2> QED
    BY <1>1, <1>4, <1>7, <2>3
<1>11. LastIsUnique'
  BY <1>4, <1>9, <1>10 DEF LastIsUnique
<1>12. last => (AnyTaskSuccessfullyCompleted(tracker') <=> Barrier!Summary')
  <2>1. SUFFICES ASSUME last
                 PROVE  AnyTaskSuccessfullyCompleted(tracker')
                          <=> Barrier!Summary'
    OBVIOUS
  <2>2. \A s \in TaskStatus :
           tracker'.count[s] = Cardinality({u \in tracked' : status'[u] = s})
    BY <1>2, <1>10, <2>1 DEF CountersMatchTasks, EndedWith
  <2>3. AnyTaskSuccessfullyCompleted(tracker') <=>
           \/ \E u \in tracked' :
                 status'[u] \in {"SUCCESS", "EMPTY_RESPONSE", "SKIPPED"}
           \/ \A u \in tracked' : status'[u] # "ERROR"
    BY <1>2, <1>5, <2>2, SummaryFromCounters DEF TypeOK
  <2>4. \A u \in tracked' :
           [v \in Task |-> IF v \in CountedTasks' THEN status'[v]
                           ELSE "UNKNOWN"][u] = status'[u]
    BY <1>5, <1>10, <2>1 DEF TypeOK
  <2> QED
    BY <2>3, <2>4 DEF Barrier!Summary
<1>13. SummaryIsRight'
  <2>1. \A u \in Task : ~(isLast'[u] /\ pc'[u] = "returned")
    BY <1>3, <1>9
  <2>2. calls = <<>>
    BY <1>8 DEF IInv, SummaryIsRight
  <2>3. isLast'[t] => (anySuccess'[t] <=> Barrier!Summary')
    BY <1>1, <1>9, <1>12 DEF TypeOK
  <2>4. isLast'[t] => anySuccess'[t] = Barrier!Summary'
    BY <2>3, <1>5 DEF TypeOK, Barrier!Summary
  <2> QED
    BY <1>1, <1>9, <2>1, <2>2, <2>4 DEF SummaryIsRight
<1> QED
  BY <1>2, <1>5, <1>6, <1>11, <1>13 DEF IInv

\* Only the last thread calls on_all_tasks_done_, and it has not called before.
LEMMA OnAllTasksDoneKeepsInvariant ==
    ASSUME IInv, NEW t \in Task, OnAllTasksDone(t)
    PROVE  /\ IInv'
           /\ isLast[t] => calls = <<>> /\ calls' = <<Barrier!Summary>>
           /\ ~isLast[t] => calls' = calls
<1>1. /\ TypeOK /\ Goto(t, "unlocked", "returned")
      /\ UNCHANGED <<tracked, tracker, mu, status, isLast, anySuccess, merged>>
      /\ calls' = IF isLast[t] THEN Append(calls, anySuccess[t]) ELSE calls
  BY DEF IInv, OnAllTasksDone, IsLastResponse
<1>2. \A u \in Task : pc'[u] = IF u = t THEN "returned" ELSE pc[u]
  BY <1>1 DEF TypeOK, Goto
<1>3. CountedTasks' = CountedTasks /\ \A r : EndedWith(r)' = EndedWith(r)
  BY <1>1, CountedUnchanged
<1>4. CountersMatchTasks'
  BY <1>1, <1>3, OtherStepsKeepCounters
<1>5. TypeOK'
  <2>1. Append(calls, anySuccess[t]) \in Seq(BOOLEAN)
    BY <1>1, AppendProperties, ZenonT(30) DEF TypeOK
  <2>2. calls' \in Seq(BOOLEAN)
    BY <1>1, <2>1, ZenonT(30) DEF TypeOK
  <2>3. pc' \in [Task -> Control]
    BY <1>1 DEF TypeOK, Goto, Control
  <2> QED
    BY <1>1, <2>2, <2>3, ZenonT(30) DEF TypeOK
<1>6. MutualExclusion' /\ CallersAreTracked' /\ MergedTasks'
  BY <1>1, <1>2
     DEF IInv, MutualExclusion, CallersAreTracked, MergedTasks, Goto
<1>7. LastIsUnique'
  BY <1>1, <1>3 DEF IInv, LastIsUnique
<1>8. Barrier!Summary' = Barrier!Summary
  BY <1>1, <1>3, SummaryUnchanged
<1>9. ASSUME isLast[t]
      PROVE  calls = <<>> /\ calls' = <<Barrier!Summary>>
  <2>1. \A u \in Task : ~(isLast[u] /\ pc[u] = "returned")
    BY <1>1, <1>9 DEF IInv, LastIsUnique, Goto
  <2>2. calls = <<>> /\ anySuccess[t] = Barrier!Summary
    BY <2>1, <1>9 DEF IInv, SummaryIsRight
  <2> QED
    BY <1>1, <1>9, <2>2
<1>10. SummaryIsRight'
  <2>1. \A u \in Task : isLast'[u] => anySuccess'[u] = Barrier!Summary'
    BY <1>1, <1>8 DEF IInv, SummaryIsRight
  <2>2. CASE isLast[t]
    <3>1. isLast'[t] /\ pc'[t] = "returned" /\ calls' = <<Barrier!Summary'>>
      BY <1>1, <1>2, <1>8, <1>9, <2>2
    <3> QED
      BY <2>1, <3>1 DEF SummaryIsRight
  <2>3. CASE ~isLast[t]
    <3>1. \A u \in Task : isLast'[u] /\ pc'[u] = "returned"
                            <=> isLast[u] /\ pc[u] = "returned"
      BY <1>1, <1>2, <2>3 DEF Goto
    <3> QED
      BY <1>1, <1>8, <2>1, <2>3, <3>1 DEF IInv, SummaryIsRight
  <2> QED
    BY <2>2, <2>3
<1>11. ~isLast[t] => calls' = calls
  BY <1>1
<1> QED
  BY <1>4, <1>5, <1>6, <1>7, <1>9, <1>10, <1>11 DEF IInv

\* The invariant is inductive: one case per action.
LEMMA NextKeepsInvariant == IInv /\ [Next]_vars => IInv'
<1> SUFFICES ASSUME IInv, [Next]_vars PROVE IInv'
  OBVIOUS
<1>1. ASSUME NEW S \in SUBSET Task, SetNumTasksToTrack(S) PROVE IInv'
  BY <1>1, SetNumKeepsInvariant
<1>2. ASSUME NEW t \in Task, NEW s \in TaskStatus, TaskCompleted(t, s)
      PROVE  IInv'
  BY <1>2, TaskCompletedKeepsInvariant
<1>3. ASSUME NEW t \in Task, InTaskCompleted(t) PROVE IInv'
  BY <1>3, MoveKeepsInvariant, CountKeepsInvariant,
     OnAllTasksDoneKeepsInvariant
     DEF InTaskCompleted
<1>4. CASE UNCHANGED vars
  <2>1. Barrier!Summary' = Barrier!Summary
    BY <1>4 DEF vars, Barrier!Summary, CountedTasks
  <2> QED
    BY <1>4, <2>1
       DEF vars, IInv, TypeOK, CountersMatchTasks, MutualExclusion,
           CallersAreTracked, MergedTasks, LastIsUnique, SummaryIsRight,
           CountedTasks, EndedWith
<1> QED
  BY <1>1, <1>2, <1>3, <1>4 DEF Next

\* The invariant of AsyncTaskTracker: counters, lock and callback agree with the
\* tasks in every reachable state, for any finite set of tasks.
THEOREM InductiveInvariant == Spec => []IInv
BY InitEstablishesInvariant, NextKeepsInvariant, PTL DEF Spec

\* The counters of TaskCompleted never miss, double or lose a task, whatever the
\* order in which the threads take the lock.
THEOREM CountersAreExact == Spec => [](TypeOK /\ CountersMatchTasks)
<1>1. IInv => TypeOK /\ CountersMatchTasks
  BY DEF IInv
<1> QED
  BY <1>1, InductiveInvariant, PTL

\* Counting a task moves it from the pending ones to those of its status, and
\* leaves the sum that the DCHECK computes alone.
LEMMA CountKeepsSum ==
    ASSUME NEW c \in Trackers, NEW s \in TaskStatus, c.pending > 0
    PROVE  SumTasksCount(Counted(c, s)) = SumTasksCount(c)
<1>1. /\ c.pending \in Nat
      /\ \A r \in TaskStatus : c.count[r] \in Nat
  BY DEF Trackers
<1>2. /\ Counted(c, s).pending = c.pending - 1
      /\ \A r \in TaskStatus :
            Counted(c, s).count[r]
              = IF r = s THEN c.count[r] + 1 ELSE c.count[r]
  BY CountedFields
<1> DEFINE d == Counted(c, s)
<1>3. /\ c.count["SKIPPED"] \in Nat /\ c.count["SUCCESS"] \in Nat
      /\ c.count["ERROR"] \in Nat /\ c.count["EMPTY_RESPONSE"] \in Nat
      /\ c.count["CANCELLED"] \in Nat
  BY <1>1 DEF TaskStatus
<1>4. \A r \in TaskStatus :
         d.count[r] = IF r = s THEN c.count[r] + 1 ELSE c.count[r]
  BY <1>2
<1>5. d.pending = c.pending - 1
  BY <1>2
<1> HIDE DEF d
<1>6. SumTasksCount(d) = SumTasksCount(c)
  <2>1. CASE s = "SKIPPED"
    BY <1>1, <1>3, <1>4, <1>5, <2>1 DEF SumTasksCount, TaskStatus
  <2>2. CASE s = "EMPTY_RESPONSE"
    BY <1>1, <1>3, <1>4, <1>5, <2>2 DEF SumTasksCount, TaskStatus
  <2>3. CASE s = "CANCELLED"
    BY <1>1, <1>3, <1>4, <1>5, <2>3 DEF SumTasksCount, TaskStatus
  <2>4. CASE s = "ERROR"
    BY <1>1, <1>3, <1>4, <1>5, <2>4 DEF SumTasksCount, TaskStatus
  <2>5. CASE s = "SUCCESS"
    BY <1>1, <1>3, <1>4, <1>5, <2>5 DEF SumTasksCount, TaskStatus
  <2> QED
    BY <2>1, <2>2, <2>3, <2>4, <2>5 DEF TaskStatus
<1> QED
  BY <1>6 DEF d

\* Neither DCHECK of AsyncTaskTracker fails, for any number of tasks and any
\* order of their completions.
THEOREM NoDCheckFails == Spec => []DChecksHold
<1> DEFINE Sum == SumTasksCount(tracker) = tracker.num
<1>1. Init => Sum
  BY DEF Init, Tracking, SumTasksCount, TaskStatus
<1>2. IInv /\ Sum /\ [Next]_vars => Sum'
  <2> SUFFICES ASSUME IInv, Sum, [Next]_vars PROVE Sum'
    OBVIOUS
  <2>1. ASSUME NEW S \in SUBSET Task, SetNumTasksToTrack(S) PROVE Sum'
    <3>1. Cardinality(S) \in Nat
      BY TaskSets
    <3> QED
      BY <2>1, <3>1 DEF SetNumTasksToTrack, Tracking, SumTasksCount, TaskStatus
  <2>2. ASSUME NEW t \in Task, Count(t) PROVE Sum'
    <3>1. tracker' = Counted(tracker, status[t]) /\ pc[t] = "merged"
      BY <2>2 DEF Count, Goto
    <3>2. tracker \in Trackers /\ status[t] \in TaskStatus
      BY <3>1 DEF IInv, TypeOK, CallersAreTracked
    <3>3. tracker.pending > 0
      BY <3>1, CounterStillPending
    <3> QED
      BY <3>1, <3>2, <3>3, CountKeepsSum, CountedFields
  <2>3. ASSUME tracker' = tracker PROVE Sum'
    BY <2>3
  <2> QED
    BY <2>1, <2>2, <2>3
       DEF Next, vars, TaskCompleted, InTaskCompleted, Lock, OnSingleTaskDone,
           Unlock, OnAllTasksDone
<1>3. IInv /\ Sum => DChecksHold
  <2> SUFFICES ASSUME IInv, Sum, NEW t \in Task, pc[t] \in {"locked", "merged"}
               PROVE  tracker.pending > 0
    BY DEF DChecksHold
  <2>1. t \in tracked \ CountedTasks
    BY DEF IInv, CallersAreTracked, CountedTasks
  <2>2. tracked \ CountedTasks \in SUBSET Task
    BY DEF IInv, TypeOK
  <2> QED
    BY <2>1, <2>2, TaskSets DEF IInv, CountersMatchTasks
<1> QED
  BY <1>1, <1>2, <1>3, InductiveInvariant, PTL DEF Spec

\* on_all_tasks_done_ finds the response of every task merged.
THEOREM CallbackSeesEveryResponse == Spec => []ResponsesMergedBeforeCallback
<1>1. IInv => ResponsesMergedBeforeCallback
  <2> SUFFICES ASSUME IInv, calls # <<>> PROVE merged = tracked
    BY DEF ResponsesMergedBeforeCallback
  <2>1. PICK t \in Task : isLast[t] /\ pc[t] = "returned"
    BY DEF IInv, SummaryIsRight
  <2>2. CountedTasks = tracked
    BY <2>1 DEF IInv, LastIsUnique
  <2>3. merged \subseteq tracked /\ CountedTasks \subseteq merged
    BY DEF IInv, MergedTasks, CallersAreTracked, CountedTasks
  <2> QED
    BY <2>2, <2>3
<1> QED
  BY <1>1, InductiveInvariant, PTL

-----------------------------------------------------------------------------
(* The refinement: the abstract outcome of a task is its status once it has  *)
(* been counted.                                                             *)

\* The lock, the counters and the threads implement the completion barrier: the
\* callback runs at most once, after all tasks, with the summary of all outcomes.
THEOREM ImplementsBarrierSafety == Spec => Barrier!BarrierSafety
<1> DEFINE out == [t \in Task |-> IF t \in CountedTasks THEN status[t]
                                  ELSE "UNKNOWN"]
<1>1. Init => Barrier!BarrierInit
  BY DEF Init, Barrier!BarrierInit, CountedTasks
<1>2. IInv /\ [Next]_vars => [Barrier!BarrierNext]_(Barrier!barrierVars)
  <2> SUFFICES ASSUME IInv, [Next]_vars
               PROVE  \/ Barrier!BarrierNext
                      \/ UNCHANGED <<tracked, out, calls>>
    BY DEF Barrier!barrierVars
  <2>1. ASSUME NEW S \in SUBSET Task, SetNumTasksToTrack(S)
        PROVE  Barrier!Announce(S)
    <3>1. CountedTasks = {} /\ CountedTasks' = {}
      BY <2>1 DEF SetNumTasksToTrack, CountedTasks
    <3> QED
      BY <2>1, <3>1 DEF SetNumTasksToTrack, Barrier!Announce
  <2>2. ASSUME NEW t \in Task, NEW s \in TaskStatus, TaskCompleted(t, s)
        PROVE  UNCHANGED <<tracked, out, calls>>
    <3>1. \A u \in Task : /\ pc'[u] = IF u = t THEN "acquire" ELSE pc[u]
                          /\ status'[u] = IF u = t THEN s ELSE status[u]
      BY <2>2 DEF IInv, TypeOK, TaskCompleted, Goto
    <3>2. CountedTasks' = CountedTasks /\ t \notin CountedTasks
      BY <2>2, <3>1 DEF CountedTasks, TaskCompleted, Goto
    <3> QED
      BY <2>2, <3>1, <3>2 DEF TaskCompleted
  <2>3. ASSUME NEW t \in Task, Lock(t) \/ OnSingleTaskDone(t) \/ Unlock(t)
        PROVE  UNCHANGED <<tracked, out, calls>>
    <3>1. /\ TypeOK /\ UNCHANGED <<tracked, status, calls>>
          /\ \E from, to : /\ Goto(t, from, to)
                           /\ from \in {"counted", "unlocked", "returned"}
                                <=> to \in {"counted", "unlocked", "returned"}
      BY <2>3 DEF IInv, Lock, OnSingleTaskDone, Unlock
    <3>2. CountedTasks' = CountedTasks
      BY <3>1, CountedUnchanged
    <3> QED
      BY <3>1, <3>2
  <2>4. ASSUME NEW t \in Task, Count(t)
        PROVE  \E s \in TaskStatus : Barrier!Complete(t, s)
    <3>1. /\ TypeOK /\ Goto(t, "merged", "counted")
          /\ UNCHANGED <<tracked, status, calls>>
      BY <2>4 DEF IInv, Count
    <3>2. t \notin CountedTasks /\ CountedTasks' = CountedTasks \cup {t}
      BY <3>1, CountAddsTask
    <3>3. t \in tracked /\ status[t] \in TaskStatus
      BY <3>1 DEF IInv, TypeOK, CallersAreTracked, Goto
    <3>4. out' = [out EXCEPT ![t] = status[t]] /\ out[t] = "UNKNOWN"
      BY <3>1, <3>2
    <3> QED
      BY <3>1, <3>3, <3>4 DEF Barrier!Complete
  <2>5. ASSUME NEW t \in Task, OnAllTasksDone(t)
        PROVE  Barrier!Fire \/ UNCHANGED <<tracked, out, calls>>
    <3>1. /\ TypeOK /\ Goto(t, "unlocked", "returned")
          /\ UNCHANGED <<tracked, status>>
      BY <2>5 DEF IInv, OnAllTasksDone
    <3>2. CountedTasks' = CountedTasks
      BY <3>1, CountedUnchanged
    <3>3. UNCHANGED <<tracked, out>>
      BY <3>1, <3>2
    <3>4. CASE ~isLast[t]
      BY <2>5, <3>3, <3>4, OnAllTasksDoneKeepsInvariant
    <3>5. CASE isLast[t]
      <4>1. calls = <<>> /\ calls' = <<Barrier!Summary>>
        BY <2>5, <3>5, OnAllTasksDoneKeepsInvariant
      <4>2. Barrier!AllCompleted
        <5>1. t \in tracked /\ CountedTasks = tracked
          BY <3>5 DEF IInv, LastIsUnique
        <5>2. \A u \in tracked : status[u] # "UNKNOWN"
          BY <5>1 DEF IInv, CallersAreTracked, CountedTasks
        <5> QED
          BY <5>1, <5>2 DEF Barrier!AllCompleted, CountedTasks
      <4> QED
        BY <3>3, <4>1, <4>2 DEF Barrier!Fire
    <3> QED
      BY <3>4, <3>5
  <2>6. CASE UNCHANGED vars
    BY <2>6 DEF vars, CountedTasks
  <2>7. CASE \E S \in SUBSET Task : SetNumTasksToTrack(S)
    BY <2>7, <2>1 DEF Barrier!BarrierNext
  <2>8. CASE \E t \in Task, s \in TaskStatus : TaskCompleted(t, s)
    BY <2>8, <2>2
  <2>9. CASE \E t \in Task : InTaskCompleted(t)
    BY <2>9, <2>3, <2>4, <2>5
       DEF InTaskCompleted, Barrier!BarrierNext, TaskStatus, Barrier!TaskStatus
  <2> QED
    BY <2>6, <2>7, <2>8, <2>9 DEF Next
<1> QED
  BY <1>1, <1>2, InductiveInvariant, PTL DEF Spec, Barrier!BarrierSafety

-----------------------------------------------------------------------------
(* The caches.                                                               *)

-----------------------------------------------------------------------------
(* Sequences from which an element is taken, or to which one is added.        *)

\* What is left of a sequence without the element at j.
LEMMA RemovedAt ==
    ASSUME NEW T, NEW s \in Seq(T), NEW j \in 1..Len(s)
    PROVE  /\ RemoveAt(s, j) \in Seq(T) /\ Len(RemoveAt(s, j)) = Len(s) - 1
           /\ DOMAIN RemoveAt(s, j) = 1..Len(s) - 1
           /\ \A i \in 1..Len(s) - 1 : RemoveAt(s, j)[i] = IF i < j THEN s[i] ELSE s[i + 1]
<1> DEFINE a == SubSeq(s, 1, j - 1)
           b == SubSeq(s, j + 1, Len(s))
<1>1. /\ Len(s) \in Nat /\ j \in Nat /\ j - 1 \in 0..Len(s) /\ j + 1 \in 1..Len(s) + 1
      /\ \A i \in 1..Len(s) : s[i] \in T
  OBVIOUS
<1>2. a \in Seq(T) /\ Len(a) = j - 1 /\ \A i \in 1..j - 1 : a[i] = s[i]
  BY <1>1
<1>3. b \in Seq(T) /\ Len(b) = Len(s) - j /\ \A i \in 1..Len(s) - j : b[i] = s[j + i]
  <2>1. /\ b \in Seq(T) /\ Len(b) = IF j + 1 <= Len(s) THEN Len(s) - (j + 1) + 1 ELSE 0
        /\ \A i \in 1..Len(s) - (j + 1) + 1 : b[i] = s[j + 1 + i - 1]
    BY <1>1, SubSeqProperties
  <2>2. Len(s) - (j + 1) + 1 = Len(s) - j /\ (~ (j + 1 <= Len(s)) => 0 = Len(s) - j)
    BY <1>1
  <2>3. ASSUME NEW i \in 1..Len(s) - j PROVE b[i] = s[j + i]
    <3>1. b[i] = s[j + 1 + i - 1]
      BY <2>1, <2>2
    <3>2. j + 1 + i - 1 = j + i
      BY <1>1
    <3> QED
      BY <3>1, <3>2
  <2> QED
    BY <2>1, <2>2, <2>3
<1> HIDE DEF a, b
<1>4. /\ a \o b \in Seq(T) /\ Len(a \o b) = Len(s) - 1 /\ DOMAIN (a \o b) = 1..Len(s) - 1
      /\ \A i \in 1..Len(s) - 1 : (a \o b)[i] = IF i <= j - 1 THEN a[i] ELSE b[i - (j - 1)]
  <2>1. /\ a \o b \in Seq(T) /\ Len(a \o b) = Len(a) + Len(b)
        /\ \A i \in 1..Len(a) + Len(b) :
              (a \o b)[i] = IF i <= Len(a) THEN a[i] ELSE b[i - Len(a)]
    BY <1>2, <1>3, ConcatProperties
  <2>2. Len(a) + Len(b) = Len(s) - 1
    BY <1>1, <1>2, <1>3
  <2>3. DOMAIN (a \o b) = 1..Len(a \o b)
    BY <2>1
  <2> QED
    BY <1>2, <2>1, <2>2, <2>3
<1>5. ASSUME NEW i \in 1..Len(s) - 1
      PROVE  (a \o b)[i] = IF i < j THEN s[i] ELSE s[i + 1]
  <2>1. CASE i < j
    BY <1>1, <1>2, <1>4, <2>1
  <2>2. CASE ~ (i < j)
    <3>1. i - (j - 1) \in 1..Len(s) - j /\ j + (i - (j - 1)) = i + 1
      BY <1>1, <2>2
    <3> QED
      BY <1>1, <1>3, <1>4, <2>2, <3>1
  <2> QED
    BY <2>1, <2>2
<1> QED
  BY <1>4, <1>5 DEF RemoveAt, a, b

\* An element is removed where it is first.
LEMMA RemovedFirst ==
    ASSUME NEW T, NEW s \in Seq(T), NEW e \in ToSet(s)
    PROVE  \E j \in 1..Len(s) : s[j] = e /\ RemoveFirst(s, e) = RemoveAt(s, j)
<1> DEFINE I == {i \in 1..Len(s) : s[i] = e}
<1>1. I # {} /\ I \subseteq Nat /\ \E i \in 1..Len(s) : s[i] = e
  BY DEF ToSet
<1>2. Min(I) \in I
  BY <1>1, Least DEF Min
<1>3. RemoveFirst(s, e) = RemoveAt(s, Min(I))
  BY <1>1 DEF RemoveFirst, SelectInSeq
<1> QED
  BY <1>2, <1>3

LEMMA Unlinked ==
    ASSUME NEW T, NEW s \in Seq(T), IsInjective(s), NEW e \in ToSet(s)
    PROVE  /\ RemoveFirst(s, e) \in Seq(T) /\ IsInjective(RemoveFirst(s, e))
           /\ Len(RemoveFirst(s, e)) = Len(s) - 1
           /\ ToSet(RemoveFirst(s, e)) = ToSet(s) \ {e}
<1>1. PICK j \in 1..Len(s) : s[j] = e /\ RemoveFirst(s, e) = RemoveAt(s, j)
  BY RemovedFirst
<1> DEFINE r == RemoveAt(s, j)
<1>2. /\ r \in Seq(T) /\ Len(r) = Len(s) - 1 /\ DOMAIN r = 1..Len(s) - 1
      /\ \A i \in 1..Len(s) - 1 : r[i] = IF i < j THEN s[i] ELSE s[i + 1]
  BY RemovedAt
<1>3. Len(s) \in Nat /\ DOMAIN s = 1..Len(s)
  OBVIOUS
<1> HIDE DEF r
<1>4. ASSUME NEW i \in 1..Len(s) - 1
      PROVE  \E m \in 1..Len(s) : r[i] = s[m] /\ m = IF i < j THEN i ELSE i + 1
  BY <1>2, <1>3
<1>5. IsInjective(r)
  <2> SUFFICES ASSUME NEW i \in 1..Len(s) - 1, NEW k \in 1..Len(s) - 1, r[i] = r[k]
               PROVE  i = k
    BY <1>2 DEF IsInjective
  <2>1. PICK m \in 1..Len(s) : r[i] = s[m] /\ m = IF i < j THEN i ELSE i + 1
    BY <1>4
  <2>2. PICK n \in 1..Len(s) : r[k] = s[n] /\ n = IF k < j THEN k ELSE k + 1
    BY <1>4
  <2>3. m = n
    BY <1>3, <2>1, <2>2 DEF IsInjective
  <2> QED
    BY <1>3, <2>1, <2>2, <2>3
<1>6. ASSUME NEW x \in ToSet(r) PROVE x \in ToSet(s) \ {e}
  <2>1. PICK i \in 1..Len(s) - 1 : x = r[i]
    BY <1>2, <1>6 DEF ToSet
  <2>2. PICK m \in 1..Len(s) : x = s[m] /\ m = IF i < j THEN i ELSE i + 1
    BY <1>4, <2>1
  <2>3. m # j
    BY <1>3, <2>2
  <2> QED
    BY <1>1, <1>3, <2>2, <2>3 DEF ToSet, IsInjective
<1>7. ASSUME NEW x \in ToSet(s) \ {e} PROVE x \in ToSet(r)
  <2>1. PICK m \in 1..Len(s) : x = s[m] /\ m # j
    BY <1>1, <1>3 DEF ToSet
  <2>2. CASE m < j
    <3>1. m \in 1..Len(s) - 1 /\ r[m] = s[m]
      BY <1>2, <1>3, <2>1, <2>2
    <3> QED
      BY <1>2, <2>1, <3>1 DEF ToSet
  <2>3. CASE m > j
    <3>1. m - 1 \in 1..Len(s) - 1 /\ ~ (m - 1 < j) /\ (m - 1) + 1 = m
      BY <1>3, <2>1, <2>3
    <3>2. r[m - 1] = s[m]
      BY <1>2, <3>1
    <3> QED
      BY <1>2, <2>1, <3>1, <3>2 DEF ToSet
  <2> QED
    BY <1>3, <2>1, <2>2, <2>3
<1>8. ToSet(r) = ToSet(s) \ {e}
  BY <1>6, <1>7
<1> QED
  BY <1>1, <1>2, <1>5, <1>8 DEF r

LEMMA PutInFront ==
    ASSUME NEW T, NEW s \in Seq(T), IsInjective(s), NEW e \in T, e \notin ToSet(s)
    PROVE  /\ <<e>> \o s \in Seq(T) /\ IsInjective(<<e>> \o s)
           /\ Len(<<e>> \o s) = Len(s) + 1
           /\ ToSet(<<e>> \o s) = ToSet(s) \cup {e}
<1> DEFINE r == <<e>> \o s
<1>1. /\ r \in Seq(T) /\ Len(s) \in Nat /\ Len(r) = Len(s) + 1 /\ DOMAIN r = 1..Len(s) + 1
      /\ DOMAIN s = 1..Len(s)
      /\ \A i \in 1..Len(s) + 1 : r[i] = IF i = 1 THEN e ELSE s[i - 1]
  OBVIOUS
<1> HIDE DEF r
<1>2. IsInjective(r)
  <2> SUFFICES ASSUME NEW i \in 1..Len(s) + 1, NEW k \in 1..Len(s) + 1, r[i] = r[k]
               PROVE  i = k
    BY <1>1 DEF IsInjective
  <2>1. \A m \in 1..Len(s) + 1 : m # 1 => m - 1 \in DOMAIN s /\ r[m] = s[m - 1] /\ r[m] # e
    BY <1>1 DEF ToSet
  <2>2. CASE i = 1 \/ k = 1
    BY <1>1, <2>1, <2>2
  <2>3. CASE i # 1 /\ k # 1
    <3>1. i - 1 = k - 1
      BY <2>1, <2>3 DEF IsInjective
    <3> QED
      BY <1>1, <3>1
  <2> QED
    BY <2>2, <2>3
<1>3. ASSUME NEW x \in ToSet(s) PROVE x \in ToSet(r)
  <2>1. PICK m \in 1..Len(s) : x = s[m]
    BY <1>1 DEF ToSet
  <2>2. m + 1 \in 1..Len(s) + 1 /\ r[m + 1] = s[m]
    BY <1>1, <2>1
  <2> QED
    BY <1>1, <2>1, <2>2 DEF ToSet
<1>4. e \in ToSet(r) /\ ToSet(r) \subseteq ToSet(s) \cup {e}
  BY <1>1 DEF ToSet
<1> QED
  BY <1>1, <1>2, <1>3, <1>4 DEF r

-----------------------------------------------------------------------------
(* The operators of sequences that the caches use are those of the lemmas.   *)
LEMMA SameSequences ==
    /\ \A s : KAnon!ToSet(s) = ToSet(s) /\ KAnon!IsInjective(s) = IsInjective(s) /\ KAnon!Last(s) = Last(s)
    /\ \A s, e : KAnon!RemoveFirst(s, e) = RemoveFirst(s, e) /\ KAnon!Contains(s, e) = Contains(s, e)
<1>1. \A s, e : KAnon!RemoveFirst(s, e) = RemoveFirst(s, e)
  BY DEF KAnon!RemoveFirst, RemoveFirst, KAnon!RemoveAt, RemoveAt, KAnon!SelectInSeq, SelectInSeq,
         KAnon!Min, Min
<1> QED
  BY <1>1 DEF KAnon!ToSet, ToSet, KAnon!IsInjective, IsInjective, KAnon!Last, Last, KAnon!Contains, Contains

-----------------------------------------------------------------------------
(* One cache.                                                                *)

Listed(c) == ToSet(c.dll)

\* What CachesOK says of each cache, but for its capacity.
GoodCaches ==
    {c \in KAnon!CacheStates :
        /\ IsInjective(c.dll) /\ c.num_entries = Len(c.dll)
        /\ Listed(c) = c.armed \cup {k \in Keys : c.fired[k] > 0}}

LEMMA GoodCache ==
    ASSUME NEW c \in GoodCaches
    PROVE  /\ c \in KAnon!CacheStates
           /\ c.dll \in Seq(Keys) /\ IsInjective(c.dll) /\ c.num_entries = Len(c.dll)
           /\ Len(c.dll) \in Nat /\ Listed(c) \subseteq Keys /\ c.armed \subseteq Keys
           /\ c.fired \in [Keys -> Nat] /\ c.stale \in [Keys -> Nat]
           /\ Listed(c) = c.armed \cup {k \in Keys : c.fired[k] > 0}
           /\ \A k : KAnon!Has(c, k) <=> k \in Listed(c)
<1>1. c.dll \in Seq(Keys) /\ c.fired \in [Keys -> Nat] /\ c.stale \in [Keys -> Nat]
      /\ c.armed \subseteq Keys
  BY DEF GoodCaches, KAnon!CacheStates
<1>2. Len(c.dll) \in Nat /\ DOMAIN c.dll = 1..Len(c.dll) /\ Listed(c) \subseteq Keys
  BY <1>1 DEF Listed, ToSet
<1>3. \A k : KAnon!Has(c, k) <=> k \in Listed(c)
  BY <1>2, SameSequences DEF KAnon!Has, Contains, Listed, ToSet
<1> QED
  BY <1>1, <1>2, <1>3 DEF GoodCaches

LEMMA Fronted ==
    ASSUME NEW c \in GoodCaches, NEW k \in Listed(c)
    PROVE  /\ KAnon!MoveToFront(c, k) \in GoodCaches
           /\ Listed(KAnon!MoveToFront(c, k)) = Listed(c)
           /\ KAnon!MoveToFront(c, k).num_entries = c.num_entries
<1> DEFINE rest == RemoveFirst(c.dll, k)
           d == KAnon!MoveToFront(c, k)
<1>1. /\ rest \in Seq(Keys) /\ IsInjective(rest) /\ Len(rest) = Len(c.dll) - 1
      /\ ToSet(rest) = ToSet(c.dll) \ {k}
  BY GoodCache, Unlinked DEF Listed
<1>2. k \in Keys /\ k \notin ToSet(rest)
  BY <1>1, GoodCache
<1>3. /\ <<k>> \o rest \in Seq(Keys) /\ IsInjective(<<k>> \o rest)
      /\ Len(<<k>> \o rest) = Len(rest) + 1
      /\ ToSet(<<k>> \o rest) = ToSet(rest) \cup {k}
  BY <1>1, <1>2, PutInFront
<1>4. Len(rest) + 1 = Len(c.dll) /\ ToSet(rest) \cup {k} = ToSet(c.dll)
  BY <1>1, GoodCache DEF Listed
<1>5. d = [c EXCEPT !.dll = <<k>> \o rest]
  BY SameSequences DEF KAnon!MoveToFront
<1> HIDE DEF rest, d
<1>6. /\ d.dll = <<k>> \o rest /\ d.num_entries = c.num_entries /\ d.armed = c.armed
      /\ d.fired = c.fired /\ d.stale = c.stale
  BY <1>5, GoodCache DEF KAnon!CacheStates
<1>7. d \in KAnon!CacheStates
  BY <1>3, <1>5, GoodCache DEF KAnon!CacheStates
<1>8. Listed(d) = Listed(c)
  BY <1>3, <1>4, <1>6 DEF Listed
<1>9. d \in GoodCaches
  BY <1>3, <1>4, <1>6, <1>7, <1>8, GoodCache DEF GoodCaches
<1> QED
  BY <1>6, <1>8, <1>9 DEF d

LEMMA Removed ==
    ASSUME NEW c \in GoodCaches, NEW k \in Listed(c)
    PROVE  /\ KAnon!RemoveNode(c, k) \in GoodCaches
           /\ Listed(KAnon!RemoveNode(c, k)) = Listed(c) \ {k}
           /\ KAnon!RemoveNode(c, k).num_entries = c.num_entries - 1
<1> DEFINE rest == RemoveFirst(c.dll, k)
           d == KAnon!RemoveNode(c, k)
<1>1. /\ rest \in Seq(Keys) /\ IsInjective(rest) /\ Len(rest) = Len(c.dll) - 1
      /\ ToSet(rest) = ToSet(c.dll) \ {k}
  BY GoodCache, Unlinked DEF Listed
<1>2. k \in Keys
  BY GoodCache
<1>3. d = [dll |-> rest, num_entries |-> c.num_entries - 1, armed |-> c.armed \ {k},
           fired |-> [c.fired EXCEPT ![k] = 0],
           stale |-> [c.stale EXCEPT ![k] = @ + c.fired[k]]]
  BY SameSequences DEF KAnon!RemoveNode
<1> HIDE DEF rest, d
<1>4. /\ d.dll = rest /\ d.num_entries = c.num_entries - 1 /\ d.armed = c.armed \ {k}
      /\ d.fired = [c.fired EXCEPT ![k] = 0]
      /\ d.stale = [c.stale EXCEPT ![k] = @ + c.fired[k]]
  BY <1>3
<1>5. /\ d.fired \in [Keys -> Nat] /\ d.stale \in [Keys -> Nat]
      /\ \A l \in Keys : d.fired[l] = IF l = k THEN 0 ELSE c.fired[l]
  <2>1. c.stale[k] + c.fired[k] \in Nat
    BY <1>2, GoodCache
  <2> QED
    BY <1>2, <1>4, <2>1, GoodCache
<1>6. c.num_entries - 1 = Len(rest) /\ Len(rest) \in Int
  BY <1>1, GoodCache
<1>7. d \in KAnon!CacheStates
  BY <1>1, <1>3, <1>4, <1>5, <1>6, GoodCache DEF KAnon!CacheStates
<1>8. Listed(d) = Listed(c) \ {k}
  BY <1>1, <1>4 DEF Listed
<1>9. {l \in Keys : d.fired[l] > 0} = {l \in Keys : c.fired[l] > 0} \ {k}
  BY <1>5
<1>10. Listed(d) = d.armed \cup {l \in Keys : d.fired[l] > 0}
  BY <1>4, <1>8, <1>9, GoodCache
<1>11. d \in GoodCaches
  BY <1>1, <1>4, <1>6, <1>7, <1>10 DEF GoodCaches
<1> QED
  BY <1>4, <1>8, <1>11 DEF d

LEMMA WithTimer ==
    ASSUME NEW c \in GoodCaches, NEW k \in Listed(c)
    PROVE  /\ [c EXCEPT !.armed = @ \cup {k}] \in GoodCaches
           /\ Listed([c EXCEPT !.armed = @ \cup {k}]) = Listed(c)
<1> DEFINE d == [c EXCEPT !.armed = @ \cup {k}]
<1>1. /\ d.dll = c.dll /\ d.num_entries = c.num_entries /\ d.armed = c.armed \cup {k}
      /\ d.fired = c.fired /\ d.stale = c.stale /\ d \in KAnon!CacheStates
  BY GoodCache DEF KAnon!CacheStates
<1> HIDE DEF d
<1>2. Listed(d) = Listed(c)
  BY <1>1 DEF Listed
<1>3. d \in GoodCaches
  BY <1>1, <1>2, GoodCache DEF GoodCaches
<1> QED
  BY <1>2, <1>3 DEF d

LEMMA IsRefreshed ==
    ASSUME NEW c \in GoodCaches, NEW k \in Listed(c)
    PROVE  /\ KAnon!Refreshed(c, k) \in GoodCaches
           /\ Listed(KAnon!Refreshed(c, k)) = Listed(c)
           /\ KAnon!Refreshed(c, k).num_entries = c.num_entries
<1> DEFINE d == KAnon!MoveToFront(c, k)
<1>1. d \in GoodCaches /\ Listed(d) = Listed(c) /\ d.num_entries = c.num_entries
  BY Fronted
<1> HIDE DEF d
<1>2. KAnon!Refreshed(c, k) = [d EXCEPT !.armed = @ \cup {k}]
  BY DEF KAnon!Refreshed, d
<1>3. /\ [d EXCEPT !.armed = @ \cup {k}] \in GoodCaches
      /\ Listed([d EXCEPT !.armed = @ \cup {k}]) = Listed(d)
  BY <1>1, WithTimer
<1>4. [d EXCEPT !.armed = @ \cup {k}].num_entries = d.num_entries
  BY <1>1, GoodCache DEF KAnon!CacheStates
<1> QED
  BY <1>1, <1>2, <1>3, <1>4

LEMMA IsAdded ==
    ASSUME NEW c \in GoodCaches, NEW k \in Keys, k \notin Listed(c)
    PROVE  /\ KAnon!Added(c, k) \in GoodCaches
           /\ Listed(KAnon!Added(c, k)) = Listed(c) \cup {k}
           /\ KAnon!Added(c, k).num_entries = c.num_entries + 1
<1> DEFINE d == KAnon!Added(c, k)
<1>1. /\ <<k>> \o c.dll \in Seq(Keys) /\ IsInjective(<<k>> \o c.dll)
      /\ Len(<<k>> \o c.dll) = Len(c.dll) + 1
      /\ ToSet(<<k>> \o c.dll) = ToSet(c.dll) \cup {k}
  BY GoodCache, PutInFront DEF Listed
<1>2. d = [c EXCEPT !.dll = <<k>> \o @, !.num_entries = @ + 1, !.armed = @ \cup {k}]
  BY DEF KAnon!Added
<1> HIDE DEF d
<1>3. /\ d.dll = <<k>> \o c.dll /\ d.num_entries = c.num_entries + 1
      /\ d.armed = c.armed \cup {k} /\ d.fired = c.fired
  BY <1>2, GoodCache DEF KAnon!CacheStates
<1>4. c.num_entries + 1 \in Int
  BY GoodCache
<1>5. d \in KAnon!CacheStates
  BY <1>1, <1>2, <1>4, GoodCache DEF KAnon!CacheStates
<1>6. Listed(d) = Listed(c) \cup {k}
  BY <1>1, <1>3 DEF Listed
<1>7. d \in GoodCaches
  BY <1>1, <1>3, <1>5, <1>6, GoodCache DEF GoodCaches
<1> QED
  BY <1>3, <1>6, <1>7 DEF d

-----------------------------------------------------------------------------
(* Each operation, and the loops over them.                                  *)

\* Query changes the order of a cache only.
LEMMA OneQueried ==
    ASSUME NEW c \in GoodCaches, NEW k \in Keys
    PROVE  /\ KAnon!QueryKey(c, k) \in GoodCaches
           /\ Listed(KAnon!QueryKey(c, k)) = Listed(c)
           /\ KAnon!QueryKey(c, k).num_entries = c.num_entries
BY GoodCache, Fronted DEF KAnon!QueryKey

LEMMA IsQueried ==
    ASSUME NEW c \in GoodCaches, NEW order \in Seq(Keys)
    PROVE  /\ KAnon!Queried(c, order) \in GoodCaches
           /\ Listed(KAnon!Queried(c, order)) = Listed(c)
           /\ KAnon!Queried(c, order).num_entries = c.num_entries
<1> DEFINE N == Len(order)
           G(f) == [n \in 0..N |-> IF n = 0 THEN c ELSE KAnon!QueryKey(f[n - 1], order[n])]
           after == CHOOSE f : f = G(f)
           step == [p \in GoodCaches \X (1..N) |-> KAnon!QueryKey(p[1], order[p[2]])]
<1>1. N \in Nat /\ \A n \in 1..N : order[n] \in Keys
  OBVIOUS
<1>2. step \in Turns(GoodCaches, N)
  BY <1>1, OneQueried DEF Turns
<1>3. PICK f : IsRun(f, GoodCaches, N, c, step)
  <2> HIDE DEF step, N, G, after
  <2> QED
    BY <1>1, <1>2, Runs
<1>4. f = G(f)
  <2>1. ASSUME NEW n \in 0..N PROVE f[n] = IF n = 0 THEN c ELSE KAnon!QueryKey(f[n - 1], order[n])
    <3>1. CASE n = 0
      BY <1>3, <3>1 DEF IsRun
    <3>2. CASE n # 0
      <4>1. n \in 1..N /\ n - 1 \in 0..N
        BY <1>1, <3>2
      <4>2. <<f[n - 1], n>> \in GoodCaches \X (1..N)
        BY <1>3, <4>1 DEF IsRun
      <4> QED
        BY <1>3, <3>2, <4>1, <4>2 DEF IsRun
    <3> QED
      BY <3>1, <3>2
  <2> QED
    BY <1>3, <2>1 DEF IsRun
<1>5. after = G(after)
  BY <1>4
<1>6. KAnon!Queried(c, order) = after[N]
  BY DEF KAnon!Queried
<1> HIDE DEF after, step
<1> DEFINE A == {n \in 0..N : /\ after[n] \in GoodCaches /\ Listed(after[n]) = Listed(c)
                              /\ after[n].num_entries = c.num_entries}
<1>7. \A n \in 0..N : after[n] = IF n = 0 THEN c ELSE KAnon!QueryKey(after[n - 1], order[n])
  BY <1>5
<1>8. 0 \in A
  BY <1>1, <1>7
<1>9. ASSUME NEW n \in 1..N, n - 1 \in A PROVE n \in A
  <2>1. n \in 0..N /\ after[n] = KAnon!QueryKey(after[n - 1], order[n])
    BY <1>1, <1>7
  <2>2. /\ after[n - 1] \in GoodCaches /\ Listed(after[n - 1]) = Listed(c)
        /\ after[n - 1].num_entries = c.num_entries
    BY <1>9
  <2> HIDE DEF A
  <2>3. /\ after[n] \in GoodCaches /\ Listed(after[n]) = Listed(after[n - 1])
        /\ after[n].num_entries = after[n - 1].num_entries
    BY <1>1, <2>1, <2>2, OneQueried
  <2> QED
    BY <2>1, <2>2, <2>3 DEF A
<1>10. N \in A
  <2>1. \A n \in 1..N : n - 1 \in A => n \in A
    BY <1>9
  <2>2. N \in 0..N
    BY <1>1
  <2> HIDE DEF A, N
  <2> QED
    BY <1>1, <1>8, <2>1, <2>2, UpToN
<1> QED
  BY <1>6, <1>10

\* Evict takes entries from the tail while there are some.
LEMMA OneEvicted ==
    ASSUME NEW c \in GoodCaches
    PROVE  /\ KAnon!EvictTail(c) \in GoodCaches /\ Listed(KAnon!EvictTail(c)) \subseteq Listed(c)
           /\ KAnon!EvictTail(c).num_entries = IF c.num_entries = 0 THEN 0 ELSE c.num_entries - 1
<1>1. c.dll \in Seq(Keys) /\ c.num_entries = Len(c.dll) /\ Len(c.dll) \in Nat
  BY GoodCache
<1>2. CASE c.dll = <<>>
  BY <1>1, <1>2 DEF KAnon!EvictTail
<1>3. CASE c.dll # <<>>
  <2>1. Len(c.dll) \in DOMAIN c.dll /\ Len(c.dll) # 0
    BY <1>1, <1>3
  <2>2. Last(c.dll) \in Listed(c)
    BY <2>1 DEF Last, Listed, ToSet
  <2>3. KAnon!EvictTail(c) = KAnon!RemoveNode(c, Last(c.dll))
    BY <1>3, SameSequences DEF KAnon!EvictTail
  <2> QED
    BY <1>1, <2>1, <2>2, <2>3, Removed
<1> QED
  BY <1>2, <1>3

LEMMA IsEvicted ==
    ASSUME NEW c \in GoodCaches, NEW m \in Int
    PROVE  /\ KAnon!Evicted(c, m) \in GoodCaches /\ Listed(KAnon!Evicted(c, m)) \subseteq Listed(c)
           /\ m <= 0 => KAnon!Evicted(c, m) = c
           /\ m > 0 => KAnon!Evicted(c, m).num_entries
                         = IF m >= c.num_entries THEN 0 ELSE c.num_entries - m
<1>1. CASE m <= 0
  BY <1>1 DEF KAnon!Evicted
<1>2. CASE m > 0
  <2> DEFINE G(f) == [n \in 0..m |-> IF n = 0 THEN c ELSE KAnon!EvictTail(f[n - 1])]
             after == CHOOSE f : f = G(f)
             step == [p \in GoodCaches \X (1..m) |-> KAnon!EvictTail(p[1])]
  <2>1. m \in Nat /\ c.num_entries \in Nat
    BY <1>2, GoodCache
  <2>2. step \in Turns(GoodCaches, m)
    BY <2>1, OneEvicted DEF Turns
  <2>3. PICK f : IsRun(f, GoodCaches, m, c, step)
    <3> HIDE DEF step, G, after
    <3> QED
      BY <2>1, <2>2, Runs
  <2>4. f = G(f)
    <3>1. ASSUME NEW n \in 0..m PROVE f[n] = IF n = 0 THEN c ELSE KAnon!EvictTail(f[n - 1])
      <4>1. CASE n = 0
        BY <2>3, <4>1 DEF IsRun
      <4>2. CASE n # 0
        <5>1. n \in 1..m /\ n - 1 \in 0..m
          BY <2>1, <4>2
        <5>2. <<f[n - 1], n>> \in GoodCaches \X (1..m)
          BY <2>3, <5>1 DEF IsRun
        <5> QED
          BY <2>3, <4>2, <5>1, <5>2 DEF IsRun
      <4> QED
        BY <4>1, <4>2
    <3> QED
      BY <2>3, <3>1 DEF IsRun
  <2>5. after = G(after)
    BY <2>4
  <2>6. KAnon!Evicted(c, m) = after[m]
    BY <1>2 DEF KAnon!Evicted
  <2> HIDE DEF after, step
  <2>7. \A n \in 0..m : after[n] = IF n = 0 THEN c ELSE KAnon!EvictTail(after[n - 1])
    BY <2>5
  <2> DEFINE A == {n \in 0..m :
                      /\ after[n] \in GoodCaches /\ Listed(after[n]) \subseteq Listed(c)
                      /\ after[n].num_entries
                            = IF n >= c.num_entries THEN 0 ELSE c.num_entries - n}
  <2>8. 0 \in A
    BY <2>1, <2>7
  <2>9. ASSUME NEW n \in 1..m, n - 1 \in A PROVE n \in A
    <3> DEFINE d == after[n - 1]
    <3>1. /\ n \in 0..m /\ after[n] = KAnon!EvictTail(d)
      BY <2>1, <2>7
    <3>2. /\ d \in GoodCaches /\ Listed(d) \subseteq Listed(c)
          /\ d.num_entries = IF n - 1 >= c.num_entries THEN 0 ELSE c.num_entries - (n - 1)
      BY <2>9
    <3> HIDE DEF d
    <3>3. /\ KAnon!EvictTail(d) \in GoodCaches /\ Listed(KAnon!EvictTail(d)) \subseteq Listed(d)
          /\ KAnon!EvictTail(d).num_entries
                = IF d.num_entries = 0 THEN 0 ELSE d.num_entries - 1
      BY <3>2, OneEvicted
    <3>4. after[n].num_entries = IF n >= c.num_entries THEN 0 ELSE c.num_entries - n
      BY <2>1, <3>1, <3>2, <3>3
    <3> QED
      BY <3>1, <3>2, <3>3, <3>4
  <2>10. m \in A
    <3>1. \A n \in 1..m : n - 1 \in A => n \in A
      BY <2>9
    <3>2. m \in 0..m
      BY <2>1
    <3> HIDE DEF A
    <3> QED
      BY <2>1, <2>8, <3>1, <3>2, UpToN
  <2> QED
    BY <1>2, <2>6, <2>10
<1> QED
  BY <1>1, <1>2

\* One turn of the loop of Insert.
Batches == [c : GoodCaches, full : BOOLEAN]

Within(a, cap) == a.c.num_entries <= cap /\ (~ a.full => a.c.num_entries < cap)

LEMMA OneInserted ==
    ASSUME NEW a \in Batches, NEW k \in Keys, NEW cap \in Nat
    PROVE  /\ KAnon!NextEntry(a, k, cap) \in Batches
           /\ Listed(KAnon!NextEntry(a, k, cap).c) \subseteq Listed(a.c) \cup {k}
           /\ Within(a, cap) => Within(KAnon!NextEntry(a, k, cap), cap)
<1>1. a.c \in GoodCaches /\ a.full \in BOOLEAN /\ a = [c |-> a.c, full |-> a.full]
  BY DEF Batches
<1>2. a.c.num_entries \in Nat /\ (KAnon!Has(a.c, k) <=> k \in Listed(a.c))
  BY <1>1, GoodCache
<1>3. CASE a.full
  BY <1>3 DEF KAnon!NextEntry
<1>4. CASE ~ a.full /\ KAnon!Has(a.c, k)
  <2>1. /\ KAnon!Refreshed(a.c, k) \in GoodCaches /\ Listed(KAnon!Refreshed(a.c, k)) = Listed(a.c)
        /\ KAnon!Refreshed(a.c, k).num_entries = a.c.num_entries
    BY <1>1, <1>2, <1>4, IsRefreshed
  <2>2. KAnon!NextEntry(a, k, cap) = [a EXCEPT !.c = KAnon!Refreshed(a.c, k)]
    BY <1>4 DEF KAnon!NextEntry
  <2>3. [a EXCEPT !.c = KAnon!Refreshed(a.c, k)] = [c |-> KAnon!Refreshed(a.c, k), full |-> a.full]
    BY <1>1
  <2> QED
    BY <1>1, <2>1, <2>2, <2>3 DEF Batches, Within
<1>5. CASE ~ a.full /\ ~ KAnon!Has(a.c, k)
  <2> DEFINE d == KAnon!Added(a.c, k)
  <2>1. d \in GoodCaches /\ Listed(d) = Listed(a.c) \cup {k}
        /\ d.num_entries = a.c.num_entries + 1
    BY <1>1, <1>2, <1>5, IsAdded
  <2> DEFINE isFull == d.num_entries = cap
  <2>2. KAnon!NextEntry(a, k, cap) = [c |-> d, full |-> isFull] /\ isFull \in BOOLEAN
    BY <1>5 DEF KAnon!NextEntry
  <2> HIDE DEF d, isFull
  <2>3. KAnon!NextEntry(a, k, cap) \in Batches /\ KAnon!NextEntry(a, k, cap).c = d
    BY <2>1, <2>2 DEF Batches
  <2>4. KAnon!NextEntry(a, k, cap).full = isFull
    BY <2>2
  <2>5. Within(a, cap) => a.c.num_entries < cap
    BY <1>5 DEF Within
  <2>6. a.c.num_entries < cap =>
            /\ d.num_entries <= cap
            /\ d.num_entries # cap => d.num_entries < cap
    BY <1>2, <2>1
  <2>7. Within(a, cap) => Within(KAnon!NextEntry(a, k, cap), cap)
    BY <2>3, <2>4, <2>5, <2>6 DEF Within, isFull
  <2> QED
    BY <2>1, <2>3, <2>7
<1> QED
  BY <1>3, <1>4, <1>5

\* A turn keeps what is there, and inserts its key unless the cache is full.
LEMMA OneKept ==
    ASSUME NEW a \in Batches, NEW k \in Keys, NEW cap \in Nat
    PROVE  /\ Listed(a.c) \subseteq Listed(KAnon!NextEntry(a, k, cap).c)
           /\ ~ a.full => k \in Listed(KAnon!NextEntry(a, k, cap).c)
           /\ a.full => KAnon!NextEntry(a, k, cap) = a
           /\ KAnon!NextEntry(a, k, cap).c.num_entries <= a.c.num_entries + 1
           /\ ~ a.full /\ KAnon!NextEntry(a, k, cap).full =>
                KAnon!NextEntry(a, k, cap).c.num_entries = cap
<1>1. a.c \in GoodCaches /\ a.full \in BOOLEAN /\ a = [c |-> a.c, full |-> a.full]
  BY DEF Batches
<1>2. a.c.num_entries \in Nat /\ (KAnon!Has(a.c, k) <=> k \in Listed(a.c))
  BY <1>1, GoodCache
<1>3. CASE a.full
  <2>1. KAnon!NextEntry(a, k, cap) = a
    BY <1>3 DEF KAnon!NextEntry
  <2> QED
    BY <1>2, <1>3, <2>1
<1>4. CASE ~ a.full /\ KAnon!Has(a.c, k)
  <2>1. /\ Listed(KAnon!Refreshed(a.c, k)) = Listed(a.c)
        /\ KAnon!Refreshed(a.c, k).num_entries = a.c.num_entries
    BY <1>1, <1>2, <1>4, IsRefreshed
  <2> DEFINE d == KAnon!Refreshed(a.c, k)
             z == KAnon!NextEntry(a, k, cap)
  <2>2. z = [a EXCEPT !.c = d]
    BY <1>4 DEF KAnon!NextEntry
  <2> HIDE DEF d, z
  <2>3. z.c = d /\ z.full = a.full
    BY <1>1, <2>2
  <2>4. Listed(d) = Listed(a.c) /\ d.num_entries = a.c.num_entries
    BY <2>1 DEF d
  <2> QED
    BY <1>2, <1>4, <2>3, <2>4 DEF z
<1>5. CASE ~ a.full /\ ~ KAnon!Has(a.c, k)
  <2> DEFINE d == KAnon!Added(a.c, k)
             z == KAnon!NextEntry(a, k, cap)
             isFull == d.num_entries = cap
  <2>1. Listed(d) = Listed(a.c) \cup {k} /\ d.num_entries = a.c.num_entries + 1
    BY <1>1, <1>2, <1>5, IsAdded
  <2>2. z = [c |-> d, full |-> isFull]
    BY <1>5 DEF KAnon!NextEntry
  <2>3. z.c = d /\ (z.full => d.num_entries = cap)
    <3> HIDE DEF d, z
    <3> QED
      BY <2>2
  <2> HIDE DEF d, z, isFull
  <2> QED
    BY <1>2, <1>5, <2>1, <2>3 DEF z
<1> QED
  BY <1>3, <1>4, <1>5

\* After n turns over a batch that fits all n keys are there, and it is full at the
\* end at the earliest.
Filled(a, order, n, cap) ==
    /\ a.c.num_entries <= cap - Len(order) + n
    /\ a.full => a.c.num_entries = cap
    /\ \A j \in 1..n : order[j] \in Listed(a.c)

LEMMA OneFilled ==
    ASSUME NEW a \in Batches, NEW order \in Seq(Keys), NEW cap \in Nat, Len(order) <= cap,
           NEW n \in 1..Len(order), Filled(a, order, n - 1, cap)
    PROVE  Filled(KAnon!NextEntry(a, order[n], cap), order, n, cap)
<1> DEFINE k == order[n]
           z == KAnon!NextEntry(a, k, cap)
<1>1. k \in Keys /\ Len(order) \in Nat
  OBVIOUS
<1>2. a.c.num_entries \in Nat /\ z.c.num_entries \in Nat
  <2>1. z \in Batches
    BY <1>1, OneInserted
  <2> HIDE DEF z
  <2>2. a.c \in GoodCaches /\ z.c \in GoodCaches
    BY <2>1 DEF Batches
  <2> QED
    BY <2>2, GoodCache
<1>3. ~ a.full
  BY <1>1, <1>2 DEF Filled
<1>4. /\ Listed(a.c) \subseteq Listed(z.c) /\ k \in Listed(z.c)
      /\ z.c.num_entries <= a.c.num_entries + 1
      /\ z.full => z.c.num_entries = cap
  BY <1>1, <1>3, OneKept
<1>5. \A j \in 1..n : j \in 1..n - 1 \/ j = n
  BY <1>1
<1> HIDE DEF z
<1>6. \A j \in 1..n : order[j] \in Listed(z.c)
  BY <1>4, <1>5 DEF Filled
<1>7. z.c.num_entries <= cap - Len(order) + n
  BY <1>1, <1>2, <1>4 DEF Filled
<1> QED
  BY <1>4, <1>6, <1>7 DEF Filled, z

LEMMA IsInserted ==
    ASSUME NEW c \in GoodCaches, NEW order \in Seq(Keys), NEW cap \in Nat \ {0},
           c.num_entries <= cap
    PROVE  /\ KAnon!Inserted(c, order, cap) \in GoodCaches
           /\ Listed(KAnon!Inserted(c, order, cap)) \subseteq Listed(c) \cup ToSet(order)
           /\ KAnon!Inserted(c, order, cap).num_entries <= cap
           /\ Len(order) <= cap =>
                \A j \in 1..Len(order) : order[j] \in Listed(KAnon!Inserted(c, order, cap))
<1> DEFINE N == Len(order)
           e == KAnon!Evicted(c, KAnon!Overflow(c, N, cap))
           a == [c |-> e, full |-> FALSE]
           G(f) == [n \in 0..N |-> IF n = 0 THEN a ELSE KAnon!NextEntry(f[n - 1], order[n], cap)]
           after == CHOOSE f : f = G(f)
           step == [p \in Batches \X (1..N) |-> KAnon!NextEntry(p[1], order[p[2]], cap)]
<1>1. /\ N \in Nat /\ cap \in Nat /\ \A n \in 1..N : order[n] \in Keys /\ order[n] \in ToSet(order)
  BY DEF ToSet
<1>2. /\ e \in GoodCaches /\ Listed(e) \subseteq Listed(c) /\ e.num_entries <= cap
      /\ N > 0 => e.num_entries < cap
      /\ N <= cap => e.num_entries <= cap - N
  <2> DEFINE m == KAnon!Overflow(c, N, cap)
  <2>1. m = c.num_entries + N - cap
    BY DEF KAnon!Overflow
  <2>2. c.num_entries \in Nat
    BY GoodCache
  <2>3. m \in Int
    BY <1>1, <2>1, <2>2
  <2> HIDE DEF m
  <2>4. /\ KAnon!Evicted(c, m) \in GoodCaches /\ Listed(KAnon!Evicted(c, m)) \subseteq Listed(c)
        /\ m <= 0 => KAnon!Evicted(c, m) = c
        /\ m > 0 => KAnon!Evicted(c, m).num_entries
                         = IF m >= c.num_entries THEN 0 ELSE c.num_entries - m
    BY <2>3, IsEvicted
  <2>5. KAnon!Evicted(c, m).num_entries <= cap /\ (N > 0 => KAnon!Evicted(c, m).num_entries < cap)
    BY <1>1, <2>1, <2>2, <2>3, <2>4
  <2>6. N <= cap => KAnon!Evicted(c, m).num_entries <= cap - N
    BY <1>1, <2>1, <2>2, <2>3, <2>4
  <2> QED
    BY <2>4, <2>5, <2>6 DEF m
<1>3. a \in Batches /\ a.c = e /\ a.full = FALSE
  BY <1>2 DEF Batches
<1> HIDE DEF e, a
<1>4. step \in Turns(Batches, N)
  BY <1>1, OneInserted DEF Turns
<1>5. PICK f : IsRun(f, Batches, N, a, step)
  <2> HIDE DEF step, N, G, after
  <2> QED
    BY <1>1, <1>3, <1>4, Runs
<1>6. f = G(f)
  <2>1. ASSUME NEW n \in 0..N
        PROVE  f[n] = IF n = 0 THEN a ELSE KAnon!NextEntry(f[n - 1], order[n], cap)
    <3>1. CASE n = 0
      BY <1>5, <3>1 DEF IsRun
    <3>2. CASE n # 0
      <4>1. n \in 1..N /\ n - 1 \in 0..N
        BY <1>1, <3>2
      <4>2. <<f[n - 1], n>> \in Batches \X (1..N)
        BY <1>5, <4>1 DEF IsRun
      <4> QED
        BY <1>5, <3>2, <4>1, <4>2 DEF IsRun
    <3> QED
      BY <3>1, <3>2
  <2> QED
    BY <1>5, <2>1 DEF IsRun
<1>7. after = G(after)
  BY <1>6
<1>8. KAnon!Inserted(c, order, cap) = after[N].c
  BY DEF KAnon!Inserted, a, e
<1> HIDE DEF after, step
<1>9. \A n \in 0..N : after[n] = IF n = 0 THEN a ELSE KAnon!NextEntry(after[n - 1], order[n], cap)
  BY <1>7
<1> DEFINE A == {n \in 0..N : /\ after[n] \in Batches
                              /\ Listed(after[n].c) \subseteq Listed(c) \cup ToSet(order)
                              /\ after[n].c.num_entries <= cap
                              /\ N > 0 => Within(after[n], cap)
                              /\ N <= cap => Filled(after[n], order, n, cap)}
<1>10. 0 \in A
  <2>1. after[0] = a /\ 0 \in 0..N
    BY <1>1, <1>9
  <2>2. N <= cap => Filled(a, order, 0, cap)
    BY <1>1, <1>2, <1>3 DEF Filled
  <2> QED
    BY <1>2, <1>3, <2>1, <2>2 DEF Within
<1>11. ASSUME NEW n \in 1..N, n - 1 \in A PROVE n \in A
  <2> DEFINE b == after[n - 1]
             k == order[n]
  <2>1. n \in 0..N /\ n - 1 \in 0..N /\ N > 0 /\ n # 0
    BY <1>1
  <2>2. after[n] = KAnon!NextEntry(b, k, cap)
    BY <1>9, <2>1
  <2>3. b \in Batches /\ Listed(b.c) \subseteq Listed(c) \cup ToSet(order) /\ Within(b, cap)
    BY <1>11, <2>1
  <2>4. k \in Keys /\ k \in ToSet(order)
    BY <1>1
  <2> HIDE DEF b, k
  <2>5. /\ KAnon!NextEntry(b, k, cap) \in Batches
        /\ Listed(KAnon!NextEntry(b, k, cap).c) \subseteq Listed(b.c) \cup {k}
        /\ Within(KAnon!NextEntry(b, k, cap), cap)
    BY <1>1, <2>3, <2>4, OneInserted
  <2>6. KAnon!NextEntry(b, k, cap).c.num_entries <= cap
    BY <2>5 DEF Within
  <2>7. N <= cap => Filled(KAnon!NextEntry(b, k, cap), order, n, cap)
    <3>1. N <= cap => Filled(b, order, n - 1, cap)
      BY <1>11 DEF b
    <3> QED
      BY <1>1, <2>3, <3>1, OneFilled DEF k
  <2> QED
    BY <2>1, <2>2, <2>3, <2>4, <2>5, <2>6, <2>7
<1>12. N \in A
  <2>1. \A n \in 1..N : n - 1 \in A => n \in A
    BY <1>11
  <2>2. N \in 0..N
    BY <1>1
  <2> HIDE DEF A, N
  <2> QED
    BY <1>1, <1>10, <2>1, <2>2, UpToN
<1>13. N <= cap => \A j \in 1..N : order[j] \in Listed(after[N].c)
  BY <1>12 DEF Filled
<1> QED
  BY <1>8, <1>12, <1>13 DEF Batches

-----------------------------------------------------------------------------
(* The caches and the requests of the k-anonymity manager. What the service   *)
(* has said so far is a parameter: it only grows.                            *)

GoodShard(i, c, sd) ==
    /\ c \in GoodCaches /\ c.num_entries <= Capacity[i]
    /\ \A h \in Listed(c) :
          /\ i \in ToSet(KShards) => TRUE \in sd[h]
          /\ i \notin ToSet(KShards) => FALSE \in sd[h]

Calls == [ok : BOOLEAN, kAnon : SUBSET Keys]

RequestStates ==
    [pc : KAnon!AtWork \cup {"idle", "done"}, shard : Nat, hashes : SUBSET Keys,
     kAnon : SUBSET Keys, nonKAnon : SUBSET Keys, calls : Seq(Calls)]

\* A caller is told of the hashes it has asked for.
GoodCall(call, q, sd) ==
    /\ call \in Calls
    /\ call.kAnon \subseteq q.hashes
    /\ \A h \in q.hashes :
          /\ h \in call.kAnon => TRUE \in sd[h]
          /\ h \notin call.kAnon /\ call.ok => FALSE \in sd[h]

Inserting == {"insertK", "insertNon"}

\* The callback is called once at most, and with an answer before it is cached.
Called(q, sd) ==
    \/ q.calls = <<>> /\ q.pc \notin Inserting
    \/ /\ q.pc \in Inserting \cup {"done"}
       /\ \E call \in Calls : /\ q.calls = <<call>> /\ GoodCall(call, q, sd)
                              /\ q.pc \in Inserting => call.ok

GoodRequest(q, sd) ==
    /\ q \in RequestStates
    /\ q.kAnon \cup q.nonKAnon \subseteq q.hashes /\ q.hashes \in HashSets \cup {{}}
    /\ q.pc = "idle" => q.hashes = {}
    /\ q.pc \in {"queryK", "insertK"} => q.shard \in 1..Len(KShards)
    /\ q.pc \in {"queryNon", "insertNon"} => q.shard \in 1..Len(NonShards)
    /\ q.pc \notin {"queryK", "queryNon", "insertK", "insertNon"} => q.shard = 1
    /\ \A h \in q.kAnon : TRUE \in sd[h]
    /\ \A h \in q.nonKAnon : FALSE \in sd[h]
    /\ Called(q, sd)

KInv ==
    /\ said \in [Keys -> SUBSET BOOLEAN] /\ enabled \in BOOLEAN /\ alive \in BOOLEAN
    /\ caches \in [CacheIds -> GoodCaches]
    /\ \A i \in CacheIds : GoodShard(i, caches[i], said)
    /\ req \in [Requests -> RequestStates]
    /\ \A r \in Requests : GoodRequest(req[r], said)

LEMMA Shards ==
    /\ Len(KShards) \in Nat \ {0} /\ Len(NonShards) \in Nat \ {0}
    /\ \A s \in 1..Len(KShards) : KShards[s] \in CacheIds /\ KShards[s] \in ToSet(KShards)
    /\ \A s \in 1..Len(NonShards) : NonShards[s] \in CacheIds /\ NonShards[s] \notin ToSet(KShards)
<1> DEFINE all == KShards \o NonShards
<1>1. /\ KShards \in Seq(CacheIds) /\ KShards # <<>>
      /\ NonShards \in Seq(CacheIds) /\ NonShards # <<>>
      /\ IsInjective(all)
  BY CachesAssumption, SameSequences DEF KAnon!KAnonAssumption
<1>2. Len(KShards) \in Nat \ {0} /\ Len(NonShards) \in Nat \ {0}
  BY <1>1
<1>3. \A s \in 1..Len(KShards) : KShards[s] \in CacheIds /\ KShards[s] \in ToSet(KShards)
  BY <1>1 DEF ToSet
<1>4. ASSUME NEW s \in 1..Len(NonShards), NonShards[s] \in ToSet(KShards) PROVE FALSE
  <2>1. PICK t \in 1..Len(KShards) : KShards[t] = NonShards[s]
    BY <1>1, <1>4 DEF ToSet
  <2>2. DOMAIN all = 1..Len(KShards) + Len(NonShards)
    BY <1>1
  <2>3. t \in DOMAIN all /\ all[t] = KShards[t]
    BY <1>1, <1>2, <2>2
  <2>4. Len(KShards) + s \in DOMAIN all /\ all[Len(KShards) + s] = NonShards[s]
    BY <1>1, <1>2, <2>2
  <2>5. t = Len(KShards) + s
    BY <1>1, <2>1, <2>3, <2>4 DEF IsInjective
  <2> QED
    BY <1>2, <2>5
<1> QED
  BY <1>1, <1>2, <1>3, <1>4

\* What has been said stays said.
LEMMA SaidOfRequests ==
    ASSUME NEW sd, NEW sd2, \A h \in Keys : sd[h] \subseteq sd2[h],
           NEW q, GoodRequest(q, sd)
    PROVE  GoodRequest(q, sd2)
<1>1. q.hashes \subseteq Keys /\ q.kAnon \subseteq Keys /\ q.nonKAnon \subseteq Keys
  BY DEF GoodRequest, RequestStates
<1>2. Called(q, sd2)
  <2>1. ASSUME NEW call, GoodCall(call, q, sd) PROVE GoodCall(call, q, sd2)
    BY <1>1, <2>1 DEF GoodCall
  <2> QED
    BY <2>1 DEF GoodRequest, Called
<1> QED
  BY <1>1, <1>2 DEF GoodRequest

LEMMA SaidOfShards ==
    ASSUME NEW sd, NEW sd2, \A h \in Keys : sd[h] \subseteq sd2[h],
           NEW i, NEW c, GoodShard(i, c, sd)
    PROVE  GoodShard(i, c, sd2)
<1>1. Listed(c) \subseteq Keys
  BY GoodCache DEF GoodShard
<1> QED
  BY <1>1 DEF GoodShard

\* The keys of a batch.
LEMMA Orders ==
    ASSUME NEW hs \in SUBSET Keys, IsFiniteSet(hs), NEW shards, NEW s,
           NEW order \in KAnon!SetToSeqs(KAnon!OfShard(hs, shards, s))
    PROVE  order \in Seq(Keys) /\ ToSet(order) \subseteq hs
<1> DEFINE part_ == KAnon!OfShard(hs, shards, s)
<1>1. part_ \subseteq hs
  BY DEF KAnon!OfShard
<1>2. Cardinality(part_) \in Nat
  BY <1>1, FiniteSubset
<1>3. \A S : KAnon!Cardinality(S) = Cardinality(S)
  BY DEF KAnon!Cardinality, Cardinality
<1>4. order \in [1..Cardinality(part_) -> part_]
  BY <1>3 DEF KAnon!SetToSeqs
<1> HIDE DEF part_
<1>5. order \in Seq(part_) /\ DOMAIN order = 1..Cardinality(part_)
  BY <1>2, <1>4
<1>6. ToSet(order) \subseteq part_
  BY <1>4 DEF ToSet
<1> QED
  BY <1>1, <1>5, <1>6, SeqMonotonic

LEMMA AskedAreFinite ==
    ASSUME NEW sd, NEW q, GoodRequest(q, sd), NEW hs \in SUBSET q.hashes
    PROVE  IsFiniteSet(hs) /\ hs \in SUBSET Keys
<1>1. IsFiniteSet(q.hashes) /\ q.hashes \subseteq Keys
  <2>1. \A S : KAnon!IsFiniteSet(S) = IsFiniteSet(S)
    BY DEF KAnon!IsFiniteSet, IsFiniteSet
  <2> QED
    BY <2>1, CachesAssumption, FS_EmptySet DEF GoodRequest, RequestStates, KAnon!KAnonAssumption
<1> QED
  BY <1>1, FS_Subset

\* A step of one cache, or of one request.
LEMMA ShardChanges ==
    ASSUME KInv, NEW i \in CacheIds, NEW c, GoodShard(i, c, said),
           caches' = [caches EXCEPT ![i] = c], UNCHANGED said
    PROVE  /\ caches' \in [CacheIds -> GoodCaches]
           /\ \A j \in CacheIds : GoodShard(j, caches'[j], said')
<1>1. c \in GoodCaches
  BY DEF GoodShard
<1>2. caches' \in [CacheIds -> GoodCaches]
  BY <1>1 DEF KInv
<1>3. ASSUME NEW j \in CacheIds PROVE GoodShard(j, caches'[j], said')
  BY DEF KInv
<1> QED
  BY <1>2, <1>3

LEMMA RequestChanges ==
    ASSUME KInv, NEW r \in Requests, NEW q, GoodRequest(q, said),
           req' = [req EXCEPT ![r] = q], UNCHANGED said
    PROVE  /\ req' \in [Requests -> RequestStates]
           /\ \A u \in Requests : GoodRequest(req'[u], said')
<1>1. q \in RequestStates
  BY DEF GoodRequest
<1>2. req' \in [Requests -> RequestStates]
  BY <1>1 DEF KInv
<1>3. ASSUME NEW u \in Requests PROVE GoodRequest(req'[u], said')
  BY DEF KInv
<1> QED
  BY <1>2, <1>3

LEMMA NextShardIs ==
    ASSUME NEW q \in RequestStates, NEW shards, NEW pc2 \in KAnon!AtWork \cup {"idle", "done"},
           q.shard \in 1..Len(shards), Len(shards) \in Nat,
           NEW d, d = KAnon!NextShard(q, shards, pc2)
    PROVE  /\ d \in RequestStates
           /\ d.hashes = q.hashes /\ d.kAnon = q.kAnon /\ d.nonKAnon = q.nonKAnon
           /\ d.calls = q.calls
           /\ \/ d.pc = q.pc /\ d.shard \in 1..Len(shards)
              \/ d.pc = pc2 /\ d.shard = 1
<1>1. CASE q.shard < Len(shards)
  <2>1. d = [q EXCEPT !.shard = q.shard + 1]
    BY <1>1 DEF KAnon!NextShard, RequestStates
  <2>2. q.shard + 1 \in 1..Len(shards) /\ q.shard + 1 \in Nat
    BY <1>1
  <2> QED
    BY <2>1, <2>2 DEF RequestStates
<1>2. CASE ~ (q.shard < Len(shards))
  <2> DEFINE g == [q EXCEPT !.shard = 1, !.pc = pc2]
  <2>1. d = g
    BY <1>2 DEF KAnon!NextShard
  <2>2. /\ g.pc = pc2 /\ g.shard = 1 /\ g.hashes = q.hashes /\ g.kAnon = q.kAnon
        /\ g.nonKAnon = q.nonKAnon /\ g.calls = q.calls /\ g \in RequestStates
    BY DEF RequestStates
  <2> HIDE DEF g
  <2> QED
    BY <2>1, <2>2
<1> QED
  BY <1>1, <1>2

-----------------------------------------------------------------------------
(* The actions of the manager.                                               *)

LEMMA Asks ==
    ASSUME KInv, NEW r \in Requests, NEW hs \in HashSets, KAnon!Ask(r, hs)
    PROVE  KInv'
<1> DEFINE q == req[r]
           d == [q EXCEPT !.hashes = hs, !.pc = IF enabled THEN "queryK" ELSE "resolve"]
<1>1. /\ GoodRequest(q, said) /\ q \in RequestStates /\ q.pc = "idle"
      /\ req' = [req EXCEPT ![r] = d]
      /\ UNCHANGED <<caches, enabled, said, alive>>
  BY DEF KInv, KAnon!Ask
<1>2. hs \in SUBSET Keys
  BY CachesAssumption DEF KAnon!KAnonAssumption
<1>3. q.hashes = {} /\ q.kAnon = {} /\ q.nonKAnon = {} /\ q.calls = <<>> /\ q.shard = 1
  BY <1>1 DEF GoodRequest, Called, Inserting
<1> HIDE DEF q
<1>4. /\ d \in RequestStates /\ d.hashes = hs /\ d.kAnon = {} /\ d.nonKAnon = {}
      /\ d.calls = <<>> /\ d.shard = 1 /\ d.pc \in {"queryK", "resolve"}
  BY <1>1, <1>2, <1>3 DEF RequestStates, KAnon!AtWork
<1> HIDE DEF d
<1>5. GoodRequest(d, said)
  BY <1>4, Shards DEF GoodRequest, Called, Inserting
<1>6. req' \in [Requests -> RequestStates] /\ \A u \in Requests : GoodRequest(req'[u], said')
  BY <1>1, <1>5, RequestChanges
<1> QED
  BY <1>1, <1>6 DEF KInv

\* The cache that a step of a request is about.
LEMMA ShardOf ==
    ASSUME KInv, NEW shards, NEW s \in 1..Len(shards),
           shards = KShards \/ shards = NonShards
    PROVE  /\ shards[s] \in CacheIds /\ (shards[s] \in ToSet(KShards) <=> shards = KShards)
           /\ caches[shards[s]] \in GoodCaches /\ GoodShard(shards[s], caches[shards[s]], said)
           /\ Capacity[shards[s]] \in Nat \ {0} /\ Len(shards) \in Nat \ {0}
<1>1. KShards[s] \notin ToSet(KShards) \/ shards # NonShards \/ KShards # NonShards
  BY Shards
<1>2. shards[s] \in CacheIds /\ (shards[s] \in ToSet(KShards) <=> shards = KShards)
  BY Shards
<1>3. Capacity \in [CacheIds -> Nat \ {0}]
  BY CachesAssumption DEF KAnon!CacheAssumption
<1> QED
  BY <1>2, <1>3, Shards DEF KInv

LEMMA Found ==
    ASSUME NEW c \in GoodCaches, NEW hs
    PROVE  KAnon!FoundIn(c, hs) = hs \cap Listed(c)
BY GoodCache DEF KAnon!FoundIn

\* A query does to the shard what changes nothing of what it holds.
LEMMA ShardQueried ==
    ASSUME KInv, UNCHANGED said, NEW r \in Requests,
           NEW shards, shards = KShards \/ shards = NonShards,
           NEW s \in 1..Len(shards), NEW i, i = shards[s],
           NEW hs, hs = KAnon!OfShard(req[r].hashes, shards, s),
           NEW order \in KAnon!SetToSeqs(hs),
           caches' = [caches EXCEPT ![i] = KAnon!Queried(caches[i], order)]
    PROVE  /\ caches' \in [CacheIds -> GoodCaches]
           /\ \A j \in CacheIds : GoodShard(j, caches'[j], said')
<1> DEFINE c == caches[i]
<1>1. i \in CacheIds /\ c \in GoodCaches /\ GoodShard(i, c, said)
  BY ShardOf
<1>2. order \in Seq(Keys)
  <2>1. req[r].hashes \in SUBSET Keys /\ IsFiniteSet(req[r].hashes)
    BY AskedAreFinite DEF KInv
  <2> QED
    BY <2>1, Orders
<1>3. /\ KAnon!Queried(c, order) \in GoodCaches
      /\ Listed(KAnon!Queried(c, order)) = Listed(c)
      /\ KAnon!Queried(c, order).num_entries = c.num_entries
  BY <1>1, <1>2, IsQueried
<1>4. GoodShard(i, KAnon!Queried(c, order), said)
  BY <1>1, <1>3 DEF GoodShard
<1> QED
  BY <1>1, <1>4, ShardChanges

\* What it finds there has been said of the hashes.
LEMMA ShardTells ==
    ASSUME KInv, NEW r \in Requests,
           NEW shards, shards = KShards \/ shards = NonShards,
           NEW s \in 1..Len(shards), NEW i, i = shards[s],
           NEW hs, hs = KAnon!OfShard(req[r].hashes, shards, s)
    PROVE  /\ KAnon!FoundIn(caches[i], hs) \subseteq req[r].hashes
           /\ shards = KShards => \A h \in KAnon!FoundIn(caches[i], hs) : TRUE \in said[h]
           /\ shards = NonShards => \A h \in KAnon!FoundIn(caches[i], hs) : FALSE \in said[h]
<1> DEFINE c == caches[i]
<1>1. /\ i \in CacheIds /\ c \in GoodCaches /\ GoodShard(i, c, said)
      /\ shards = KShards => i \in ToSet(KShards)
      /\ shards = NonShards => i \notin ToSet(KShards)
  BY ShardOf, Shards
<1>2. hs \subseteq req[r].hashes
  BY DEF KAnon!OfShard
<1> HIDE DEF c
<1>3. KAnon!FoundIn(c, hs) = hs \cap Listed(c)
  BY <1>1, Found
<1>4. ASSUME NEW h \in Listed(c)
      PROVE  /\ shards = KShards => TRUE \in said[h]
             /\ shards = NonShards => FALSE \in said[h]
  BY <1>1 DEF GoodShard
<1> QED
  BY <1>2, <1>3, <1>4 DEF c

LEMMA QueriesKAnon ==
    ASSUME KInv, NEW r \in Requests, KAnon!QueryKAnon(r)
    PROVE  KInv'
<1> DEFINE q == req[r]
           i == KShards[q.shard]
           hs == KAnon!OfShard(q.hashes, KShards, q.shard)
           found == KAnon!FoundIn(caches[i], hs)
           e == [q EXCEPT !["kAnon"] = @ \cup found]
           d == KAnon!NextShard(e, KShards, "queryNon")
<1>1. /\ GoodRequest(q, said) /\ q \in RequestStates /\ q.pc = "queryK"
      /\ q.shard \in 1..Len(KShards)
  BY DEF KInv, KAnon!QueryKAnon, GoodRequest
<1>2. /\ req' = [req EXCEPT ![r] = d]
      /\ UNCHANGED <<enabled, said, alive>>
      /\ \E order \in KAnon!SetToSeqs(hs) :
            caches' = [caches EXCEPT ![i] = KAnon!Queried(caches[i], order)]
  <2>1. UNCHANGED <<enabled, said, alive>>
    BY DEF KAnon!QueryKAnon, KAnon!Query
  <2>2. req' = [req EXCEPT ![r] = d]
    BY Zenon DEF KAnon!QueryKAnon, KAnon!Query
  <2>3. \E order \in KAnon!SetToSeqs(hs) :
            caches' = [caches EXCEPT ![i] = KAnon!Queried(caches[i], order)]
    BY Zenon DEF KAnon!QueryKAnon, KAnon!Query
  <2> QED
    BY <2>1, <2>2, <2>3
<1>3. /\ caches' \in [CacheIds -> GoodCaches]
      /\ \A j \in CacheIds : GoodShard(j, caches'[j], said')
  <2>1. PICK order \in KAnon!SetToSeqs(hs) :
            caches' = [caches EXCEPT ![i] = KAnon!Queried(caches[i], order)]
    BY <1>2
  <2>2. i = KShards[q.shard] /\ hs = KAnon!OfShard(req[r].hashes, KShards, q.shard) /\ UNCHANGED said
    BY <1>2
  <2> HIDE DEF i, hs, q
  <2> QED
    BY <1>1, <2>1, <2>2, ShardQueried
<1>4. found \subseteq q.hashes /\ \A h \in found : TRUE \in said[h]
  BY <1>1, ShardTells
<1> HIDE DEF q, i, hs, found
<1>5. /\ e \in RequestStates /\ e.kAnon = q.kAnon \cup found /\ e.hashes = q.hashes
      /\ e.nonKAnon = q.nonKAnon /\ e.calls = q.calls /\ e.pc = q.pc /\ e.shard = q.shard
  BY <1>1, <1>4 DEF RequestStates
<1> HIDE DEF e
<1>6. /\ d \in RequestStates
      /\ d.hashes = e.hashes /\ d.kAnon = e.kAnon /\ d.nonKAnon = e.nonKAnon
      /\ d.calls = e.calls
      /\ \/ d.pc = e.pc /\ d.shard \in 1..Len(KShards)
         \/ d.pc = "queryNon" /\ d.shard = 1
  <2>1. e \in RequestStates /\ e.shard \in 1..Len(KShards) /\ Len(KShards) \in Nat
    BY <1>1, <1>5, Shards
  <2>2. "queryNon" \in KAnon!AtWork \cup {"idle", "done"} /\ d = KAnon!NextShard(e, KShards, "queryNon")
    BY DEF KAnon!AtWork
  <2> HIDE DEF d
  <2> QED
    BY <2>1, <2>2, NextShardIs
<1> HIDE DEF d
<1>7. q.calls = <<>>
  BY <1>1 DEF GoodRequest, Called, Inserting
<1>8. GoodRequest(d, said)
  <2>1. d.pc \in {"queryK", "queryNon"} /\ d.calls = <<>>
    BY <1>1, <1>5, <1>6, <1>7
  <2>2. /\ d.kAnon \cup d.nonKAnon \subseteq d.hashes /\ d.hashes \in HashSets \cup {{}}
        /\ \A h \in d.kAnon : TRUE \in said[h]
        /\ \A h \in d.nonKAnon : FALSE \in said[h]
    BY <1>1, <1>4, <1>5, <1>6 DEF GoodRequest
  <2>3. /\ d.pc = "queryK" => d.shard \in 1..Len(KShards)
        /\ d.pc = "queryNon" => d.shard = 1 /\ d.shard \in 1..Len(NonShards)
    BY <1>1, <1>5, <1>6, Shards
  <2>4. Called(d, said)
    BY <2>1 DEF Called, Inserting
  <2> QED
    BY <1>6, <2>1, <2>2, <2>3, <2>4 DEF GoodRequest
<1>9. req' \in [Requests -> RequestStates] /\ \A u \in Requests : GoodRequest(req'[u], said')
  BY <1>2, <1>8, RequestChanges
<1> QED
  BY <1>2, <1>3, <1>9 DEF KInv

LEMMA QueriesNonKAnon ==
    ASSUME KInv, NEW r \in Requests, KAnon!QueryNonKAnon(r)
    PROVE  KInv'
<1> DEFINE q == req[r]
           i == NonShards[q.shard]
           hs == KAnon!OfShard(q.hashes, NonShards, q.shard)
           found == KAnon!FoundIn(caches[i], hs)
           e == [q EXCEPT !["nonKAnon"] = @ \cup found]
           d == KAnon!NextShard(e, NonShards, "resolve")
<1>1. /\ GoodRequest(q, said) /\ q \in RequestStates /\ q.pc = "queryNon"
      /\ q.shard \in 1..Len(NonShards)
  BY DEF KInv, KAnon!QueryNonKAnon, GoodRequest
<1>2. /\ req' = [req EXCEPT ![r] = d]
      /\ UNCHANGED <<enabled, said, alive>>
      /\ \E order \in KAnon!SetToSeqs(hs) :
            caches' = [caches EXCEPT ![i] = KAnon!Queried(caches[i], order)]
  <2>1. UNCHANGED <<enabled, said, alive>>
    BY DEF KAnon!QueryNonKAnon, KAnon!Query
  <2>2. req' = [req EXCEPT ![r] = d]
    BY Zenon DEF KAnon!QueryNonKAnon, KAnon!Query
  <2>3. \E order \in KAnon!SetToSeqs(hs) :
            caches' = [caches EXCEPT ![i] = KAnon!Queried(caches[i], order)]
    BY Zenon DEF KAnon!QueryNonKAnon, KAnon!Query
  <2> QED
    BY <2>1, <2>2, <2>3
<1>3. /\ caches' \in [CacheIds -> GoodCaches]
      /\ \A j \in CacheIds : GoodShard(j, caches'[j], said')
  <2>1. PICK order \in KAnon!SetToSeqs(hs) :
            caches' = [caches EXCEPT ![i] = KAnon!Queried(caches[i], order)]
    BY <1>2
  <2>2. i = NonShards[q.shard] /\ hs = KAnon!OfShard(req[r].hashes, NonShards, q.shard) /\ UNCHANGED said
    BY <1>2
  <2> HIDE DEF i, hs, q
  <2> QED
    BY <1>1, <2>1, <2>2, ShardQueried
<1>4. found \subseteq q.hashes /\ \A h \in found : FALSE \in said[h]
  BY <1>1, ShardTells
<1> HIDE DEF q, i, hs, found
<1>5. /\ e \in RequestStates /\ e.nonKAnon = q.nonKAnon \cup found /\ e.hashes = q.hashes
      /\ e.kAnon = q.kAnon /\ e.calls = q.calls /\ e.pc = q.pc /\ e.shard = q.shard
  BY <1>1, <1>4 DEF RequestStates
<1> HIDE DEF e
<1>6. /\ d \in RequestStates
      /\ d.hashes = e.hashes /\ d.kAnon = e.kAnon /\ d.nonKAnon = e.nonKAnon
      /\ d.calls = e.calls
      /\ \/ d.pc = e.pc /\ d.shard \in 1..Len(NonShards)
         \/ d.pc = "resolve" /\ d.shard = 1
  <2>1. e \in RequestStates /\ e.shard \in 1..Len(NonShards) /\ Len(NonShards) \in Nat
    BY <1>1, <1>5, Shards
  <2>2. "resolve" \in KAnon!AtWork \cup {"idle", "done"} /\ d = KAnon!NextShard(e, NonShards, "resolve")
    BY DEF KAnon!AtWork
  <2> HIDE DEF d
  <2> QED
    BY <2>1, <2>2, NextShardIs
<1> HIDE DEF d
<1>7. q.calls = <<>>
  BY <1>1 DEF GoodRequest, Called, Inserting
<1>8. GoodRequest(d, said)
  <2>1. d.pc \in {"queryNon", "resolve"} /\ d.calls = <<>>
    BY <1>1, <1>5, <1>6, <1>7
  <2>2. /\ d.kAnon \cup d.nonKAnon \subseteq d.hashes /\ d.hashes \in HashSets \cup {{}}
        /\ \A h \in d.kAnon : TRUE \in said[h]
        /\ \A h \in d.nonKAnon : FALSE \in said[h]
    BY <1>1, <1>4, <1>5, <1>6 DEF GoodRequest
  <2>3. /\ d.pc = "queryNon" => d.shard \in 1..Len(NonShards)
        /\ d.pc = "resolve" => d.shard = 1
    BY <1>1, <1>5, <1>6, Shards
  <2>4. Called(d, said)
    BY <2>1 DEF Called, Inserting
  <2> QED
    BY <1>6, <2>1, <2>2, <2>3, <2>4 DEF GoodRequest
<1>9. req' \in [Requests -> RequestStates] /\ \A u \in Requests : GoodRequest(req'[u], said')
  BY <1>2, <1>8, RequestChanges
<1> QED
  BY <1>2, <1>3, <1>9 DEF KInv

\* A request whose callback has been called with what has been said.
LEMMA IsCalled ==
    ASSUME NEW sd, NEW q, GoodRequest(q, sd), q.calls = <<>>, q.shard = 1,
           NEW call \in Calls, GoodCall(call, q, sd),
           NEW p \in {"insertK", "done"}, p = "insertK" => call.ok,
           NEW e, e = [[q EXCEPT !.calls = Append(q.calls, call)] EXCEPT !.pc = p]
    PROVE  GoodRequest(e, sd)
<1> DEFINE s == Append(q.calls, call)
<1>1. s = <<call>> /\ s \in Seq(Calls)
  OBVIOUS
<1>2. q \in RequestStates /\ p \in KAnon!AtWork \cup {"idle", "done"}
  BY DEF GoodRequest, KAnon!AtWork
<1>3. e = [[q EXCEPT !.calls = s] EXCEPT !.pc = p]
  OBVIOUS
<1> HIDE DEF s
<1>4. /\ e \in RequestStates /\ e.calls = s /\ e.pc = p
      /\ e.shard = q.shard /\ e.hashes = q.hashes
      /\ e.kAnon = q.kAnon /\ e.nonKAnon = q.nonKAnon
  BY <1>1, <1>2, <1>3 DEF RequestStates
<1>5. GoodCall(call, e, sd)
  BY <1>4 DEF GoodCall
<1>6. Called(e, sd)
  BY <1>1, <1>4, <1>5 DEF Called, Inserting
<1>7. e.shard = 1 /\ 1 \in 1..Len(KShards)
  BY <1>4, Shards
<1> QED
  BY <1>4, <1>6, <1>7 DEF GoodRequest

LEMMA Resolves ==
    ASSUME KInv, NEW r \in Requests, KAnon!Resolve(r)
    PROVE  KInv'
<1> DEFINE q == req[r]
<1>1. GoodRequest(q, said) /\ q \in RequestStates /\ q.pc = "resolve"
  BY DEF KInv, KAnon!Resolve
<1>2. q.calls = <<>> /\ q.shard = 1
  BY <1>1 DEF GoodRequest, Called, Inserting
<1>3. UNCHANGED <<caches, enabled, said, alive>>
  BY DEF KAnon!Resolve
<1>4. PICK e : GoodRequest(e, said) /\ req' = [req EXCEPT ![r] = e]
  <2>1. CASE enabled /\ KAnon!Unresolved(r) = {}
    <3> DEFINE e == [KAnon!Callback(q, TRUE, q.kAnon) EXCEPT !.pc = "done"]
    <3>1. req' = [req EXCEPT ![r] = e]
      BY <2>1 DEF KAnon!Resolve
    <3>2. \A h \in q.hashes : h \in q.kAnon \/ h \in q.nonKAnon
      BY <2>1 DEF KAnon!Unresolved
    <3>3. q.kAnon \in SUBSET Keys
      BY <1>1 DEF RequestStates
    <3> HIDE DEF q
    <3> DEFINE call == [ok |-> TRUE, kAnon |-> q.kAnon]
    <3>4. call \in Calls /\ GoodCall(call, q, said)
      BY <1>1, <3>2, <3>3 DEF GoodCall, Calls, GoodRequest
    <3>5. GoodRequest(e, said)
      <4>1. e = [[q EXCEPT !.calls = Append(q.calls, call)] EXCEPT !.pc = "done"]
        BY DEF KAnon!Callback
      <4> HIDE DEF e, call
      <4> QED
        BY <1>1, <1>2, <3>4, <4>1, IsCalled
    <3> QED
      BY <3>1, <3>5
  <2>2. CASE ~ (enabled /\ KAnon!Unresolved(r) = {})
    <3>1. PICK p \in {"waiting", "done"} : req' = [req EXCEPT ![r].pc = p, ![r].shard = 1]
      BY <2>2 DEF KAnon!Resolve, KAnon!Goto
    <3> DEFINE e == [q EXCEPT !.pc = p, !.shard = 1]
    <3>2. req' = [req EXCEPT ![r] = e]
      BY <3>1
    <3>3. /\ e \in RequestStates /\ e.calls = <<>> /\ e.pc = p
          /\ e.shard = 1 /\ e.hashes = q.hashes
          /\ e.kAnon = q.kAnon /\ e.nonKAnon = q.nonKAnon
      BY <1>1, <1>2 DEF RequestStates, KAnon!AtWork
    <3> HIDE DEF e, q
    <3>4. GoodRequest(e, said)
      BY <1>1, <3>3 DEF GoodRequest, Called, Inserting
    <3> QED
      BY <3>2, <3>4
  <2> QED
    BY <2>1, <2>2
<1>5. req' \in [Requests -> RequestStates] /\ \A u \in Requests : GoodRequest(req'[u], said')
  BY <1>3, <1>4, RequestChanges
<1> QED
  BY <1>3, <1>5 DEF KInv

LEMMA FailsToAnswer ==
    ASSUME KInv, NEW r \in Requests, KAnon!AnswerFails(r)
    PROVE  KInv'
<1> DEFINE q == req[r]
           e == [KAnon!Callback(q, FALSE, q.kAnon) EXCEPT !.pc = "done"]
<1>1. GoodRequest(q, said) /\ q \in RequestStates /\ q.pc = "waiting"
  BY DEF KInv, KAnon!AnswerFails
<1>2. q.calls = <<>> /\ q.shard = 1
  BY <1>1 DEF GoodRequest, Called, Inserting
<1>3. UNCHANGED <<caches, enabled, said, alive>> /\ req' = [req EXCEPT ![r] = e]
  BY DEF KAnon!AnswerFails
<1>4. q.kAnon \in SUBSET Keys
  BY <1>1 DEF RequestStates
<1> HIDE DEF q
<1> DEFINE call == [ok |-> FALSE, kAnon |-> q.kAnon]
<1>5. call \in Calls /\ GoodCall(call, q, said)
  BY <1>1, <1>4 DEF GoodCall, Calls, GoodRequest
<1>6. GoodRequest(e, said)
  <2>1. e = [[q EXCEPT !.calls = Append(q.calls, call)] EXCEPT !.pc = "done"]
    BY DEF KAnon!Callback
  <2> HIDE DEF e, call
  <2> QED
    BY <1>1, <1>2, <1>5, <2>1, IsCalled
<1>7. req' \in [Requests -> RequestStates] /\ \A u \in Requests : GoodRequest(req'[u], said')
  BY <1>3, <1>6, RequestChanges
<1> QED
  BY <1>3, <1>7 DEF KInv

LEMMA Answers ==
    ASSUME KInv, NEW r \in Requests, NEW yes \in SUBSET Keys, NEW sets \in BOOLEAN,
           KAnon!Answer(r, yes, sets)
    PROVE  KInv'
<1> DEFINE q == req[r]
           ks == yes \cup q.kAnon
           p == IF enabled /\ sets THEN "insertK" ELSE "done"
           e == [KAnon!Callback(q, TRUE, ks) EXCEPT !.pc = p]
<1>1. GoodRequest(q, said) /\ q \in RequestStates /\ q.pc = "waiting"
  BY DEF KInv, KAnon!Answer
<1>2. q.calls = <<>> /\ q.shard = 1
  BY <1>1 DEF GoodRequest, Called, Inserting
<1>3. UNCHANGED <<caches, enabled, alive>> /\ req' = [req EXCEPT ![r] = e]
  BY DEF KAnon!Answer
<1>4. /\ yes \subseteq KAnon!Unresolved(r)
      /\ said' = [h \in Keys |-> said[h] \cup
            (IF h \in yes THEN {TRUE} ELSE IF h \in KAnon!Unresolved(r) THEN {FALSE} ELSE {})]
  BY DEF KAnon!Answer
<1>5. KAnon!Unresolved(r) = q.hashes \ (q.kAnon \cup q.nonKAnon)
  BY DEF KAnon!Unresolved
<1>6. /\ q.hashes \subseteq Keys /\ q.kAnon \subseteq q.hashes /\ ks \in SUBSET Keys
      /\ ks \subseteq q.hashes
  BY <1>1, <1>4, <1>5 DEF GoodRequest, RequestStates
<1>7. said' \in [Keys -> SUBSET BOOLEAN] /\ \A h \in Keys : said[h] \subseteq said'[h]
  <2>1. said \in [Keys -> SUBSET BOOLEAN]
    BY DEF KInv
  <2> QED
    BY <1>4, <2>1
<1>8. p \in {"insertK", "done"}
  OBVIOUS
<1> HIDE DEF q
<1> DEFINE call == [ok |-> TRUE, kAnon |-> ks]
<1>9. call \in Calls /\ GoodCall(call, q, said') /\ call.ok
  <2>1. \A h \in q.hashes : h \in ks => TRUE \in said'[h]
    BY <1>1, <1>4, <1>6, <1>7 DEF GoodRequest
  <2>2. \A h \in q.hashes : h \notin ks => FALSE \in said'[h]
    BY <1>1, <1>4, <1>5, <1>6, <1>7 DEF GoodRequest
  <2> HIDE DEF ks
  <2> QED
    BY <1>6, <2>1, <2>2 DEF GoodCall, Calls
<1>10. GoodRequest(q, said')
  BY <1>1, <1>7, SaidOfRequests
<1>11. GoodRequest(e, said')
  <2>1. e = [[q EXCEPT !.calls = Append(q.calls, call)] EXCEPT !.pc = p]
    BY DEF KAnon!Callback
  <2> HIDE DEF e, call, ks, p
  <2> QED
    BY <1>2, <1>6, <1>8, <1>9, <1>10, <2>1, IsCalled
<1> HIDE DEF e, ks, p
<1>12. ASSUME NEW u \in Requests PROVE GoodRequest(req'[u], said')
  <2>1. GoodRequest(req[u], said')
    BY <1>7, SaidOfRequests DEF KInv
  <2>2. req'[u] = IF u = r THEN e ELSE req[u]
    BY <1>3 DEF KInv
  <2> QED
    BY <1>11, <2>1, <2>2
<1>13. req' \in [Requests -> RequestStates]
  BY <1>3, <1>11 DEF KInv, GoodRequest
<1>14. ASSUME NEW i \in CacheIds PROVE GoodShard(i, caches'[i], said')
  BY <1>3, <1>7, SaidOfShards DEF KInv
<1> QED
  BY <1>3, <1>7, <1>12, <1>13, <1>14 DEF KInv

LEMMA KindsOfShards == KShards # NonShards
BY Shards

\* A batch that is inserted into a shard has been said of its hashes.
LEMMA ShardFilled ==
    ASSUME KInv, UNCHANGED said, NEW r \in Requests,
           NEW shards, shards = KShards \/ shards = NonShards,
           NEW s \in 1..Len(shards), NEW i, i = shards[s],
           NEW hs \in SUBSET req[r].hashes,
           shards = KShards => \A h \in hs : TRUE \in said[h],
           shards = NonShards => \A h \in hs : FALSE \in said[h],
           NEW order \in KAnon!SetToSeqs(KAnon!OfShard(hs, shards, s)),
           caches' = [caches EXCEPT ![i] = KAnon!Inserted(caches[i], order, Capacity[i])]
    PROVE  /\ caches' \in [CacheIds -> GoodCaches]
           /\ \A j \in CacheIds : GoodShard(j, caches'[j], said')
<1> DEFINE c == caches[i]
           d == KAnon!Inserted(c, order, Capacity[i])
<1>1. /\ i \in CacheIds /\ c \in GoodCaches /\ GoodShard(i, c, said)
      /\ i \in ToSet(KShards) <=> shards = KShards
      /\ Capacity[i] \in Nat \ {0} /\ c.num_entries <= Capacity[i]
  BY ShardOf DEF GoodShard
<1>2. order \in Seq(Keys) /\ ToSet(order) \subseteq hs
  <2>1. hs \in SUBSET Keys /\ IsFiniteSet(hs)
    BY AskedAreFinite DEF KInv
  <2> QED
    BY <2>1, Orders
<1> HIDE DEF c
<1>3. /\ d \in GoodCaches /\ Listed(d) \subseteq Listed(c) \cup ToSet(order)
      /\ d.num_entries <= Capacity[i]
  BY <1>1, <1>2, IsInserted
<1> HIDE DEF d
<1>4. ASSUME NEW h \in Listed(d)
      PROVE  /\ i \in ToSet(KShards) => TRUE \in said[h]
             /\ i \notin ToSet(KShards) => FALSE \in said[h]
  <2>1. CASE h \in Listed(c)
    BY <1>1, <2>1 DEF GoodShard
  <2>2. CASE h \in hs
    BY <1>1, <2>2
  <2> QED
    BY <1>2, <1>3, <2>1, <2>2
<1>5. GoodShard(i, d, said)
  BY <1>3, <1>4 DEF GoodShard
<1> QED
  BY <1>1, <1>5, ShardChanges DEF d, c

LEMMA InsertsKAnon ==
    ASSUME KInv, NEW r \in Requests, KAnon!InsertKAnon(r)
    PROVE  KInv'
<1> DEFINE q == req[r]
           i == KShards[q.shard]
           hs == KAnon!ResolvedKAnon(r)
           d == KAnon!NextShard(q, KShards, "insertNon")
<1>1. /\ GoodRequest(q, said) /\ q \in RequestStates /\ q.pc = "insertK"
      /\ q.shard \in 1..Len(KShards)
  BY DEF KInv, KAnon!InsertKAnon, GoodRequest
<1>2. PICK call \in Calls : q.calls = <<call>> /\ GoodCall(call, q, said) /\ call.ok
  BY <1>1 DEF GoodRequest, Called, Inserting
<1>3. /\ req' = [req EXCEPT ![r] = d]
      /\ UNCHANGED <<enabled, said, alive>>
      /\ \E order \in KAnon!SetToSeqs(KAnon!OfShard(hs, KShards, q.shard)) :
            caches' = [caches EXCEPT ![i] = KAnon!Inserted(caches[i], order, Capacity[i])]
  BY Zenon DEF KAnon!InsertKAnon, KAnon!Insert
<1>4. hs \subseteq q.hashes /\ \A h \in hs : TRUE \in said[h]
  <2>1. KAnon!Last(q.calls) = call
    <3>1. KAnon!Last(q.calls) = Last(q.calls)
      BY SameSequences
    <3>2. Last(<<call>>) = call
      BY DEF Last
    <3> QED
      BY <1>2, <3>1, <3>2
  <2> QED
    BY <1>2, <2>1 DEF KAnon!Unresolved, KAnon!ResolvedKAnon, KAnon!ResolvedNonKAnon, GoodCall
<1>5. /\ caches' \in [CacheIds -> GoodCaches]
      /\ \A j \in CacheIds : GoodShard(j, caches'[j], said')
  <2>1. PICK order \in KAnon!SetToSeqs(KAnon!OfShard(hs, KShards, q.shard)) :
            caches' = [caches EXCEPT ![i] = KAnon!Inserted(caches[i], order, Capacity[i])]
    BY <1>3
  <2>2. i = KShards[q.shard] /\ hs \in SUBSET req[r].hashes /\ UNCHANGED said
    BY <1>3, <1>4
  <2>3. /\ KShards = KShards => \A h \in hs : TRUE \in said[h]
        /\ KShards = NonShards => \A h \in hs : FALSE \in said[h]
    BY <1>4, KindsOfShards
  <2> HIDE DEF i, hs, q
  <2> QED
    BY <1>1, <2>1, <2>2, <2>3, ShardFilled
<1> HIDE DEF q, i, hs
<1>6. /\ d \in RequestStates
      /\ d.hashes = q.hashes /\ d.kAnon = q.kAnon /\ d.nonKAnon = q.nonKAnon
      /\ d.calls = q.calls
      /\ \/ d.pc = q.pc /\ d.shard \in 1..Len(KShards)
         \/ d.pc = "insertNon" /\ d.shard = 1
  <2>1. Len(KShards) \in Nat
    BY Shards
  <2>2. "insertNon" \in KAnon!AtWork \cup {"idle", "done"} /\ d = KAnon!NextShard(q, KShards, "insertNon")
    BY DEF KAnon!AtWork
  <2> HIDE DEF d
  <2> QED
    BY <1>1, <2>1, <2>2, NextShardIs
<1> HIDE DEF d
<1>7. GoodCall(call, d, said)
  BY <1>2, <1>6 DEF GoodCall
<1>8. GoodRequest(d, said)
  <2>1. d.pc \in {"insertK", "insertNon"} /\ d.calls = <<call>>
    BY <1>1, <1>2, <1>6
  <2>2. /\ d.kAnon \cup d.nonKAnon \subseteq d.hashes /\ d.hashes \in HashSets \cup {{}}
        /\ \A h \in d.kAnon : TRUE \in said[h]
        /\ \A h \in d.nonKAnon : FALSE \in said[h]
    BY <1>1, <1>6 DEF GoodRequest
  <2>3. /\ d.pc = "insertK" => d.shard \in 1..Len(KShards)
        /\ d.pc = "insertNon" => d.shard = 1 /\ d.shard \in 1..Len(NonShards)
    BY <1>1, <1>6, Shards
  <2>4. Called(d, said)
    BY <1>2, <1>7, <2>1 DEF Called, Inserting
  <2> QED
    BY <1>6, <2>1, <2>2, <2>3, <2>4 DEF GoodRequest
<1>9. req' \in [Requests -> RequestStates] /\ \A u \in Requests : GoodRequest(req'[u], said')
  BY <1>3, <1>8, RequestChanges
<1> QED
  BY <1>3, <1>5, <1>9 DEF KInv

LEMMA InsertsNonKAnon ==
    ASSUME KInv, NEW r \in Requests, KAnon!InsertNonKAnon(r)
    PROVE  KInv'
<1> DEFINE q == req[r]
           i == NonShards[q.shard]
           hs == KAnon!ResolvedNonKAnon(r)
           d == KAnon!NextShard(q, NonShards, "done")
<1>1. /\ GoodRequest(q, said) /\ q \in RequestStates /\ q.pc = "insertNon"
      /\ q.shard \in 1..Len(NonShards)
  BY DEF KInv, KAnon!InsertNonKAnon, GoodRequest
<1>2. PICK call \in Calls : q.calls = <<call>> /\ GoodCall(call, q, said) /\ call.ok
  BY <1>1 DEF GoodRequest, Called, Inserting
<1>3. /\ req' = [req EXCEPT ![r] = d]
      /\ UNCHANGED <<enabled, said, alive>>
      /\ \E order \in KAnon!SetToSeqs(KAnon!OfShard(hs, NonShards, q.shard)) :
            caches' = [caches EXCEPT ![i] = KAnon!Inserted(caches[i], order, Capacity[i])]
  BY Zenon DEF KAnon!InsertNonKAnon, KAnon!Insert
<1>4. hs \subseteq q.hashes /\ \A h \in hs : FALSE \in said[h]
  <2>1. KAnon!Last(q.calls) = call
    <3>1. KAnon!Last(q.calls) = Last(q.calls)
      BY SameSequences
    <3>2. Last(<<call>>) = call
      BY DEF Last
    <3> QED
      BY <1>2, <3>1, <3>2
  <2> QED
    BY <1>2, <2>1 DEF KAnon!Unresolved, KAnon!ResolvedKAnon, KAnon!ResolvedNonKAnon, GoodCall
<1>5. /\ caches' \in [CacheIds -> GoodCaches]
      /\ \A j \in CacheIds : GoodShard(j, caches'[j], said')
  <2>1. PICK order \in KAnon!SetToSeqs(KAnon!OfShard(hs, NonShards, q.shard)) :
            caches' = [caches EXCEPT ![i] = KAnon!Inserted(caches[i], order, Capacity[i])]
    BY <1>3
  <2>2. i = NonShards[q.shard] /\ hs \in SUBSET req[r].hashes /\ UNCHANGED said
    BY <1>3, <1>4
  <2>3. /\ NonShards = KShards => \A h \in hs : TRUE \in said[h]
        /\ NonShards = NonShards => \A h \in hs : FALSE \in said[h]
    BY <1>4, KindsOfShards
  <2> HIDE DEF i, hs, q
  <2> QED
    BY <1>1, <2>1, <2>2, <2>3, ShardFilled
<1> HIDE DEF q, i, hs
<1>6. /\ d \in RequestStates
      /\ d.hashes = q.hashes /\ d.kAnon = q.kAnon /\ d.nonKAnon = q.nonKAnon
      /\ d.calls = q.calls
      /\ \/ d.pc = q.pc /\ d.shard \in 1..Len(NonShards)
         \/ d.pc = "done" /\ d.shard = 1
  <2>1. Len(NonShards) \in Nat
    BY Shards
  <2>2. "done" \in KAnon!AtWork \cup {"idle", "done"} /\ d = KAnon!NextShard(q, NonShards, "done")
    BY DEF KAnon!AtWork
  <2> HIDE DEF d
  <2> QED
    BY <1>1, <2>1, <2>2, NextShardIs
<1> HIDE DEF d
<1>7. GoodCall(call, d, said)
  BY <1>2, <1>6 DEF GoodCall
<1>8. GoodRequest(d, said)
  <2>1. d.pc \in {"insertNon", "done"} /\ d.calls = <<call>>
    BY <1>1, <1>2, <1>6
  <2>2. /\ d.kAnon \cup d.nonKAnon \subseteq d.hashes /\ d.hashes \in HashSets \cup {{}}
        /\ \A h \in d.kAnon : TRUE \in said[h]
        /\ \A h \in d.nonKAnon : FALSE \in said[h]
    BY <1>1, <1>6 DEF GoodRequest
  <2>3. /\ d.pc = "insertNon" => d.shard \in 1..Len(NonShards)
        /\ d.pc = "done" => d.shard = 1
    BY <1>1, <1>6, Shards
  <2>4. Called(d, said)
    BY <1>2, <1>7, <2>1 DEF Called, Inserting
  <2> QED
    BY <1>6, <2>1, <2>2, <2>3, <2>4 DEF GoodRequest
<1>9. req' \in [Requests -> RequestStates] /\ \A u \in Requests : GoodRequest(req'[u], said')
  BY <1>3, <1>8, RequestChanges
<1> QED
  BY <1>3, <1>5, <1>9 DEF KInv

-----------------------------------------------------------------------------
(* Expiry and the end of the caches.                                         *)

LEMMA WithStale ==
    ASSUME NEW c \in GoodCaches, NEW st \in [Keys -> Nat], NEW d, d = [c EXCEPT !.stale = st]
    PROVE  /\ d \in GoodCaches /\ Listed(d) = Listed(c) /\ d.num_entries = c.num_entries
           /\ d.stale = st /\ d.dll = c.dll /\ d.armed = c.armed /\ d.fired = c.fired
<1>1. /\ d.dll = c.dll /\ d.num_entries = c.num_entries /\ d.armed = c.armed
      /\ d.fired = c.fired /\ d.stale = st /\ d \in KAnon!CacheStates
  BY GoodCache DEF KAnon!CacheStates
<1>2. Listed(d) = Listed(c)
  BY <1>1 DEF Listed
<1> QED
  BY <1>1, <1>2, GoodCache DEF GoodCaches

\* The least that a step of the background leaves true of a cache.
LEMMA Shrinks ==
    ASSUME KInv, NEW i \in CacheIds, NEW d \in GoodCaches, Listed(d) \subseteq Listed(caches[i]),
           d.num_entries <= caches[i].num_entries, caches' = [caches EXCEPT ![i] = d],
           UNCHANGED <<enabled, req, said, alive>>
    PROVE  KInv'
<1>1. GoodShard(i, caches[i], said) /\ caches[i] \in GoodCaches
  BY DEF KInv
<1>2. d.num_entries <= Capacity[i]
  <2>1. Capacity[i] \in Nat
    BY CachesAssumption DEF KAnon!CacheAssumption
  <2>2. d.num_entries \in Nat /\ caches[i].num_entries \in Nat
    BY <1>1, GoodCache
  <2> QED
    BY <1>1, <2>1, <2>2 DEF GoodShard
<1>3. GoodShard(i, d, said)
  BY <1>1, <1>2 DEF GoodShard
<1>4. /\ caches' \in [CacheIds -> GoodCaches]
      /\ \A j \in CacheIds : GoodShard(j, caches'[j], said')
  BY <1>3, ShardChanges
<1> QED
  BY <1>4 DEF KInv

LEMMA Fires ==
    ASSUME KInv, NEW i \in CacheIds, NEW k \in Keys, KAnon!TimerFires(i, k),
           UNCHANGED <<enabled, req, said, alive>>
    PROVE  KInv'
<1> DEFINE c == caches[i]
           d == [c EXCEPT !.armed = @ \ {k}, !.fired[k] = @ + 1]
<1>1. c \in GoodCaches /\ k \in c.armed /\ caches' = [caches EXCEPT ![i] = d]
  BY DEF KInv, KAnon!TimerFires
<1> HIDE DEF c
<1>2. /\ c \in KAnon!CacheStates /\ c.fired \in [Keys -> Nat] /\ c.num_entries \in Nat
  BY <1>1, GoodCache
<1>3. /\ d.dll = c.dll /\ d.num_entries = c.num_entries /\ d.armed = c.armed \ {k}
      /\ d.fired = [c.fired EXCEPT ![k] = @ + 1] /\ d \in KAnon!CacheStates
  <2> DEFINE f == [c.fired EXCEPT ![k] = @ + 1]
  <2>1. f \in [Keys -> Nat] /\ c.armed \ {k} \in SUBSET Keys
    BY <1>1, <1>2, GoodCache
  <2>2. d = [c EXCEPT !.armed = c.armed \ {k}, !.fired = f]
    BY <1>2 DEF KAnon!CacheStates
  <2> HIDE DEF f, d
  <2>3. /\ d.dll = c.dll /\ d.num_entries = c.num_entries /\ d.armed = c.armed \ {k}
        /\ d.fired = f /\ d \in KAnon!CacheStates
    BY <1>2, <2>1, <2>2 DEF KAnon!CacheStates
  <2> QED
    BY <2>3 DEF f
<1> HIDE DEF d
<1>4. Listed(d) = Listed(c)
  BY <1>3 DEF Listed
<1>5. {l \in Keys : d.fired[l] > 0} = {l \in Keys : c.fired[l] > 0} \cup {k}
  <2>1. c.fired[k] + 1 > 0
    BY <1>2
  <2> QED
    BY <1>2, <1>3, <2>1
<1>6. d \in GoodCaches
  BY <1>1, <1>3, <1>4, <1>5, GoodCache DEF GoodCaches
<1>7. d.num_entries <= c.num_entries
  BY <1>2, <1>3
<1> QED
  BY <1>1, <1>4, <1>6, <1>7, Shrinks DEF c

LEMMA Expires ==
    ASSUME KInv, NEW i \in CacheIds, NEW k \in Keys, KAnon!ExpireEntry(i, k),
           UNCHANGED <<enabled, req, said, alive>>
    PROVE  KInv'
<1> DEFINE c == caches[i]
           x == [c EXCEPT !.fired[k] = @ - 1]
           d == KAnon!RemoveNode(x, k)
           e == KAnon!RemoveNode(c, k)
           st == [c.stale EXCEPT ![k] = @ + (c.fired[k] - 1)]
<1>1. c \in GoodCaches /\ c.fired[k] > 0 /\ caches' = [caches EXCEPT ![i] = d]
  BY DEF KInv, KAnon!ExpireEntry
<1> HIDE DEF c
<1>2. /\ c \in KAnon!CacheStates /\ c.fired \in [Keys -> Nat] /\ c.stale \in [Keys -> Nat]
      /\ k \in Listed(c) /\ c.num_entries \in Nat
  BY <1>1, GoodCache
<1>3. e \in GoodCaches /\ Listed(e) = Listed(c) \ {k} /\ e.num_entries = c.num_entries - 1
  BY <1>1, <1>2, Removed
<1>4. st \in [Keys -> Nat]
  <2>1. c.stale[k] + (c.fired[k] - 1) \in Nat
    BY <1>1, <1>2
  <2> QED
    BY <1>2, <2>1
<1>5. d = [e EXCEPT !.stale = st]
  <2>1. /\ x.dll = c.dll /\ x.num_entries = c.num_entries /\ x.armed = c.armed
        /\ x.stale = c.stale /\ x.fired = [c.fired EXCEPT ![k] = @ - 1]
    BY <1>2 DEF KAnon!CacheStates
  <2> HIDE DEF x
  <2>2. [x.fired EXCEPT ![k] = 0] = [c.fired EXCEPT ![k] = 0] /\ x.fired[k] = c.fired[k] - 1
    BY <1>2, <2>1
  <2>3. [x.stale EXCEPT ![k] = @ + x.fired[k]] = st
    BY <2>1, <2>2
  <2> HIDE DEF st
  <2> DEFINE fd == [c.fired EXCEPT ![k] = 0]
             se == [c.stale EXCEPT ![k] = @ + c.fired[k]]
             dl == KAnon!RemoveFirst(c.dll, k)
             ar == c.armed \ {k}
             ne == c.num_entries - 1
  <2>4. d = [dll |-> dl, num_entries |-> ne, armed |-> ar, fired |-> fd, stale |-> st]
    BY <2>1, <2>2, <2>3 DEF KAnon!RemoveNode
  <2>5. e = [dll |-> dl, num_entries |-> ne, armed |-> ar, fired |-> fd, stale |-> se]
    BY DEF KAnon!RemoveNode
  <2> HIDE DEF d, e, dl, ne, ar, fd, se
  <2> QED
    BY <2>4, <2>5
<1> HIDE DEF d, e, st
<1>6. d \in GoodCaches /\ Listed(d) = Listed(e) /\ d.num_entries = e.num_entries
  BY <1>3, <1>4, <1>5, WithStale
<1>7. d.num_entries <= c.num_entries /\ Listed(d) \subseteq Listed(c)
  BY <1>2, <1>3, <1>6
<1> QED
  BY <1>1, <1>6, <1>7, Shrinks DEF c

LEMMA ExpiresStale ==
    ASSUME KInv, NEW i \in CacheIds, NEW k \in Keys, KAnon!ExpireStale(i, k),
           UNCHANGED <<enabled, req, said, alive>>
    PROVE  KInv'
<1> DEFINE c == caches[i]
           st == [c.stale EXCEPT ![k] = @ - 1]
           x == [c EXCEPT !.stale[k] = @ - 1]
<1>1. c \in GoodCaches /\ c.stale[k] > 0
  BY DEF KInv, KAnon!ExpireStale
<1>2. PICK found \in (SUBSET {k}) \cup {{l} : l \in Keys} :
          caches' = [caches EXCEPT ![i] = IF KAnon!FoundIn(x, found) = {} THEN x
                                          ELSE KAnon!RemoveNode(x, CHOOSE l \in found : TRUE)]
  BY DEF KAnon!ExpireStale
<1> HIDE DEF c
<1>3. c \in KAnon!CacheStates /\ c.stale \in [Keys -> Nat] /\ c.num_entries \in Nat
  BY <1>1, GoodCache
<1>4. st \in [Keys -> Nat] /\ x = [c EXCEPT !.stale = st]
  BY <1>1, <1>3 DEF KAnon!CacheStates
<1> HIDE DEF x, st
<1>5. x \in GoodCaches /\ Listed(x) = Listed(c) /\ x.num_entries = c.num_entries
  BY <1>1, <1>4, WithStale
<1>6. CASE KAnon!FoundIn(x, found) = {}
  <2>1. caches' = [caches EXCEPT ![i] = x] /\ x.num_entries <= c.num_entries
    BY <1>2, <1>3, <1>5, <1>6
  <2> QED
    BY <1>5, <2>1, Shrinks DEF c
<1>7. CASE KAnon!FoundIn(x, found) # {}
  <2>1. PICK l \in found : l \in Listed(x)
    <3>1. KAnon!FoundIn(x, found) = found \cap Listed(x)
      BY <1>5, Found
    <3> QED
      BY <1>7, <3>1
  <2>2. found = {l}
    <3>1. CASE found \in SUBSET {k}
      BY <2>1, <3>1
    <3>2. CASE found \in {{m} : m \in Keys}
      BY <2>1, <3>2
    <3> QED
      BY <1>2, <3>1, <3>2
  <2>3. (CHOOSE m \in found : TRUE) = l
    BY <2>2
  <2> DEFINE d == KAnon!RemoveNode(x, l)
  <2>4. caches' = [caches EXCEPT ![i] = d]
    BY <1>2, <1>7, <2>3
  <2>5. d \in GoodCaches /\ Listed(d) = Listed(x) \ {l} /\ d.num_entries = x.num_entries - 1
    BY <1>5, <2>1, Removed
  <2> HIDE DEF d
  <2>6. d.num_entries <= c.num_entries /\ Listed(d) \subseteq Listed(c)
    BY <1>3, <1>5, <2>5
  <2> QED
    BY <2>4, <2>5, <2>6, Shrinks DEF c
<1> QED
  BY <1>6, <1>7

LEMMA IsCacheState ==
    ASSUME NEW s \in Seq(Keys), NEW a \in SUBSET Keys, NEW n \in Int,
           NEW f \in [Keys -> Nat], NEW st \in [Keys -> Nat], NEW d,
           d = [dll |-> s, num_entries |-> n, armed |-> a, fired |-> f, stale |-> st]
    PROVE  d \in KAnon!CacheStates
BY DEF KAnon!CacheStates

LEMMA EmptyCache ==
    ASSUME NEW st \in [Keys -> Nat], NEW d, NEW i \in CacheIds, NEW sd,
           d = [KAnon!NewCache EXCEPT !.stale = st]
    PROVE  d \in GoodCaches /\ GoodShard(i, d, sd)
<1>1. /\ d.dll = <<>> /\ d.num_entries = 0 /\ d.armed = {} /\ d.stale = st
      /\ d.fired = [k \in Keys |-> 0] /\ d \in KAnon!CacheStates
  <2> DEFINE f == [k \in Keys |-> 0]
             s == <<>>
  <2>1. f \in [Keys -> Nat] /\ s \in Seq(Keys)
    OBVIOUS
  <2>2. KAnon!NewCache = [dll |-> s, num_entries |-> 0, armed |-> {}, fired |-> f, stale |-> f]
    BY DEF KAnon!NewCache
  <2> HIDE DEF f, s
  <2>3. d = [dll |-> s, num_entries |-> 0, armed |-> {}, fired |-> f, stale |-> st]
    BY <2>2
  <2>4. /\ d.dll = s /\ d.num_entries = 0 /\ d.armed = {} /\ d.stale = st
        /\ d.fired = f
    BY <2>3
  <2>5. d \in KAnon!CacheStates
    <3> DEFINE a == {}
    <3>1. a \in SUBSET Keys /\ 0 \in Int
      OBVIOUS
    <3>2. d = [dll |-> s, num_entries |-> 0, armed |-> a, fired |-> f, stale |-> st]
      BY <2>3
    <3> HIDE DEF a
    <3> QED
      BY <2>1, <3>1, <3>2, IsCacheState
  <2> QED
    BY <2>4, <2>5 DEF f, s
<1>2. Listed(d) = {} /\ IsInjective(d.dll) /\ Len(d.dll) = 0
  BY <1>1 DEF Listed, ToSet, IsInjective
<1>3. {k \in Keys : d.fired[k] > 0} = {}
  BY <1>1
<1>4. d \in GoodCaches
  BY <1>1, <1>2, <1>3 DEF GoodCaches
<1>5. d.num_entries <= Capacity[i]
  BY <1>1, CachesAssumption DEF KAnon!CacheAssumption
<1> QED
  BY <1>2, <1>4, <1>5 DEF GoodShard

LEMMA ShutsDown ==
    ASSUME KInv, KAnon!Shutdown
    PROVE  KInv'
<1>1. /\ caches' = [i \in CacheIds |-> KAnon!Destroyed(caches[i])] /\ alive' = FALSE
      /\ UNCHANGED <<enabled, req, said>>
  BY DEF KAnon!Shutdown
<1>2. ASSUME NEW i \in CacheIds PROVE caches'[i] \in GoodCaches /\ GoodShard(i, caches'[i], said)
  <2> DEFINE st == [k \in Keys |-> caches[i].stale[k] + caches[i].fired[k]]
             d == [KAnon!NewCache EXCEPT !.stale = st]
  <2>1. caches'[i] = d
    BY <1>1 DEF KAnon!Destroyed
  <2>2. caches[i].stale \in [Keys -> Nat] /\ caches[i].fired \in [Keys -> Nat]
    BY GoodCache DEF KInv
  <2>3. st \in [Keys -> Nat]
    BY <2>2
  <2> HIDE DEF st
  <2>4. d = [KAnon!NewCache EXCEPT !.stale = st]
    OBVIOUS
  <2> HIDE DEF d
  <2>5. d \in GoodCaches /\ GoodShard(i, d, said)
    BY <2>3, <2>4, EmptyCache
  <2> QED
    BY <2>1, <2>5
<1> QED
  BY <1>1, <1>2 DEF KInv

-----------------------------------------------------------------------------
LEMMA CachesInit == SharedStateInit => KInv
<1> SUFFICES ASSUME SharedStateInit PROVE KInv
  OBVIOUS
<1> DEFINE q0 == [pc |-> "idle", shard |-> 1, hashes |-> {}, kAnon |-> {}, nonKAnon |-> {},
                  calls |-> <<>>]
<1>1. /\ caches = [i \in CacheIds |-> KAnon!NewCache] /\ enabled \in BOOLEAN /\ alive = TRUE
      /\ said = [h \in Keys |-> {}] /\ req = [r \in Requests |-> q0]
  BY DEF SharedStateInit, KAnon!Init
<1>2. ASSUME NEW i \in CacheIds PROVE caches[i] \in GoodCaches /\ GoodShard(i, caches[i], said)
  <2> DEFINE st == [k \in Keys |-> 0]
             d == [KAnon!NewCache EXCEPT !.stale = st]
  <2>1. KAnon!NewCache = [dll |-> <<>>, num_entries |-> 0, armed |-> {}, fired |-> st, stale |-> st]
    BY DEF KAnon!NewCache
  <2>2. st \in [Keys -> Nat]
    OBVIOUS
  <2> HIDE DEF st
  <2>4. d = caches[i]
    <3> DEFINE e == <<>>
               u == [dll |-> e, num_entries |-> 0, armed |-> {}, fired |-> st, stale |-> st]
    <3> HIDE DEF e
    <3>1. [u EXCEPT !.stale = st] = u
      OBVIOUS
    <3>2. KAnon!NewCache = u
      BY <2>1 DEF e
    <3> HIDE DEF u
    <3>3. d = u
      BY <3>1, <3>2
    <3> QED
      BY <1>1, <3>2, <3>3
  <2>3. d = [KAnon!NewCache EXCEPT !.stale = st]
    OBVIOUS
  <2> HIDE DEF d
  <2> QED
    BY <2>2, <2>3, <2>4, EmptyCache
<1>3. said \in [Keys -> SUBSET BOOLEAN]
  BY <1>1
<1>4. q0 \in RequestStates /\ GoodRequest(q0, said)
  <2>1. q0 \in RequestStates
    BY DEF RequestStates, KAnon!AtWork
  <2>2. /\ q0.pc = "idle" /\ q0.shard = 1 /\ q0.hashes = {} /\ q0.kAnon = {}
        /\ q0.nonKAnon = {} /\ q0.calls = <<>>
    OBVIOUS
  <2> HIDE DEF q0
  <2> QED
    BY <2>1, <2>2 DEF GoodRequest, Called, Inserting
<1>5. req \in [Requests -> RequestStates] /\ \A r \in Requests : GoodRequest(req[r], said)
  <2> HIDE DEF q0
  <2> QED
    BY <1>1, <1>4
<1> QED
  BY <1>1, <1>2, <1>3, <1>5 DEF KInv

LEMMA ManagerSteps == KInv /\ KAnon!Next => KInv'
<1> SUFFICES ASSUME KInv, KAnon!Next PROVE KInv'
  OBVIOUS
<1>1. CASE \E r \in Requests, hs \in HashSets : KAnon!Ask(r, hs)
  BY <1>1, Asks
<1>2. ASSUME NEW r \in Requests, KAnon!Step(r) PROVE KInv'
  <2>1. CASE KAnon!QueryKAnon(r)
    BY <2>1, QueriesKAnon
  <2>2. CASE KAnon!QueryNonKAnon(r)
    BY <2>2, QueriesNonKAnon
  <2>3. CASE KAnon!Resolve(r)
    BY <2>3, Resolves
  <2>4. CASE KAnon!AnswerFails(r)
    BY <2>4, FailsToAnswer
  <2>5. CASE \E yes \in SUBSET Keys, sets \in BOOLEAN : KAnon!Answer(r, yes, sets)
    BY <2>5, Answers
  <2>6. CASE KAnon!InsertKAnon(r)
    BY <2>6, InsertsKAnon
  <2>7. CASE KAnon!InsertNonKAnon(r)
    BY <2>7, InsertsNonKAnon
  <2> QED
    BY <1>2, <2>1, <2>2, <2>3, <2>4, <2>5, <2>6, <2>7 DEF KAnon!Step
<1>3. CASE KAnon!Background
  <2>1. UNCHANGED <<enabled, req, said, alive>>
    BY <1>3 DEF KAnon!Background
  <2>2. PICK i \in CacheIds, k \in Keys : KAnon!Expiry(i, k)
    BY <1>3 DEF KAnon!Background
  <2>3. CASE KAnon!TimerFires(i, k)
    BY <2>1, <2>3, Fires
  <2>4. CASE KAnon!ExpireEntry(i, k)
    BY <2>1, <2>4, Expires
  <2>5. CASE KAnon!ExpireStale(i, k)
    BY <2>1, <2>5, ExpiresStale
  <2> QED
    BY <2>2, <2>3, <2>4, <2>5 DEF KAnon!Expiry
<1>4. CASE KAnon!Shutdown
  BY <1>4, ShutsDown
<1> QED
  BY <1>1, <1>2, <1>3, <1>4 DEF KAnon!Next

LEMMA CachesStep == KInv /\ [SharedStateNext]_allVars => KInv'
<1> SUFFICES ASSUME KInv, [SharedStateNext]_allVars PROVE KInv'
  OBVIOUS
<1>1. CASE UNCHANGED kAnonVars
  BY <1>1 DEF KInv, kAnonVars
<1>2. CASE KAnon!Next
  BY <1>2, ManagerSteps
<1> QED
  BY <1>1, <1>2 DEF SharedStateNext, allVars

\* The order of a batch has each of its keys.
LEMMA OrdersAll ==
    ASSUME NEW hs \in SUBSET Keys, IsFiniteSet(hs), NEW shards, NEW s,
           NEW order \in KAnon!SetToSeqs(KAnon!OfShard(hs, shards, s))
    PROVE  /\ Len(order) <= Cardinality(hs)
           /\ \A h \in KAnon!OfShard(hs, shards, s) : \E j \in 1..Len(order) : order[j] = h
<1> DEFINE part_ == KAnon!OfShard(hs, shards, s)
           n == Cardinality(part_)
<1>1. part_ \subseteq hs
  BY DEF KAnon!OfShard
<1>2. /\ IsFiniteSet(part_) /\ n \in Nat /\ n <= Cardinality(hs)
  <2> HIDE DEF part_
  <2> QED
    BY <1>1, FS_Subset, FS_CardinalityType
<1>3. \A S : KAnon!Cardinality(S) = Cardinality(S)
  BY DEF KAnon!Cardinality, Cardinality
<1>4. /\ order \in [1..n -> part_]
      /\ \A i, j \in 1..n : i # j => order[i] # order[j]
  BY <1>3 DEF KAnon!SetToSeqs
<1> HIDE DEF part_
<1>5. order \in Injection(1..n, part_)
  BY <1>4 DEF Injection, IsInjective
<1>6. Cardinality(1..n) = n
  BY <1>2, FS_Interval
<1>7. order \in Surjection(1..n, part_)
  BY <1>2, <1>5, <1>6, FS_Injection
<1>8. \A h \in part_ : \E j \in 1..n : order[j] = h
  BY <1>7 DEF Surjection
<1>9. Len(order) = n
  <2>1. order \in Seq(part_) /\ DOMAIN order = 1..n
    BY <1>2, <1>4
  <2> QED
    BY <1>2, <2>1
<1> HIDE DEF n
<1> QED
  BY <1>2, <1>8, <1>9 DEF part_

LEMMA BatchEnters ==
    ASSUME KInv, NEW r \in Requests, KAnon!InsertKAnon(r),
           KAnon!Cardinality(req[r].hashes) <= Capacity[KShards[req[r].shard]]
    PROVE  KAnon!OfShard(KAnon!ResolvedKAnon(r), KShards, req[r].shard)
             \subseteq KAnon!ToSet(caches'[KShards[req[r].shard]].dll)
<1> DEFINE q == req[r]
           i == KShards[q.shard]
           hs == KAnon!ResolvedKAnon(r)
           c == caches[i]
<1>1. /\ GoodRequest(q, said) /\ q \in RequestStates /\ q.pc = "insertK"
      /\ q.shard \in 1..Len(KShards)
  BY DEF KInv, KAnon!InsertKAnon, GoodRequest
<1>2. hs \subseteq q.hashes
  <2>1. PICK call \in Calls : q.calls = <<call>> /\ GoodCall(call, q, said)
    BY <1>1 DEF GoodRequest, Called, Inserting
  <2>2. KAnon!Last(q.calls) = Last(q.calls) /\ Last(<<call>>) = call
    BY SameSequences DEF Last
  <2> QED
    BY <2>1, <2>2 DEF KAnon!ResolvedKAnon, GoodCall
<1>3. PICK order \in KAnon!SetToSeqs(KAnon!OfShard(hs, KShards, q.shard)) :
          caches' = [caches EXCEPT ![i] = KAnon!Inserted(caches[i], order, Capacity[i])]
  BY Zenon DEF KAnon!InsertKAnon, KAnon!Insert
<1>4. /\ i \in CacheIds /\ c \in GoodCaches /\ c.num_entries <= Capacity[i]
      /\ Capacity[i] \in Nat \ {0}
  BY <1>1, ShardOf DEF GoodShard
<1>5. /\ IsFiniteSet(hs) /\ hs \in SUBSET Keys /\ IsFiniteSet(q.hashes)
  BY <1>1, <1>2, AskedAreFinite
<1>6. Cardinality(hs) <= Cardinality(q.hashes) /\ Cardinality(hs) \in Nat
      /\ Cardinality(q.hashes) \in Nat
  BY <1>2, <1>5, FS_Subset, FS_CardinalityType
<1>7. Cardinality(q.hashes) <= Capacity[i]
  BY DEF KAnon!Cardinality, Cardinality
<1> HIDE DEF q, i, hs, c
<1>8. /\ Len(order) <= Cardinality(hs) /\ order \in Seq(Keys)
      /\ \A h \in KAnon!OfShard(hs, KShards, q.shard) : \E j \in 1..Len(order) : order[j] = h
  BY <1>3, <1>5, Orders, OrdersAll
<1>9. Len(order) <= Capacity[i]
  BY <1>4, <1>6, <1>7, <1>8
<1>10. \A j \in 1..Len(order) : order[j] \in Listed(KAnon!Inserted(c, order, Capacity[i]))
  BY <1>4, <1>8, <1>9, IsInserted
<1>11. caches'[i] = KAnon!Inserted(c, order, Capacity[i])
  <2>1. caches \in [CacheIds -> GoodCaches]
    BY DEF KInv
  <2> QED
    BY <1>3, <1>4, <2>1 DEF c
<1>12. KAnon!ToSet(caches'[i].dll) = Listed(caches'[i])
  BY SameSequences DEF Listed
<1>13. KAnon!OfShard(hs, KShards, q.shard) \subseteq KAnon!ToSet(caches'[i].dll)
  BY <1>8, <1>10, <1>11, <1>12
<1> QED
  BY <1>13 DEF q, i, hs

\* Of the steps, only its own insertion takes a request on that inserts.
LEMMA InsertsByItself ==
    ASSUME KInv, NEW r \in Requests, KAnon!Next, req[r].pc = "insertK", req'[r] # req[r]
    PROVE  KAnon!InsertKAnon(r)
<1>1. req \in [Requests -> RequestStates]
  BY DEF KInv
<1>2. ASSUME NEW u \in Requests, NEW d, req' = [req EXCEPT ![u] = d]
      PROVE  u = r
  BY <1>1, <1>2
<1>3. ASSUME NEW u \in Requests, NEW hs \in HashSets, KAnon!Ask(u, hs)
      PROVE  FALSE
  <2>1. \E d : req' = [req EXCEPT ![u] = d]
    BY <1>1, <1>3, Zenon DEF KAnon!Ask
  <2>2. req[u].pc = "idle"
    BY <1>3 DEF KAnon!Ask
  <2> QED
    BY <1>2, <2>1, <2>2
<1>4. ASSUME NEW u \in Requests, KAnon!Step(u)
      PROVE  KAnon!InsertKAnon(r)
  <2>1. CASE KAnon!QueryKAnon(u)
    <3>1. req[u].pc = "queryK" /\ \E d : req' = [req EXCEPT ![u] = d]
      BY <2>1, Zenon DEF KAnon!QueryKAnon, KAnon!Query
    <3> QED
      BY <1>2, <3>1
  <2>2. CASE KAnon!QueryNonKAnon(u)
    <3>1. req[u].pc = "queryNon" /\ \E d : req' = [req EXCEPT ![u] = d]
      BY <2>2, Zenon DEF KAnon!QueryNonKAnon, KAnon!Query
    <3> QED
      BY <1>2, <3>1
  <2>3. CASE KAnon!Resolve(u)
    <3>1. req[u].pc = "resolve"
      BY <2>3 DEF KAnon!Resolve
    <3>2. u = r
      <4>1. CASE \E to : KAnon!Goto(u, to)
        <5>1. PICK to : req' = [req EXCEPT ![u].pc = to, ![u].shard = 1]
          BY <4>1 DEF KAnon!Goto
        <5> QED
          BY <1>1, <5>1
      <4>2. CASE ~ \E to : KAnon!Goto(u, to)
        <5>1. \E d : req' = [req EXCEPT ![u] = d]
          BY <2>3, <4>2, Zenon DEF KAnon!Resolve
        <5> QED
          BY <1>2, <5>1
      <4> QED
        BY <4>1, <4>2
    <3> QED
      BY <3>1, <3>2
  <2>4. CASE KAnon!AnswerFails(u)
    <3>1. req[u].pc = "waiting" /\ \E d : req' = [req EXCEPT ![u] = d]
      BY <2>4, Zenon DEF KAnon!AnswerFails
    <3> QED
      BY <1>2, <3>1
  <2>5. CASE \E yes \in SUBSET Keys, sets \in BOOLEAN : KAnon!Answer(u, yes, sets)
    <3>1. req[u].pc = "waiting" /\ \E d : req' = [req EXCEPT ![u] = d]
      BY <2>5, Zenon DEF KAnon!Answer
    <3> QED
      BY <1>2, <3>1
  <2>6. CASE KAnon!InsertKAnon(u)
    <3>1. \E d : req' = [req EXCEPT ![u] = d]
      BY <2>6, Zenon DEF KAnon!InsertKAnon, KAnon!Insert
    <3> QED
      BY <1>2, <2>6, <3>1
  <2>7. CASE KAnon!InsertNonKAnon(u)
    <3>1. req[u].pc = "insertNon" /\ \E d : req' = [req EXCEPT ![u] = d]
      BY <2>7, Zenon DEF KAnon!InsertNonKAnon, KAnon!Insert
    <3> QED
      BY <1>2, <3>1
  <2> QED
    BY <1>4, <2>1, <2>2, <2>3, <2>4, <2>5, <2>6, <2>7 DEF KAnon!Step
<1>5. CASE KAnon!Background
  BY <1>5 DEF KAnon!Background
<1>6. CASE KAnon!Shutdown
  BY <1>6 DEF KAnon!Shutdown
<1> QED
  BY <1>3, <1>4, <1>5, <1>6 DEF KAnon!Next
LEMMA BatchStep ==
    ASSUME KInv, [SharedStateNext]_allVars
    PROVE  [\A r \in Requests :
              /\ req[r].pc = "insertK" /\ req'[r] # req[r]
              /\ KAnon!Cardinality(req[r].hashes) <= Capacity[KShards[req[r].shard]]
              => KAnon!OfShard(KAnon!ResolvedKAnon(r), KShards, req[r].shard)
                   \subseteq KAnon!ToSet(caches'[KShards[req[r].shard]].dll)]_(KAnon!vars)
<1>1. CASE UNCHANGED kAnonVars
  BY <1>1 DEF kAnonVars
<1>2. CASE KAnon!Next
  BY <1>2, InsertsByItself, BatchEnters
<1> QED
  BY <1>1, <1>2 DEF SharedStateNext, allVars

LEMMA CachesHaveTheirType == KInv => KAnon!TypeOK
<1> SUFFICES ASSUME KInv PROVE KAnon!TypeOK
  OBVIOUS
<1>1. KAnon!CachesOK
  <2>1. caches \in [CacheIds -> KAnon!CacheStates]
    BY DEF KInv, GoodCaches
  <2>2. ASSUME NEW i \in CacheIds
        PROVE  /\ KAnon!IsInjective(caches[i].dll)
               /\ caches[i].num_entries = Len(caches[i].dll)
               /\ Len(caches[i].dll) <= Capacity[i]
               /\ KAnon!ToSet(caches[i].dll)
                    = caches[i].armed \cup {k \in Keys : caches[i].fired[k] > 0}
    <3> DEFINE c == caches[i]
    <3>1. c \in GoodCaches /\ c.num_entries <= Capacity[i]
      BY DEF KInv, GoodShard
    <3> HIDE DEF c
    <3>2. /\ IsInjective(c.dll) /\ c.num_entries = Len(c.dll)
          /\ ToSet(c.dll) = c.armed \cup {k \in Keys : c.fired[k] > 0}
      BY <3>1, GoodCache DEF Listed
    <3> QED
      BY <3>1, <3>2, SameSequences DEF c
  <2> QED
    BY <2>1, <2>2 DEF KAnon!CachesOK
<1>2. ASSUME NEW r \in Requests
      PROVE  /\ req[r].pc \in KAnon!AtWork \cup {"idle", "done"}
             /\ req[r].shard \in Nat /\ req[r].hashes \subseteq Keys
             /\ req[r].kAnon \cup req[r].nonKAnon \subseteq req[r].hashes
             /\ req[r].calls \in Seq([ok : BOOLEAN, kAnon : SUBSET Keys])
  BY DEF KInv, GoodRequest, RequestStates, Calls
<1> QED
  BY <1>1, <1>2 DEF KAnon!TypeOK, KInv

LEMMA CachesTellWhatWasSaid == KInv => AnswersComeFromTheService
<1> SUFFICES ASSUME KInv PROVE KAnon!AnswersComeFromTheService
  BY DEF AnswersComeFromTheService
<1>1. ASSUME NEW i \in CacheIds, NEW h \in KAnon!ToSet(caches[i].dll)
      PROVE  (i \in KAnon!ToSet(KShards)) \in said[h]
  <2>1. h \in Listed(caches[i]) /\ GoodShard(i, caches[i], said)
        /\ KAnon!ToSet(KShards) = ToSet(KShards)
    BY <1>1, SameSequences DEF KInv, Listed
  <2>2. CASE i \in ToSet(KShards)
    <3>1. (i \in KAnon!ToSet(KShards)) = TRUE /\ TRUE \in said[h]
      BY <2>1, <2>2 DEF GoodShard
    <3> QED
      BY <3>1, Zenon
  <2>3. CASE i \notin ToSet(KShards)
    <3>1. FALSE \in said[h]
      BY <2>1, <2>3 DEF GoodShard
    <3> DEFINE b == i \in KAnon!ToSet(KShards)
    <3>2. ~ b /\ b \in BOOLEAN
      BY <2>1, <2>3
    <3> HIDE DEF b
    <3>3. b = FALSE
      BY <3>2
    <3> QED
      BY <3>1, <3>3 DEF b
  <2> QED
    BY <2>2, <2>3
<1>2. ASSUME NEW r \in Requests, NEW call \in KAnon!ToSet(req[r].calls), NEW h \in req[r].hashes
      PROVE  IF h \in call.kAnon THEN TRUE \in said[h] ELSE call.ok => FALSE \in said[h]
  <2> DEFINE q == req[r]
  <2>1. Called(q, said) /\ call \in ToSet(q.calls)
    BY <1>2, SameSequences DEF KInv, GoodRequest
  <2>2. PICK done \in Calls : q.calls = <<done>> /\ GoodCall(done, q, said)
    BY <2>1 DEF Called, ToSet
  <2>3. call = done
    BY <2>1, <2>2 DEF ToSet
  <2> QED
    BY <2>2, <2>3 DEF GoodCall
<1> QED
  BY <1>1, <1>2 DEF KAnon!AnswersComeFromTheService

-----------------------------------------------------------------------------
(* How often a sequence has a value of a set, and sorted sequences.          *)

Counts(s, V) == Cardinality({i \in DOMAIN s : s[i] \in V})

LEMMA AreCounted ==
    ASSUME NEW T, NEW s \in Seq(T), NEW V
    PROVE  /\ IsFiniteSet({i \in DOMAIN s : s[i] \in V})
           /\ Counts(s, V) \in Nat
           /\ Counts(s, V) # 0 <=> \E i \in DOMAIN s : s[i] \in V
<1> DEFINE A == {i \in DOMAIN s : s[i] \in V}
<1>1. DOMAIN s = 1..Len(s) /\ Len(s) \in Nat
  OBVIOUS
<1>2. IsFiniteSet(1..Len(s))
  BY <1>1, FS_Interval
<1>3. A \in SUBSET (1..Len(s))
  BY <1>1
<1> HIDE DEF A
<1>4. IsFiniteSet(A)
  BY <1>2, <1>3, FS_Subset
<1>5. Cardinality(A) \in Nat /\ (Cardinality(A) = 0 <=> A = {})
  BY <1>4, FS_CardinalityType, FS_EmptySet
<1> QED
  BY <1>4, <1>5 DEF A, Counts

\* A sequence and the same without its element at j.
IsWithout(s, r, j) ==
    /\ Len(r) = Len(s) + 1 /\ j \in 1..Len(r)
    /\ \A i \in 1..Len(s) : s[i] = IF i < j THEN r[i] ELSE r[i + 1]

LEMMA CountsWithout ==
    ASSUME NEW T, NEW r \in Seq(T), NEW s \in Seq(T), NEW j, IsWithout(s, r, j), NEW V
    PROVE  Counts(r, V) = Counts(s, V) + IF r[j] \in V THEN 1 ELSE 0
<1> SUFFICES ASSUME Len(r) = Len(s) + 1, j \in 1..Len(r),
                    \A i \in 1..Len(s) : s[i] = IF i < j THEN r[i] ELSE r[i + 1]
             PROVE  Counts(r, V) = Counts(s, V) + IF r[j] \in V THEN 1 ELSE 0
  BY DEF IsWithout
<1> DEFINE A == {i \in DOMAIN s : s[i] \in V}
           B == {i \in DOMAIN r : r[i] \in V}
           C == B \ {j}
           f == [i \in A |-> IF i < j THEN i ELSE i + 1]
<1>1. /\ DOMAIN s = 1..Len(s) /\ Len(s) \in Nat /\ DOMAIN r = 1..Len(s) + 1
      /\ j \in 1..Len(s) + 1 /\ j \in Int
  OBVIOUS
<1>2. IsFiniteSet(A) /\ IsFiniteSet(B) /\ Counts(r, V) \in Nat /\ Counts(s, V) \in Nat
  BY AreCounted
<1>3. \A i \in A : i \in Int /\ i \in 1..Len(s) /\ s[i] \in V
  BY <1>1
<1>4. ASSUME NEW i \in A PROVE f[i] \in C
  <2>1. CASE i < j
    <3>1. f[i] = i /\ i \in 1..Len(s) + 1 /\ i # j /\ r[i] = s[i]
      BY <1>1, <1>3, <2>1
    <3> QED
      BY <1>1, <1>3, <3>1
  <2>2. CASE ~ (i < j)
    <3>1. f[i] = i + 1 /\ i + 1 \in 1..Len(s) + 1 /\ i + 1 # j /\ r[i + 1] = s[i]
      BY <1>1, <1>3, <2>2
    <3> QED
      BY <1>1, <1>3, <3>1
  <2> QED
    BY <2>1, <2>2
<1>5. \A i, k \in A : f[i] = f[k] => i = k
  BY <1>1, <1>3
<1>6. ASSUME NEW m \in C PROVE \E i \in A : f[i] = m
  <2>1. m \in 1..Len(s) + 1 /\ m # j /\ m \in Int /\ r[m] \in V
    BY <1>1
  <2>2. CASE m < j
    <3>1. m \in 1..Len(s) /\ s[m] = r[m]
      BY <1>1, <2>1, <2>2
    <3>2. m \in A
      BY <1>1, <2>1, <3>1
    <3> QED
      BY <2>2, <3>2
  <2>3. CASE ~ (m < j)
    <3>1. m - 1 \in 1..Len(s) /\ ~ (m - 1 < j) /\ (m - 1) + 1 = m
      BY <1>1, <2>1, <2>3
    <3>2. s[m - 1] = r[m]
      BY <1>1, <3>1
    <3>3. m - 1 \in A
      BY <1>1, <2>1, <3>1, <3>2
    <3> QED
      BY <3>1, <3>3
  <2> QED
    BY <2>2, <2>3
<1>7. f \in [A -> C]
  BY <1>4
<1> HIDE DEF A, C, f
<1>8. f \in Bijection(A, C)
  BY <1>5, <1>6, <1>7 DEF Bijection, Injection, Surjection, IsInjective
<1>9. Cardinality(C) = Cardinality(A)
  BY <1>2, <1>8, FS_Bijection DEF ExistsBijection
<1>10. Cardinality(B) = Cardinality(C) + IF j \in B THEN 1 ELSE 0
  <2>1. Cardinality(C) = IF j \in B THEN Cardinality(B) - 1 ELSE Cardinality(B)
    BY <1>2, FS_RemoveElement DEF C
  <2>2. Cardinality(B) \in Nat
    BY <1>2, FS_CardinalityType
  <2> QED
    BY <2>1, <2>2
<1>11. j \in B <=> r[j] \in V
  BY <1>1
<1> QED
  BY <1>9, <1>10, <1>11 DEF Counts, A

InOrder(s) == \A i, j \in DOMAIN s : i < j => s[i] <= s[j]

\* The indices up to a value are the first ones.
LEMMA FirstOnes ==
    ASSUME NEW L \in Nat, NEW D \in SUBSET (1..L),
           \A i, j \in 1..L : i < j /\ j \in D => i \in D
    PROVE  /\ Cardinality(D) \in 0..L /\ D = 1..Cardinality(D)
<1> DEFINE T == {j \in 1..L + 1 : j \notin D}
<1>1. L + 1 \in T /\ T \subseteq Nat
  OBVIOUS
<1>2. PICK m \in T : \A n \in T : m <= n
  <2> HIDE DEF T
  <2> QED
    BY <1>1, Least
<1>3. m \in 1..L + 1 /\ m \notin D
  OBVIOUS
<1>4. ASSUME NEW i \in 1..m - 1 PROVE i \in D
  <2>1. i \in 1..L + 1 /\ ~ (m <= i)
    BY <1>3
  <2> QED
    BY <1>2, <2>1
<1>5. ASSUME NEW j \in D PROVE j \in 1..m - 1
  <2>1. j \in 1..L
    OBVIOUS
  <2>2. ~ (m < j)
    BY <1>3, <2>1
  <2>3. m # j
    BY <1>3
  <2> QED
    BY <1>3, <2>1, <2>2, <2>3
<1>6. D = 1..m - 1
  BY <1>4, <1>5
<1>7. Cardinality(1..m - 1) = m - 1
  BY <1>3, FS_Interval
<1> QED
  BY <1>3, <1>6, <1>7

LEMMA InsertedInOrder ==
    ASSUME NEW T \in SUBSET Int, NEW s \in Seq(T), InOrder(s), NEW v \in T
    PROVE  /\ InsertSorted(s, v) \in Seq(T) /\ Len(InsertSorted(s, v)) = Len(s) + 1
           /\ InOrder(InsertSorted(s, v))
           /\ \A V : Counts(InsertSorted(s, v), V) = Counts(s, V) + IF v \in V THEN 1 ELSE 0
<1> DEFINE D == {i \in DOMAIN s : s[i] <= v}
           n == Cardinality(D)
           a == SubSeq(s, 1, n)
           b == SubSeq(s, n + 1, Len(s))
<1>1. DOMAIN s = 1..Len(s) /\ Len(s) \in Nat /\ \A i \in 1..Len(s) : s[i] \in T /\ s[i] \in Int
  <2>1. DOMAIN s = 1..Len(s) /\ Len(s) \in Nat /\ \A i \in 1..Len(s) : s[i] \in T
    OBVIOUS
  <2>2. \A x \in T : x \in Int
    OBVIOUS
  <2> HIDE DEF D, n, a, b
  <2> QED
    BY <2>1, <2>2
<1>2. n \in 0..Len(s) /\ \A i \in 1..Len(s) : s[i] <= v <=> i \in 1..n
  <2>1. D \in SUBSET (1..Len(s))
    BY <1>1
  <2>2. \A i, j \in 1..Len(s) : i < j /\ j \in D => i \in D
    <3> SUFFICES ASSUME NEW i \in 1..Len(s), NEW j \in 1..Len(s), i < j, j \in D PROVE i \in D
      OBVIOUS
    <3>1. s[i] <= s[j] /\ s[j] <= v
      BY <1>1 DEF InOrder
    <3> QED
      BY <1>1, <3>1
  <2>3. \A i \in 1..Len(s) : s[i] <= v <=> i \in D
    BY <1>1
  <2> HIDE DEF D
  <2>4. n \in 0..Len(s) /\ D = 1..n
    BY <1>1, <2>1, <2>2, FirstOnes
  <2> QED
    BY <2>3, <2>4
<1> HIDE DEF n
<1>3. a \in Seq(T) /\ Len(a) = n /\ \A i \in 1..n : a[i] = s[i]
  BY <1>1, <1>2
<1>4. b \in Seq(T) /\ Len(b) = Len(s) - n /\ \A i \in 1..Len(s) - n : b[i] = s[n + i]
  <2>1. /\ b \in Seq(T) /\ Len(b) = IF n + 1 <= Len(s) THEN Len(s) - (n + 1) + 1 ELSE 0
        /\ \A i \in 1..Len(s) - (n + 1) + 1 : b[i] = s[n + 1 + i - 1]
    <3>1. n + 1 \in Int /\ Len(s) \in Int /\ \A i \in n + 1..Len(s) : s[i] \in T
      BY <1>1, <1>2
    <3> DEFINE m == n + 1
               z == Len(s)
    <3>2. m \in Int /\ z \in Int /\ \A i \in m..z : s[i] \in T
      BY <3>1
    <3> HIDE DEF m, z
    <3>3. /\ SubSeq(s, m, z) \in Seq(T)
          /\ Len(SubSeq(s, m, z)) = IF m <= z THEN z - m + 1 ELSE 0
          /\ \A i \in 1..z - m + 1 : SubSeq(s, m, z)[i] = s[m + i - 1]
      BY <3>2, SubSeqProperties
    <3> QED
      BY <3>3 DEF m, z
  <2>2. Len(s) - (n + 1) + 1 = Len(s) - n /\ (~ (n + 1 <= Len(s)) => 0 = Len(s) - n)
    <3>1. n \in 0..Len(s) /\ Len(s) \in Nat
      BY <1>1, <1>2
    <3> HIDE DEF b
    <3> QED
      BY <3>1
  <2>3. ASSUME NEW i \in 1..Len(s) - n PROVE b[i] = s[n + i]
    <3>1. b[i] = s[n + 1 + i - 1]
      BY <2>1, <2>2
    <3>2. n + 1 + i - 1 = n + i
      BY <1>2
    <3> QED
      BY <3>1, <3>2
  <2> QED
    BY <2>1, <2>2, <2>3
<1> HIDE DEF a, b
<1> DEFINE c == a \o <<v>>
<1>5. c \in Seq(T) /\ Len(c) = n + 1 /\ \A i \in 1..n + 1 : c[i] = IF i <= n THEN s[i] ELSE v
  BY <1>2, <1>3
<1> HIDE DEF c
<1> DEFINE t == c \o b
<1>6. /\ t \in Seq(T) /\ Len(t) = Len(s) + 1 /\ DOMAIN t = 1..Len(s) + 1
      /\ \A i \in 1..Len(s) + 1 :
            t[i] = IF i <= n THEN s[i] ELSE IF i = n + 1 THEN v ELSE s[i - 1]
  <2>1. /\ t \in Seq(T) /\ Len(t) = Len(c) + Len(b)
        /\ \A i \in 1..Len(c) + Len(b) :
              t[i] = IF i <= Len(c) THEN c[i] ELSE b[i - Len(c)]
    BY <1>4, <1>5, ConcatProperties
  <2> HIDE DEF t
  <2>2. Len(c) + Len(b) = Len(s) + 1 /\ Len(c) = n + 1
    BY <1>1, <1>2, <1>4, <1>5
  <2>3. DOMAIN t = 1..Len(t)
    BY <2>1
  <2>4. ASSUME NEW i \in 1..Len(s) + 1
        PROVE  t[i] = IF i <= n THEN s[i] ELSE IF i = n + 1 THEN v ELSE s[i - 1]
    <3>1. t[i] = IF i <= n + 1 THEN c[i] ELSE b[i - (n + 1)]
      BY <2>1, <2>2
    <3>2. CASE i <= n + 1
      BY <1>2, <1>5, <3>1, <3>2
    <3>3. CASE ~ (i <= n + 1)
      <4>1. i - (n + 1) \in 1..Len(s) - n /\ n + (i - (n + 1)) = i - 1
        BY <1>1, <1>2, <3>3
      <4> QED
        BY <1>2, <1>4, <3>1, <3>3, <4>1
    <3> QED
      BY <3>2, <3>3
  <2> QED
    BY <2>1, <2>2, <2>3, <2>4
<1> HIDE DEF t
<1>7. InsertSorted(s, v) = t
  BY DEF InsertSorted, t, c, a, b, n
<1>8. InOrder(t)
  <2> SUFFICES ASSUME NEW i \in 1..Len(s) + 1, NEW j \in 1..Len(s) + 1, i < j
               PROVE  t[i] <= t[j]
    BY <1>6 DEF InOrder
  <2>1. CASE i <= n
    <3>1. t[i] = s[i] /\ i \in 1..n /\ i \in 1..Len(s) /\ s[i] <= v
      BY <1>1, <1>2, <1>6, <2>1
    <3>2. CASE j <= n
      <4>1. t[j] = s[j] /\ j \in 1..Len(s) /\ i \in 1..Len(s)
        BY <1>1, <1>2, <1>6, <3>1, <3>2
      <4>2. s[i] <= s[j]
        BY <1>1, <4>1 DEF InOrder
      <4> QED
        BY <3>1, <4>1, <4>2
    <3>3. CASE j = n + 1
      BY <1>2, <1>6, <3>1, <3>3
    <3>4. CASE j > n + 1
      <4>1. t[j] = s[j - 1] /\ j - 1 \in 1..Len(s) /\ i < j - 1
        BY <1>1, <1>2, <1>6, <2>1, <3>4
      <4> QED
        BY <1>1, <3>1, <4>1 DEF InOrder
    <3> QED
      BY <1>2, <3>2, <3>3, <3>4
  <2>2. CASE i > n
    <3>1. t[j] = s[j - 1] /\ j - 1 \in 1..Len(s) /\ ~ (j - 1 \in 1..n)
      BY <1>1, <1>2, <1>6, <2>2
    <3>2. v <= s[j - 1]
      BY <1>1, <1>2, <3>1
    <3>3. CASE i = n + 1
      BY <1>2, <1>6, <3>1, <3>2, <3>3
    <3>4. CASE i > n + 1
      <4>1. t[i] = s[i - 1] /\ i - 1 \in 1..Len(s) /\ i - 1 < j - 1
        BY <1>1, <1>2, <1>6, <3>4
      <4> QED
        BY <1>1, <3>1, <4>1 DEF InOrder
    <3> QED
      BY <1>2, <2>2, <3>3, <3>4
  <2> QED
    BY <1>2, <2>1, <2>2
<1>9. ASSUME NEW V PROVE Counts(t, V) = Counts(s, V) + IF v \in V THEN 1 ELSE 0
  <2>1. n + 1 \in 1..Len(t) /\ t[n + 1] = v
    BY <1>1, <1>2, <1>6
  <2>2. \A i \in 1..Len(s) : s[i] = IF i < n + 1 THEN t[i] ELSE t[i + 1]
    <3> SUFFICES ASSUME NEW i \in 1..Len(s)
                 PROVE  s[i] = IF i < n + 1 THEN t[i] ELSE t[i + 1]
      OBVIOUS
    <3>1. CASE i < n + 1
      BY <1>1, <1>2, <1>6, <3>1
    <3>2. CASE ~ (i < n + 1)
      <4>1. i + 1 \in 1..Len(s) + 1 /\ ~ (i + 1 <= n) /\ i + 1 # n + 1 /\ (i + 1) - 1 = i
        BY <1>1, <1>2, <3>2
      <4> QED
        BY <1>6, <3>2, <4>1
    <3> QED
      BY <3>1, <3>2
  <2> QED
    <3> DEFINE m == n + 1
    <3>1. /\ m \in 1..Len(t) /\ t[m] = v
          /\ \A i \in 1..Len(s) : s[i] = IF i < m THEN t[i] ELSE t[i + 1]
      BY <2>1, <2>2, Zenon
    <3> HIDE DEF m
    <3>2. t \in Seq(T) /\ Len(t) = Len(s) + 1
      BY <1>6
    <3>4. IsWithout(s, t, m)
      BY <3>1, <3>2, Zenon DEF IsWithout
    <3>3. Counts(t, V) = Counts(s, V) + IF t[m] \in V THEN 1 ELSE 0
      BY <3>2, <3>4, CountsWithout
    <3> QED
      BY <3>1, <3>3
<1> QED
  BY <1>6, <1>7, <1>8, <1>9

LEMMA RemovedInOrder ==
    ASSUME NEW T \in SUBSET Int, NEW s \in Seq(T), InOrder(s), NEW e \in ToSet(s)
    PROVE  /\ RemoveFirst(s, e) \in Seq(T) /\ Len(RemoveFirst(s, e)) = Len(s) - 1
           /\ InOrder(RemoveFirst(s, e))
           /\ \A V : Counts(s, V) = Counts(RemoveFirst(s, e), V) + IF e \in V THEN 1 ELSE 0
<1>1. PICK j \in 1..Len(s) : s[j] = e /\ RemoveFirst(s, e) = RemoveAt(s, j)
  BY RemovedFirst
<1> DEFINE r == RemoveAt(s, j)
<1>2. /\ r \in Seq(T) /\ Len(r) = Len(s) - 1 /\ DOMAIN r = 1..Len(s) - 1
      /\ \A i \in 1..Len(s) - 1 : r[i] = IF i < j THEN s[i] ELSE s[i + 1]
  BY RemovedAt
<1> HIDE DEF r
<1>3. Len(s) \in Nat /\ DOMAIN s = 1..Len(s)
  OBVIOUS
<1>4. InOrder(r)
  <2> SUFFICES ASSUME NEW i \in 1..Len(s) - 1, NEW k \in 1..Len(s) - 1, i < k
               PROVE  r[i] <= r[k]
    BY <1>2 DEF InOrder
  <2>1. PICK m \in 1..Len(s) : r[i] = s[m] /\ m = IF i < j THEN i ELSE i + 1
    BY <1>2, <1>3
  <2>2. PICK n \in 1..Len(s) : r[k] = s[n] /\ n = IF k < j THEN k ELSE k + 1
    BY <1>2, <1>3
  <2>3. m < n
    BY <1>3, <2>1, <2>2
  <2>4. s[m] <= s[n]
    BY <1>3, <2>3 DEF InOrder
  <2> QED
    BY <2>1, <2>2, <2>4
<1>5. ASSUME NEW V PROVE Counts(s, V) = Counts(r, V) + IF e \in V THEN 1 ELSE 0
  <2>1. Len(s) = Len(r) + 1 /\ \A i \in 1..Len(r) : r[i] = IF i < j THEN s[i] ELSE s[i + 1]
    BY <1>2, <1>3
  <2> QED
    <3>1. IsWithout(r, s, j)
      BY <2>1, Zenon DEF IsWithout
    <3>2. Counts(s, V) = Counts(r, V) + IF s[j] \in V THEN 1 ELSE 0
      BY <1>2, <3>1, CountsWithout
    <3> QED
      BY <1>1, <3>2
<1> QED
  BY <1>1, <1>2, <1>4, <1>5 DEF r

LEMMA CountsAppended ==
    ASSUME NEW T, NEW s \in Seq(T), NEW v \in T, NEW V
    PROVE  Counts(Append(s, v), V) = Counts(s, V) + IF v \in V THEN 1 ELSE 0
<1> DEFINE r == Append(s, v)
           j == Len(s) + 1
<1>1. /\ r \in Seq(T) /\ Len(r) = Len(s) + 1 /\ j \in 1..Len(r) /\ r[j] = v /\ Len(s) \in Nat
      /\ \A i \in 1..Len(s) : s[i] = r[i] /\ i < j
  OBVIOUS
<1>2. \A i \in 1..Len(s) : s[i] = IF i < j THEN r[i] ELSE r[i + 1]
  BY <1>1
<1> HIDE DEF r, j
<1>4. IsWithout(s, r, j)
  BY <1>1, <1>2, Zenon DEF IsWithout
<1>3. Counts(r, V) = Counts(s, V) + IF r[j] \in V THEN 1 ELSE 0
  BY <1>1, <1>4, CountsWithout
<1> QED
  BY <1>1, <1>3 DEF r

LEMMA CountsTail ==
    ASSUME NEW T, NEW s \in Seq(T), s # <<>>, NEW V
    PROVE  Counts(s, V) = Counts(Tail(s), V) + IF Head(s) \in V THEN 1 ELSE 0
<1> DEFINE r == Tail(s)
<1>1. /\ r \in Seq(T) /\ Len(s) = Len(r) + 1 /\ 1 \in 1..Len(s) /\ s[1] = Head(s)
      /\ Len(r) \in Nat
      /\ \A i \in 1..Len(r) : r[i] = s[i + 1] /\ ~ (i < 1)
  OBVIOUS
<1>2. \A i \in 1..Len(r) : r[i] = IF i < 1 THEN s[i] ELSE s[i + 1]
  BY <1>1
<1> HIDE DEF r
<1>4. IsWithout(r, s, 1)
  BY <1>1, <1>2, Zenon DEF IsWithout
<1>3. Counts(s, V) = Counts(r, V) + IF s[1] \in V THEN 1 ELSE 0
  BY <1>1, <1>4, CountsWithout
<1> QED
  BY <1>1, <1>3 DEF r

Smaller(T, x) == {y \in T : y < x}
NotAbove(T, x) == {y \in T : y <= x}

\* Of a sorted sequence.
LEMMA CountsBelow ==
    ASSUME NEW T, NEW o \in Seq(T), NEW k \in 1..Len(o), NEW V
    PROVE  /\ (\A i \in 1..Len(o) : o[i] \in V => i < k) => Counts(o, V) < k
           /\ (\A i \in 1..k : o[i] \in V) => Counts(o, V) >= k
<1> DEFINE A == {i \in DOMAIN o : o[i] \in V}
<1>1. IsFiniteSet(A) /\ Cardinality(A) \in Nat /\ Counts(o, V) = Cardinality(A)
  BY AreCounted DEF Counts
<1>2. /\ IsFiniteSet(1..k) /\ Cardinality(1..k) = k
      /\ IsFiniteSet(1..k - 1) /\ Cardinality(1..k - 1) = k - 1
  BY FS_Interval
<1>3. DOMAIN o = 1..Len(o) /\ Len(o) \in Nat /\ k \in Nat
  OBVIOUS
<1>4. (\A i \in 1..Len(o) : o[i] \in V => i < k) => A \in SUBSET (1..k - 1)
  BY <1>3
<1>5. (\A i \in 1..k : o[i] \in V) => 1..k \in SUBSET A
  BY <1>3
<1> HIDE DEF A
<1> DEFINE C == 1..k - 1
<1>6. A \in SUBSET C => Cardinality(A) <= k - 1
  <2>1. IsFiniteSet(C) /\ Cardinality(C) = k - 1
    BY <1>2
  <2> HIDE DEF C
  <2> QED
    BY <2>1, FS_Subset
<1>7. 1..k \in SUBSET A => k <= Cardinality(A)
  BY <1>1, <1>2, FS_Subset
<1>8. /\ Cardinality(A) <= k - 1 => Counts(o, V) < k
      /\ k <= Cardinality(A) => Counts(o, V) >= k
  BY <1>1, <1>3
<1> QED
  BY <1>4, <1>5, <1>6, <1>7, <1>8

\* The k-th smallest is where it is in the sorted copy.
LEMMA RankedIs ==
    ASSUME NEW T \in SUBSET Int, NEW s \in Seq(T), NEW o \in Seq(T), InOrder(o),
           \A V : Counts(s, V) = Counts(o, V), NEW k \in 1..Len(o)
    PROVE  Ranked(s, k) = o[k]
<1> DEFINE P(x) == Counts(o, Smaller(T, x)) < k /\ Counts(o, NotAbove(T, x)) >= k
<1>1. /\ DOMAIN s = 1..Len(s) /\ DOMAIN o = 1..Len(o) /\ Len(s) \in Nat /\ Len(o) \in Nat
      /\ k \in Int
      /\ \A i \in 1..Len(o) : o[i] \in T
      /\ \A i \in 1..Len(s) : s[i] \in T
      /\ \A x \in T : x \in Int
  OBVIOUS
<1>2. ASSUME NEW x \in T
      PROVE  /\ {i \in DOMAIN s : s[i] < x} = {i \in DOMAIN s : s[i] \in Smaller(T, x)}
             /\ {i \in DOMAIN s : s[i] <= x} = {i \in DOMAIN s : s[i] \in NotAbove(T, x)}
  BY <1>1 DEF Smaller, NotAbove
<1>3. ASSUME NEW x \in T
      PROVE  /\ Cardinality({i \in DOMAIN s : s[i] < x}) = Counts(o, Smaller(T, x))
             /\ Cardinality({i \in DOMAIN s : s[i] <= x}) = Counts(o, NotAbove(T, x))
  BY <1>2, Zenon DEF Counts
<1>4. \A V : Counts(o, V) \in Nat
  BY AreCounted
<1>5. \A i, j \in 1..Len(o) : i <= j => o[i] <= o[j] /\ o[i] \in Int /\ o[j] \in Int
  <2> SUFFICES ASSUME NEW i \in 1..Len(o), NEW j \in 1..Len(o), i <= j
               PROVE  o[i] <= o[j] /\ o[i] \in Int /\ o[j] \in Int
    OBVIOUS
  <2>1. o[i] \in Int /\ o[j] \in Int
    BY <1>1
  <2>2. CASE i = j
    BY <2>1, <2>2
  <2>3. CASE i < j
    BY <1>1, <2>1, <2>3 DEF InOrder
  <2> QED
    BY <2>1, <2>2, <2>3
<1>6. \A i \in 1..k : i \in 1..Len(o) /\ i <= k
  BY <1>1
<1>7. /\ \A V : (\A i \in 1..Len(o) : o[i] \in V => i < k) => Counts(o, V) < k
      /\ \A V : (\A i \in 1..k : o[i] \in V) => Counts(o, V) >= k
  BY CountsBelow
<1>8. o[k] \in T /\ o[k] \in Int
  BY <1>1
<1>9. P(o[k])
  <2>1. \A i \in 1..Len(o) : o[i] \in Smaller(T, o[k]) => i < k
    <3> SUFFICES ASSUME NEW i \in 1..Len(o), o[i] < o[k], k <= i PROVE FALSE
      BY <1>1 DEF Smaller
    <3>1. o[k] <= o[i] /\ o[i] \in Int
      BY <1>5
    <3> QED
      BY <1>8, <3>1
  <2>2. \A i \in 1..k : o[i] \in NotAbove(T, o[k])
    BY <1>1, <1>5, <1>6 DEF NotAbove
  <2> QED
    BY <1>7, <2>1, <2>2
<1>10. ASSUME NEW x \in T, P(x) PROVE x = o[k]
  <2>1. CASE x < o[k]
    <3>1. \A i \in 1..Len(o) : o[i] \in NotAbove(T, x) => i < k
      <4> SUFFICES ASSUME NEW i \in 1..Len(o), o[i] <= x, k <= i PROVE FALSE
        BY <1>1 DEF NotAbove
      <4>1. o[k] <= o[i] /\ o[i] \in Int /\ x \in Int
        BY <1>1, <1>5
      <4> QED
        BY <1>8, <2>1, <4>1
    <3>2. Counts(o, NotAbove(T, x)) < k
      BY <1>7, <3>1
    <3>3. Counts(o, NotAbove(T, x)) \in Nat /\ Counts(o, NotAbove(T, x)) >= k
      BY <1>4, <1>10
    <3> QED
      BY <1>1, <3>2, <3>3
  <2>2. CASE o[k] < x
    <3>1. \A i \in 1..k : o[i] \in Smaller(T, x)
      <4> SUFFICES ASSUME NEW i \in 1..k PROVE o[i] \in T /\ o[i] < x
        BY DEF Smaller
      <4>1. i \in 1..Len(o) /\ i <= k
        BY <1>6
      <4>2. o[i] <= o[k] /\ o[i] \in Int /\ o[i] \in T /\ x \in Int
        BY <1>1, <1>5, <4>1
      <4> QED
        BY <1>8, <2>2, <4>2
    <3>2. Counts(o, Smaller(T, x)) >= k
      BY <1>7, <3>1
    <3>3. Counts(o, Smaller(T, x)) \in Nat /\ Counts(o, Smaller(T, x)) < k
      BY <1>4, <1>10
    <3> QED
      BY <1>1, <3>2, <3>3
  <2> QED
    BY <1>1, <1>8, <2>1, <2>2
<1>11. Range(s) \subseteq T /\ o[k] \in Range(s)
  <2>1. Range(s) \subseteq T
    BY <1>1 DEF Range
  <2>2. Counts(o, {o[k]}) # 0
    BY <1>1, AreCounted
  <2>3. Counts(s, {o[k]}) # 0
    BY <2>2
  <2>4. \E i \in DOMAIN s : s[i] \in {o[k]}
    BY <2>3, AreCounted
  <2> QED
    BY <2>1, <2>4 DEF Range
<1> HIDE DEF P
<1>12. Ranked(s, k) = CHOOSE x \in Range(s) : P(x)
  <2>1. \A x \in Range(s) :
            /\ Cardinality({i \in DOMAIN s : s[i] < x}) < k
            /\ Cardinality({i \in DOMAIN s : s[i] <= x}) >= k
            <=> P(x)
    BY <1>3, <1>11 DEF P
  <2> QED
    BY <2>1, Zenon DEF Ranked
<1>13. (CHOOSE x \in Range(s) : P(x)) = o[k]
  BY <1>9, <1>10, <1>11
<1> QED
  BY <1>12, <1>13

-----------------------------------------------------------------------------
(* The window.                                                               *)

\* The samples and their sorted copy.
Copies(d, o, T) ==
    /\ d \in Seq(T) /\ o \in Seq(T) /\ Len(d) = Len(o)
    /\ InOrder(o) /\ \A V : Counts(d, V) = Counts(o, V)

LEMMA CopiesGrow ==
    ASSUME NEW T \in SUBSET Int, NEW d, NEW o, Copies(d, o, T), NEW v \in T
    PROVE  /\ Copies(Append(d, v), InsertSorted(o, v), T) /\ Len(Append(d, v)) = Len(d) + 1
           /\ ToSet(Append(d, v)) = ToSet(d) \cup {v}
<1> DEFINE r == Append(d, v)
           t == InsertSorted(o, v)
<1>1. d \in Seq(T) /\ o \in Seq(T) /\ Len(d) = Len(o) /\ InOrder(o)
  BY DEF Copies
<1>2. r \in Seq(T) /\ Len(r) = Len(d) + 1
  BY <1>1
<1>3. /\ t \in Seq(T) /\ Len(t) = Len(o) + 1 /\ InOrder(t)
      /\ \A V : Counts(t, V) = Counts(o, V) + IF v \in V THEN 1 ELSE 0
  BY <1>1, InsertedInOrder
<1>4. \A V : Counts(r, V) = Counts(d, V) + IF v \in V THEN 1 ELSE 0
  BY <1>1, CountsAppended
<1>5. ToSet(r) = ToSet(d) \cup {v}
  <2>1. /\ DOMAIN d = 1..Len(d) /\ Len(d) \in Nat /\ DOMAIN r = 1..Len(d) + 1
        /\ r[Len(d) + 1] = v /\ \A i \in 1..Len(d) : r[i] = d[i]
    BY <1>1
  <2>2. \A i : i \in 1..Len(d) + 1 <=> i \in 1..Len(d) \/ i = Len(d) + 1
    BY <2>1
  <2> HIDE DEF r
  <2> QED
    BY <2>1, <2>2 DEF ToSet
<1> HIDE DEF r, t
<1>6. \A V : Counts(r, V) = Counts(t, V)
  BY <1>3, <1>4 DEF Copies
<1> QED
  BY <1>1, <1>2, <1>3, <1>5, <1>6 DEF Copies, r, t

LEMMA CopiesSlide ==
    ASSUME NEW T \in SUBSET Int, NEW d, NEW o, Copies(d, o, T), Len(o) > 0
    PROVE  /\ Copies(Tail(d), RemoveFirst(o, Head(d)), T) /\ Len(Tail(d)) = Len(d) - 1
           /\ ToSet(Tail(d)) \subseteq ToSet(d)
<1> DEFINE h == Head(d)
           r == Tail(d)
           t == RemoveFirst(o, h)
<1>1. d \in Seq(T) /\ o \in Seq(T) /\ Len(d) = Len(o) /\ InOrder(o) /\ d # <<>>
  BY DEF Copies
<1>2. /\ r \in Seq(T) /\ Len(r) = Len(d) - 1 /\ h = d[1] /\ 1 \in DOMAIN d
      /\ Len(d) \in Nat /\ DOMAIN d = 1..Len(d) /\ DOMAIN r = 1..Len(d) - 1
      /\ \A i \in 1..Len(d) - 1 : r[i] = d[i + 1] /\ i + 1 \in 1..Len(d)
  BY <1>1
<1>3. \A V : Counts(d, V) = Counts(r, V) + IF h \in V THEN 1 ELSE 0
  BY <1>1, CountsTail
<1>4. ToSet(r) \subseteq ToSet(d)
  <2> HIDE DEF r
  <2> QED
    BY <1>2 DEF ToSet
<1> HIDE DEF h, r
<1>5. h \in ToSet(o)
  <2>1. Counts(d, {h}) # 0
    BY <1>1, <1>2, AreCounted
  <2>2. Counts(o, {h}) # 0
    BY <2>1 DEF Copies
  <2>3. \E i \in DOMAIN o : o[i] \in {h}
    BY <1>1, <2>2, AreCounted
  <2> QED
    BY <2>3 DEF ToSet
<1>6. /\ t \in Seq(T) /\ Len(t) = Len(o) - 1 /\ InOrder(t)
      /\ \A V : Counts(o, V) = Counts(t, V) + IF h \in V THEN 1 ELSE 0
  BY <1>1, <1>5, RemovedInOrder
<1> HIDE DEF t
<1>7. ASSUME NEW V PROVE Counts(r, V) = Counts(t, V)
  <2>1. Counts(r, V) \in Nat /\ Counts(t, V) \in Nat
    BY <1>2, <1>6, AreCounted
  <2>2. Counts(r, V) + (IF h \in V THEN 1 ELSE 0) = Counts(t, V) + (IF h \in V THEN 1 ELSE 0)
    BY <1>3, <1>6 DEF Copies
  <2> QED
    BY <2>1, <2>2
<1> QED
  BY <1>1, <1>2, <1>4, <1>6, <1>7 DEF Copies, t, r, h

Halfway(n) == (n - 1) \div 2 + 1

GoodWindow(w, n, T) ==
    /\ w \in [data : Seq(T), sorted : Seq(T), mid : 0..n, median : Int]
    /\ Copies(w.data, w.sorted, T) /\ Len(w.data) <= n
    /\ Len(w.data) = n => w.mid = Halfway(n)
    /\ w.median = IF Len(w.data) < n THEN NotFull
                  ELSE (w.sorted[(n + 1) \div 2] + w.sorted[(n + 2) \div 2]) \div 2

LEMMA Halves ==
    ASSUME NEW n \in Nat \ {0}
    PROVE  /\ (n + 1) \div 2 \in 1..n /\ Halfway(n) \in 0..n
           /\ n % 2 = 0 => /\ Halfway(n) = (n + 1) \div 2
                              /\ Halfway(n) + 1 = (n + 2) \div 2
                              /\ Halfway(n) + 1 \in 1..n
           /\ n % 2 # 0 => /\ Halfway(n) = (n + 1) \div 2
                              /\ (n + 2) \div 2 = (n + 1) \div 2
           /\ (n + 2) \div 2 \in 1..n \/ n = 1
           /\ (n + 2) \div 2 \in 1..n
BY DEF Halfway

LEMMA EmptyIsGood ==
    ASSUME NEW n \in Nat \ {0}, NEW T
    PROVE  GoodWindow(EmptyWindow, n, T)
<1> DEFINE e == <<>>
<1>1. e \in Seq(T) /\ Len(e) = 0 /\ DOMAIN e = {}
  OBVIOUS
<1>2. EmptyWindow = [data |-> e, sorted |-> e, mid |-> 0, median |-> NotFull]
  BY DEF EmptyWindow
<1>4. 0 \in 0..n /\ Len(e) < n /\ NotFull \in Int
  BY <1>1 DEF NotFull
<1> HIDE DEF e
<1>3. Copies(e, e, T)
  BY <1>1 DEF Copies, InOrder
<1> QED
  BY <1>1, <1>2, <1>3, <1>4 DEF GoodWindow

LEMMA NumbersAre ==
    ASSUME NEW T \in SUBSET Nat
    PROVE  T \in SUBSET Int
OBVIOUS

\* What is left of a window that has slid.
Slid(x, d, e, f, n, T) ==
    /\ x = [data |-> x.data, sorted |-> x.sorted, mid |-> e, median |-> f]
    /\ Copies(x.data, x.sorted, T)
    /\ Len(x.data) = IF Len(d) <= n THEN Len(d) ELSE n
    /\ ToSet(x.data) \subseteq ToSet(d)

LEMMA WindowSlides ==
    ASSUME NEW n \in Nat \ {0}, NEW T \in SUBSET Int, NEW d, NEW o, NEW e, NEW f,
           Copies(d, o, T), Len(d) <= n + 1,
           NEW x, x = Slide([data |-> d, sorted |-> o, mid |-> e, median |-> f], n)
    PROVE  Slid(x, d, e, f, n, T)
<1> DEFINE y == [data |-> d, sorted |-> o, mid |-> e, median |-> f]
<1>1. Len(o) = Len(d) /\ Len(d) \in Nat
  BY DEF Copies
<1>2. CASE Len(o) > n
  <2> DEFINE c == Tail(d)
             t == RemoveFirst(o, Head(d))
             u == [y EXCEPT !.data = c]
  <2>1. x = [y EXCEPT !.data = c, !.sorted = t]
    BY <1>2 DEF Slide
  <2>2. u = [data |-> c, sorted |-> o, mid |-> e, median |-> f]
    <3> HIDE DEF c, t
    <3> QED
      OBVIOUS
  <2>3. [y EXCEPT !.data = c, !.sorted = t] = [u EXCEPT !.sorted = t]
    <3> HIDE DEF c, t, y
    <3> QED
      OBVIOUS
  <2> HIDE DEF u
  <2>4. Copies(c, t, T) /\ Len(c) = Len(d) - 1 /\ ToSet(c) \subseteq ToSet(d)
    <3>1. Len(o) > 0
      BY <1>2
    <3> QED
      BY <3>1, CopiesSlide
  <2> HIDE DEF c, t, y
  <2>5. x = [data |-> c, sorted |-> t, mid |-> e, median |-> f]
    <3>1. [u EXCEPT !.sorted = t] = [data |-> c, sorted |-> t, mid |-> e, median |-> f]
      BY <2>2
    <3> QED
      BY <2>1, <2>3, <3>1
  <2>6. x.data = c /\ x.sorted = t
    BY <2>5
  <2>7. Len(c) = IF Len(d) <= n THEN Len(d) ELSE n
    BY <1>1, <1>2, <2>4
  <2> QED
    BY <2>4, <2>5, <2>6, <2>7 DEF Slid
<1>3. CASE ~ (Len(o) > n)
  <2>1. x = [data |-> d, sorted |-> o, mid |-> e, median |-> f]
    BY <1>3 DEF Slide
  <2>2. x.data = d /\ x.sorted = o
    BY <2>1
  <2>3. Len(d) = IF Len(d) <= n THEN Len(d) ELSE n
    BY <1>1, <1>3
  <2> QED
    BY <2>1, <2>2, <2>3 DEF Slid
<1> QED
  BY <1>2, <1>3

LEMMA WindowSampled ==
    ASSUME NEW n \in Nat \ {0}, NEW T \in SUBSET Nat, NEW w, GoodWindow(w, n, T), NEW v \in T,
           NEW z, z = AddNumber(w, n, v)
    PROVE  /\ GoodWindow(z, n, T)
           /\ Len(w.data) = n => Len(z.data) = n
           /\ ToSet(z.data) \subseteq ToSet(w.data) \cup {v}
<1> DEFINE d0 == Append(w.data, v)
           o0 == InsertSorted(w.sorted, v)
           u == [w EXCEPT !.data = d0]
           y0 == [w EXCEPT !.data = d0, !.sorted = o0]
           x == Slide(y0, n)
           y == IF Len(x.sorted) = n THEN [x EXCEPT !.mid = (n - 1) \div 2 + 1] ELSE x
           d == x.data
           o == x.sorted
           m == IF Len(d) = n THEN Halfway(n) ELSE w.mid
           c == CalculateMedian(y, n)
<1>1. z = [y EXCEPT !.median = c]
  BY DEF AddNumber
<1>a. /\ w = [data |-> w.data, sorted |-> w.sorted, mid |-> w.mid, median |-> w.median]
      /\ Copies(w.data, w.sorted, T) /\ w.data \in Seq(T) /\ Len(w.data) <= n
      /\ w.mid \in 0..n /\ Len(w.data) \in Nat
  BY DEF GoodWindow, Copies
<1>b. y0 = [data |-> d0, sorted |-> o0, mid |-> w.mid, median |-> w.median]
  <2> HIDE DEF d0, o0
  <2>1. u = [data |-> d0, sorted |-> w.sorted, mid |-> w.mid, median |-> w.median]
    BY <1>a
  <2>2. y0 = [u EXCEPT !.sorted = o0]
    OBVIOUS
  <2> HIDE DEF u, y0
  <2>3. [u EXCEPT !.sorted = o0] = [data |-> d0, sorted |-> o0, mid |-> w.mid, median |-> w.median]
    BY <2>1
  <2> QED
    BY <2>2, <2>3
<1>c. T \in SUBSET Int
  BY NumbersAre
<1>d. Copies(d0, o0, T) /\ Len(d0) = Len(w.data) + 1 /\ ToSet(d0) = ToSet(w.data) \cup {v}
  <2> HIDE DEF u, x, y0
  <2>1. Copies(w.data, w.sorted, T)
    BY <1>a
  <2> QED
    BY <2>1, <1>c, CopiesGrow, ZenonT(40)
<1>e. x = Slide(y0, n)
  OBVIOUS
<1> HIDE DEF x, y0, d0, o0
<1>f. x = Slide([data |-> d0, sorted |-> o0, mid |-> w.mid, median |-> w.median], n)
  BY <1>b, <1>e
<1>2. /\ x = [data |-> d, sorted |-> o, mid |-> w.mid, median |-> w.median]
      /\ Copies(d, o, T)
      /\ Len(d) = IF Len(w.data) < n THEN Len(w.data) + 1 ELSE n
      /\ ToSet(d) \subseteq ToSet(w.data) \cup {v}
  <2>1. Len(d0) <= n + 1
    BY <1>a, <1>d
  <2>2. /\ x = [data |-> x.data, sorted |-> x.sorted, mid |-> w.mid, median |-> w.median]
        /\ Copies(x.data, x.sorted, T)
        /\ Len(x.data) = IF Len(d0) <= n THEN Len(d0) ELSE n
        /\ ToSet(x.data) \subseteq ToSet(d0)
    <3> HIDE DEF d, o, m, y, c
    <3>1. Slid(x, d0, w.mid, w.median, n, T)
      BY <1>c, <1>d, <1>f, <2>1, WindowSlides
    <3> QED
      BY <3>1 DEF Slid
  <2>3. (IF Len(d0) <= n THEN Len(d0) ELSE n) = IF Len(w.data) < n THEN Len(w.data) + 1 ELSE n
    BY <1>a, <1>d
  <2> QED
    BY <1>d, <2>2, <2>3
<1>3. Len(d) = Len(o) /\ Len(d) \in Nat /\ o \in Seq(T) /\ d \in Seq(T)
  BY <1>2 DEF Copies
<1>4. w.mid \in 0..n /\ Len(w.data) <= n /\ Len(w.data) \in Nat
  BY DEF GoodWindow, Copies
<1> HIDE DEF d, o
<1>5. y = [data |-> d, sorted |-> o, mid |-> m, median |-> w.median]
  <2>1. CASE Len(d) = n
    BY <1>2, <1>3, <2>1 DEF Halfway
  <2>2. CASE Len(d) # n
    BY <1>2, <1>3, <2>2
  <2> QED
    BY <2>1, <2>2
<1> HIDE DEF y, m, c
<1>6. z = [data |-> d, sorted |-> o, mid |-> m, median |-> c]
  BY <1>1, <1>5
<1>7. m \in 0..n /\ (Len(d) = n => m = Halfway(n))
  BY <1>4, Halves DEF m
<1>8. c = IF Len(d) < n THEN NotFull
          ELSE (o[(n + 1) \div 2] + o[(n + 2) \div 2]) \div 2
  <2>1. y.data = d /\ y.sorted = o /\ y.mid = m
    BY <1>5
  <2>2. CASE Len(d) < n
    BY <2>1, <2>2 DEF c, CalculateMedian
  <2>3. CASE ~ (Len(d) < n)
    <3>1. Len(d) = n /\ m = Halfway(n)
      BY <1>2, <1>3, <1>4, <1>7, <2>3
    <3>2. CASE n % 2 = 0
      <4>1. c = (o[m] + o[m + 1]) \div 2
        BY <2>1, <2>3, <3>2 DEF c, CalculateMedian
      <4>2. m = (n + 1) \div 2 /\ m + 1 = (n + 2) \div 2
        BY <3>1, <3>2, Halves
      <4> QED
        BY <2>3, <4>1, <4>2
    <3>3. CASE n % 2 # 0
      <4>1. c = o[m]
        BY <2>1, <2>3, <3>3 DEF c, CalculateMedian
      <4>2. m = (n + 1) \div 2 /\ (n + 2) \div 2 = m /\ m \in 1..n
        BY <3>1, <3>3, Halves
      <4>3. o[m] \in Nat
        <5>1. m \in 1..Len(o)
          BY <1>3, <3>1, <4>2
        <5>2. o[m] \in T
          BY <1>3, <5>1
        <5> QED
          BY <5>2
      <4>4. (o[m] + o[m]) \div 2 = o[m]
        BY <4>3
      <4> QED
        BY <2>3, <4>1, <4>2, <4>4
    <3> QED
      BY <3>2, <3>3
  <2> QED
    BY <2>2, <2>3
<1>9. Len(d) <= n
  BY <1>2, <1>4
<1>10. c \in Int
  <2>1. CASE Len(d) < n
    BY <1>8, <2>1 DEF NotFull
  <2>2. CASE ~ (Len(d) < n)
    <3> DEFINE a == o[(n + 1) \div 2]
               b == o[(n + 2) \div 2]
    <3>1. Len(o) = n
      BY <1>3, <1>9, <2>2
    <3>2. a \in T /\ b \in T
      <4>1. (n + 1) \div 2 \in 1..Len(o) /\ (n + 2) \div 2 \in 1..Len(o)
        BY <3>1, Halves
      <4> QED
        BY <1>3, <4>1
    <3>3. a \in Nat /\ b \in Nat /\ c = (a + b) \div 2
      BY <1>8, <2>2, <3>2
    <3> HIDE DEF a, b
    <3> QED
      BY <3>3
  <2> QED
    BY <2>1, <2>2
<1>11. z \in [data : Seq(T), sorted : Seq(T), mid : 0..n, median : Int]
  BY <1>3, <1>6, <1>7, <1>10
<1>12. z.data = d /\ z.sorted = o /\ z.mid = m /\ z.median = c
  BY <1>6
<1>13. GoodWindow(z, n, T)
  BY <1>2, <1>7, <1>8, <1>9, <1>11, <1>12 DEF GoodWindow
<1>14. Len(w.data) = n => Len(d) = n
  BY <1>2, <1>4
<1> QED
  BY <1>2, <1>12, <1>13, <1>14

\* What a full window tells is between two of its samples.
LEMMA MedianIsBetween ==
    ASSUME NEW n \in Nat \ {0}, NEW T \in SUBSET Nat, NEW w, GoodWindow(w, n, T), Len(w.data) = n
    PROVE  /\ w.median \in Nat
           /\ \E lo, hi \in ToSet(w.data) : lo <= w.median /\ w.median <= hi
<1> DEFINE d == w.data
           o == w.sorted
           i == (n + 1) \div 2
           j == (n + 2) \div 2
           a == o[i]
           b == o[j]
<1>1. /\ d \in Seq(T) /\ o \in Seq(T) /\ Len(o) = n /\ Len(d) = n /\ InOrder(o)
      /\ \A V : Counts(d, V) = Counts(o, V)
      /\ w.median = (a + b) \div 2
  BY DEF GoodWindow, Copies
<1>2. i \in 1..n /\ j \in 1..n /\ (i = j \/ i < j)
  BY Halves
<1> HIDE DEF i, j, d, o
<1>3. DOMAIN o = 1..n /\ DOMAIN d = 1..n /\ a \in Nat /\ b \in Nat
  <2>1. DOMAIN o = 1..n /\ DOMAIN d = 1..n
    BY <1>1
  <2>2. \A k \in 1..n : o[k] \in T
    BY <1>1
  <2>3. a \in T /\ b \in T
    BY <1>2, <2>2
  <2> HIDE DEF a, b
  <2> QED
    BY <2>1, <2>3
<1>4. a <= b
  <2>1. CASE i = j
    BY <1>3, <2>1
  <2>2. CASE i < j
    BY <1>1, <1>2, <1>3, <2>2 DEF InOrder
  <2> QED
    BY <1>2, <2>1, <2>2
<1>5. ASSUME NEW k \in 1..n PROVE o[k] \in ToSet(d)
  <2>1. Counts(o, {o[k]}) # 0
    BY <1>1, <1>3, AreCounted
  <2>2. Counts(d, {o[k]}) # 0
    BY <1>1, <2>1
  <2>3. \E l \in DOMAIN d : d[l] \in {o[k]}
    BY <1>1, <2>2, AreCounted
  <2> QED
    BY <2>3 DEF ToSet
<1>6. a \in ToSet(d) /\ b \in ToSet(d)
  BY <1>2, <1>5
<1> HIDE DEF a, b
<1>7. (a + b) \div 2 \in Nat /\ a <= (a + b) \div 2 /\ (a + b) \div 2 <= b
  BY <1>3, <1>4
<1> QED
  BY <1>1, <1>6, <1>7 DEF d

LEMMA IsTheMedian ==
    ASSUME NEW n \in Nat \ {0}, NEW T \in SUBSET Nat, NEW w, GoodWindow(w, n, T)
    PROVE  IsMovingMedian(w, n)
<1> DEFINE d == w.data
           o == w.sorted
           i == (n + 1) \div 2
           j == (n + 2) \div 2
<1>1. /\ d \in Seq(T) /\ o \in Seq(T) /\ Len(o) = Len(d) /\ Len(d) <= n /\ InOrder(o)
      /\ \A V : Counts(d, V) = Counts(o, V)
      /\ w.median = IF Len(d) < n THEN NotFull ELSE (o[i] + o[j]) \div 2
  BY DEF GoodWindow, Copies
<1>2. i \in 1..n /\ j \in 1..n
  BY Halves
<1>3. T \in SUBSET Int
  BY NumbersAre
<1> HIDE DEF i, j, d, o
<1>4. w.median = IF Len(d) < n THEN NotFull ELSE (Ranked(d, i) + Ranked(d, j)) \div 2
  <2>1. CASE Len(d) < n
    BY <1>1, <2>1
  <2>2. CASE ~ (Len(d) < n)
    <3>1. Len(o) = n
      BY <1>1, <2>2
    <3>2. i \in 1..Len(o) /\ j \in 1..Len(o)
      BY <1>2, <3>1
    <3>3. Ranked(d, i) = o[i] /\ Ranked(d, j) = o[j]
      BY <1>1, <1>3, <3>2, RankedIs
    <3> QED
      BY <1>1, <2>2, <3>3
  <2> QED
    BY <2>1, <2>2
<1> QED
  BY <1>1, <1>4 DEF IsMovingMedian, d, i, j

LEMMA IsAWindow ==
    ASSUME NEW n \in Nat \ {0}, NEW T, NEW w, GoodWindow(w, n, T)
    PROVE  w \in Windows(n, T)
<1> DEFINE R == UNION {[1..m -> T] : m \in 0..n}
<1>1. w \in [data : Seq(T), sorted : Seq(T), mid : 0..n, median : Int]
  BY DEF GoodWindow
<1>2. Len(w.data) \in 0..n /\ Len(w.sorted) \in 0..n
  BY DEF GoodWindow, Copies
<1>3. ASSUME NEW s \in Seq(T), Len(s) \in 0..n PROVE s \in R
  <2>1. s \in [1..Len(s) -> T]
    OBVIOUS
  <2> QED
    BY <1>3, <2>1
<1> HIDE DEF R
<1>4. w.data \in R /\ w.sorted \in R
  BY <1>1, <1>2, <1>3
<1>5. w \in [data : R, sorted : R, mid : 0..n, median : Int]
  BY <1>1, <1>4
<1> QED
  BY <1>5 DEF R, Windows

-----------------------------------------------------------------------------
(* The operators of the windows are the same in either front end.            *)

LEMMA SellersSize == \A X : Seller!Cardinality(X) = Cardinality(X)
BY DEF Seller!Cardinality, Cardinality

LEMMA SellersAddNumber == \A w, n, v : Seller!AddNumber(w, n, v) = AddNumber(w, n, v)
<1>1. \A s, e : Seller!RemoveFirst(s, e) = RemoveFirst(s, e)
  BY DEF Seller!RemoveFirst, RemoveFirst, Seller!RemoveAt, RemoveAt, Seller!SelectInSeq, SelectInSeq, Seller!Min, Min
<1>2. \A s, e : Seller!InsertSorted(s, e) = InsertSorted(s, e)
  BY SellersSize DEF Seller!InsertSorted, InsertSorted
<1>3. \A w, n : Seller!CalculateMedian(w, n) = CalculateMedian(w, n)
  BY DEF Seller!CalculateMedian, CalculateMedian, Seller!NotFull, NotFull
<1>4. \A w, n : Seller!Slide(w, n) = Slide(w, n)
  BY <1>1 DEF Seller!Slide, Slide
<1> QED
  <2> TAKE w, n, v
  <2> DEFINE y == [w EXCEPT !.data = Append(@, v), !.sorted = InsertSorted(@, v)]
             x == Slide(y, n)
             z == IF Len(x.sorted) = n THEN [x EXCEPT !.mid = (n - 1) \div 2 + 1] ELSE x
             sy == [w EXCEPT !.data = Append(@, v), !.sorted = Seller!InsertSorted(@, v)]
             sx == Seller!Slide(sy, n)
             sz == IF Len(sx.sorted) = n THEN [sx EXCEPT !.mid = (n - 1) \div 2 + 1] ELSE sx
  <2>1. y = sy
    BY <1>2
  <2>2. x = sx
    BY <2>1, <1>4
  <2>3. z = sz
    BY <2>2
  <2>4. AddNumber(w, n, v) = [z EXCEPT !.median = CalculateMedian(z, n)]
    BY DEF AddNumber
  <2>5. Seller!AddNumber(w, n, v) = [sz EXCEPT !.median = Seller!CalculateMedian(sz, n)]
    BY DEF Seller!AddNumber
  <2> QED
    BY <1>3, <2>3, <2>4, <2>5

LEMMA SellersMedian == \A w, n : Seller!IsMovingMedian(w, n) = IsMovingMedian(w, n)
<1>1. \A s : Seller!Range(s) = Range(s)
  BY DEF Seller!Range, Range
<1>2. \A s, i : Seller!Ranked(s, i) = Ranked(s, i)
  BY SellersSize, <1>1 DEF Seller!Ranked, Ranked
<1> QED
  BY <1>2 DEF Seller!IsMovingMedian, IsMovingMedian, Seller!NotFull, NotFull

LEMMA SellersWindows ==
    /\ \A n, T : Seller!Windows(n, T) = Windows(n, T)
    /\ Seller!EmptyWindow = EmptyWindow /\ Seller!NotFull = NotFull
    /\ \A w, n : Seller!IsWindowFilled(w, n) = IsWindowFilled(w, n)
    /\ \A w, n : Seller!NeedsGenerator(w, n) = NeedsGenerator(w, n)
BY DEF Seller!Windows, Windows, Seller!EmptyWindow, EmptyWindow, Seller!NotFull, NotFull, Seller!IsWindowFilled,
       IsWindowFilled, Seller!NeedsGenerator, NeedsGenerator

LEMMA BuyersSize == \A X : Buyer!Cardinality(X) = Cardinality(X)
BY DEF Buyer!Cardinality, Cardinality

LEMMA BuyersAddNumber == \A w, n, v : Buyer!AddNumber(w, n, v) = AddNumber(w, n, v)
<1>1. \A s, e : Buyer!RemoveFirst(s, e) = RemoveFirst(s, e)
  BY DEF Buyer!RemoveFirst, RemoveFirst, Buyer!RemoveAt, RemoveAt, Buyer!SelectInSeq, SelectInSeq, Buyer!Min, Min
<1>2. \A s, e : Buyer!InsertSorted(s, e) = InsertSorted(s, e)
  BY BuyersSize DEF Buyer!InsertSorted, InsertSorted
<1>3. \A w, n : Buyer!CalculateMedian(w, n) = CalculateMedian(w, n)
  BY DEF Buyer!CalculateMedian, CalculateMedian, Buyer!NotFull, NotFull
<1>4. \A w, n : Buyer!Slide(w, n) = Slide(w, n)
  BY <1>1 DEF Buyer!Slide, Slide
<1> QED
  <2> TAKE w, n, v
  <2> DEFINE y == [w EXCEPT !.data = Append(@, v), !.sorted = InsertSorted(@, v)]
             x == Slide(y, n)
             z == IF Len(x.sorted) = n THEN [x EXCEPT !.mid = (n - 1) \div 2 + 1] ELSE x
             by == [w EXCEPT !.data = Append(@, v), !.sorted = Buyer!InsertSorted(@, v)]
             bx == Buyer!Slide(by, n)
             bz == IF Len(bx.sorted) = n THEN [bx EXCEPT !.mid = (n - 1) \div 2 + 1] ELSE bx
  <2>1. y = by
    BY <1>2
  <2>2. x = bx
    BY <2>1, <1>4
  <2>3. z = bz
    BY <2>2
  <2>4. AddNumber(w, n, v) = [z EXCEPT !.median = CalculateMedian(z, n)]
    BY DEF AddNumber
  <2>5. Buyer!AddNumber(w, n, v) = [bz EXCEPT !.median = Buyer!CalculateMedian(bz, n)]
    BY DEF Buyer!AddNumber
  <2> QED
    BY <1>3, <2>3, <2>4, <2>5

LEMMA BuyersMedian == \A w, n : Buyer!IsMovingMedian(w, n) = IsMovingMedian(w, n)
<1>1. \A s : Buyer!Range(s) = Range(s)
  BY DEF Buyer!Range, Range
<1>2. \A s, i : Buyer!Ranked(s, i) = Ranked(s, i)
  BY BuyersSize, <1>1 DEF Buyer!Ranked, Ranked
<1> QED
  BY <1>2 DEF Buyer!IsMovingMedian, IsMovingMedian, Buyer!NotFull, NotFull

LEMMA BuyersWindows ==
    /\ \A n, T : Buyer!Windows(n, T) = Windows(n, T)
    /\ Buyer!EmptyWindow = EmptyWindow /\ Buyer!NotFull = NotFull
    /\ \A w, n : Buyer!IsWindowFilled(w, n) = IsWindowFilled(w, n)
    /\ \A w, n : Buyer!NeedsGenerator(w, n) = NeedsGenerator(w, n)
BY DEF Buyer!Windows, Windows, Buyer!EmptyWindow, EmptyWindow, Buyer!NotFull, NotFull, Buyer!IsWindowFilled,
       IsWindowFilled, Buyer!NeedsGenerator, NeedsGenerator

-----------------------------------------------------------------------------
(* A seller's window of request sizes.                                       *)

SellersRequests ==
    [at : {"idle", "filled", "send", "inFlight"}, chaff : BOOLEAN, filled : BOOLEAN,
     minimum : Seller!Sizes, size : Seller!Sizes, begunFull : BOOLEAN]

\* What the window may hold: a failed RPC counts as a request of size zero.
Sampleable == IF failed THEN sent \cup {0} ELSE sent

\* The size of chaff is not above all requests, nor below all that count.
ChaffLike(m, s, b) ==
    /\ m \in Seller!Sizes
    /\ \E hi \in s : m <= hi
    /\ \E lo \in b : lo <= m

\* A request, with the sizes sent (s), those that count (b) and the samples (l).
GoodSize(r, s, b, l) ==
    /\ r \in SellersRequests
    /\ r.begunFull = r.filled
    /\ r.begunFull => l = SellerWindow
    /\ r.at = "filled" => r.chaff
    /\ r.at \in {"send", "inFlight"} /\ r.chaff =>
         /\ r.begunFull => ChaffLike(r.minimum, s, b)
         /\ ~r.begunFull => r.minimum = SellerFixed
    /\ r.at \in {"send", "inFlight"} /\ ~r.chaff /\ r.begunFull => r.minimum = 0
    /\ r.at = "inFlight" => /\ r.chaff => r.size = r.minimum
                            /\ ~r.chaff => r.size \in s

SellerInv ==
    /\ GoodWindow(window, SellerWindow, Seller!Sizes)
    /\ auction \in [Auction -> SellersRequests]
    /\ sent \in SUBSET Seller!Sizes /\ failed \in BOOLEAN
    /\ ToSet(window.data) \subseteq Sampleable
    /\ Len(window.data) > 0 => sent # {}
    /\ \A a \in Auction : GoodSize(auction[a], sent, Sampleable, Len(window.data))

LEMMA SellersSizes ==
    /\ SellerWindow \in Nat \ {0} /\ SellerFixed \in Nat
    /\ Payload \subseteq Seller!Sizes /\ Seller!Sizes \in SUBSET Nat /\ Seller!Sizes = 0..SellerFixed
    /\ 0 \in Seller!Sizes /\ SellerFixed \in Seller!Sizes
<1>1. SellerWindow \in Nat \ {0} /\ SellerFixed \in Nat /\ Payload \subseteq 1..(SellerFixed - 1)
  BY WindowsAssumption DEF Seller!SellerChaffingAssumption
<1>2. Seller!Sizes = 0..SellerFixed
  <2>1. Payload \subseteq 0..SellerFixed
    BY <1>1
  <2> QED
    BY <2>1 DEF Seller!Sizes
<1>3. Payload \subseteq Seller!Sizes
  BY DEF Seller!Sizes
<1> QED
  BY <1>1, <1>2, <1>3

LEMMA GoodLater ==
    ASSUME NEW r, NEW s, NEW b, NEW l, GoodSize(r, s, b, l),
           NEW t, s \subseteq t, NEW c, b \subseteq c, NEW k, l = SellerWindow => k = SellerWindow
    PROVE  GoodSize(r, t, c, k)
<1>1. ChaffLike(r.minimum, s, b) => ChaffLike(r.minimum, t, c)
  BY DEF ChaffLike
<1>2. r.size \in s => r.size \in t
  OBVIOUS
<1> QED
  BY <1>1, <1>2, Zenon DEF GoodSize

LEMMA SellerMoves ==
    ASSUME SellerInv, NEW a \in Auction, NEW e, auction' = [auction EXCEPT ![a] = e],
           GoodWindow(window', SellerWindow, Seller!Sizes),
           sent \subseteq sent', sent' \in SUBSET Seller!Sizes, failed' \in BOOLEAN,
           Sampleable \subseteq Sampleable', ToSet(window'.data) \subseteq Sampleable',
           Len(window.data) = SellerWindow => Len(window'.data) = SellerWindow,
           Len(window'.data) > 0 => sent' # {},
           GoodSize(e, sent', Sampleable', Len(window'.data))
    PROVE  SellerInv'
<1>1. e \in SellersRequests
  BY DEF GoodSize
<1>2. auction' \in [Auction -> SellersRequests]
  BY <1>1 DEF SellerInv
<1>3. ASSUME NEW i \in Auction
      PROVE  GoodSize(auction'[i], sent', Sampleable', Len(window'.data))
  <2>1. CASE i = a
    <3>1. auction'[i] = e
      BY <2>1 DEF SellerInv
    <3> QED
      BY <3>1
  <2>2. CASE i # a
    <3>1. auction'[i] = auction[i]
      BY <2>2 DEF SellerInv
    <3>2. GoodSize(auction[i], sent, Sampleable, Len(window.data))
      BY DEF SellerInv
    <3>3. GoodSize(auction[i], sent', Sampleable', Len(window'.data))
      BY <3>2, GoodLater
    <3> QED
      BY <3>1, <3>3
  <2> QED
    BY <2>1, <2>2
<1> QED
  BY <1>2, <1>3 DEF SellerInv

LEMMA IdleIsGood ==
    /\ Seller!Idle \in SellersRequests
    /\ \A s, b, l : GoodSize(Seller!Idle, s, b, l)
<1>1. Seller!Idle \in SellersRequests
  BY SellersSizes DEF Seller!Idle, SellersRequests
<1>2. Seller!Idle.at = "idle" /\ Seller!Idle.filled = FALSE /\ Seller!Idle.begunFull = FALSE
  BY DEF Seller!Idle
<1> QED
  BY <1>1, <1>2 DEF GoodSize

LEMMA SellerInitially == SharedStateInit => SellerInv
<1> SUFFICES ASSUME SharedStateInit PROVE SellerInv
  OBVIOUS
<1>1. /\ window = EmptyWindow /\ auction = [a \in Auction |-> Seller!Idle]
      /\ sent = {} /\ failed = FALSE
  BY SellersWindows DEF SharedStateInit, Seller!Init
<1>2. GoodWindow(window, SellerWindow, Seller!Sizes)
  BY <1>1, SellersSizes, EmptyIsGood
<1>3. Len(window.data) = 0 /\ ToSet(window.data) = {}
  BY <1>1 DEF EmptyWindow, ToSet
<1>4. auction \in [Auction -> SellersRequests]
  BY <1>1, IdleIsGood
<1>5. ASSUME NEW a \in Auction
      PROVE  GoodSize(auction[a], sent, Sampleable, Len(window.data))
  <2>1. auction[a] = Seller!Idle
    BY <1>1
  <2> QED
    BY <2>1, IdleIsGood
<1>6. /\ sent \in SUBSET Seller!Sizes /\ failed \in BOOLEAN
      /\ ToSet(window.data) \subseteq Sampleable /\ (Len(window.data) > 0 => sent # {})
  <2>1. sent \in SUBSET Seller!Sizes
    BY <1>1
  <2>2. ~ (Len(window.data) > 0)
    BY <1>3
  <2>3. ToSet(window.data) \subseteq Sampleable
    BY <1>3
  <2>4. failed \in BOOLEAN
    BY <1>1
  <2> QED
    BY <2>1, <2>2, <2>3, <2>4, Zenon
<1>7. \A a \in Auction : GoodSize(auction[a], sent, Sampleable, Len(window.data))
  BY <1>5
<1> QED
  BY <1>2, <1>4, <1>6, <1>7 DEF SellerInv

\* What no step of a request alone changes.
LEMMA SamplesStand ==
    ASSUME SellerInv, UNCHANGED <<window, sent, failed>>
    PROVE  /\ GoodWindow(window', SellerWindow, Seller!Sizes)
           /\ sent \subseteq sent' /\ sent' \in SUBSET Seller!Sizes /\ failed' \in BOOLEAN
           /\ Sampleable \subseteq Sampleable' /\ ToSet(window'.data) \subseteq Sampleable'
           /\ Sampleable' = Sampleable
           /\ Len(window.data) = SellerWindow => Len(window'.data) = SellerWindow
           /\ Len(window'.data) > 0 => sent' # {}
BY Zenon DEF SellerInv, Sampleable

LEMMA SellerReadsFilled ==
    ASSUME SellerInv, NEW a \in Auction, NEW chaff \in BOOLEAN, Seller!IsFilled(a, chaff)
    PROVE  SellerInv'
<1> DEFINE full == Len(window.data) = SellerWindow
           m == IF chaff THEN 0 ELSE Seller!MinimumSize(FALSE, full, Seller!NotFull)
           state == IF chaff THEN "filled" ELSE "send"
           e == [Seller!Idle EXCEPT !.at = state, !.chaff = chaff, !.filled = full,
                               !.begunFull = full, !.minimum = m]
<1>1. auction' = [auction EXCEPT ![a] = e] /\ UNCHANGED <<window, sent, failed>>
  BY DEF Seller!IsFilled, Seller!IsWindowFilled
<1>2. m = IF chaff \/ full THEN 0 ELSE SellerFixed
  BY DEF Seller!MinimumSize
<1>3. full \in BOOLEAN /\ m \in Seller!Sizes
  BY <1>2, SellersSizes
<1>4. state \in {"filled", "send"} /\ (state = "filled" <=> chaff)
  OBVIOUS
<1>f. full => Len(window.data) = SellerWindow
  OBVIOUS
<1>e. e = [Seller!Idle EXCEPT !.at = state, !.chaff = chaff, !.filled = full,
                         !.begunFull = full, !.minimum = m]
  OBVIOUS
<1> HIDE DEF full, m, state, e
<1>5. /\ e \in SellersRequests /\ e.at = state /\ e.chaff = chaff /\ e.filled = full
      /\ e.begunFull = full /\ e.minimum = m
  <2> DEFINE Q == Seller!Sizes
  <2>1. Seller!Idle \in [at : {"idle", "filled", "send", "inFlight"}, chaff : BOOLEAN,
                    filled : BOOLEAN, minimum : Q, size : Q, begunFull : BOOLEAN]
    BY IdleIsGood DEF SellersRequests
  <2>2. m \in Q
    BY <1>3
  <2> HIDE DEF Q
  <2>3. /\ e \in [at : {"idle", "filled", "send", "inFlight"}, chaff : BOOLEAN,
                   filled : BOOLEAN, minimum : Q, size : Q, begunFull : BOOLEAN]
        /\ e.at = state /\ e.chaff = chaff /\ e.filled = full
        /\ e.begunFull = full /\ e.minimum = m
    BY <1>3, <1>4, <1>e, <2>1, <2>2
  <2> QED
    BY <2>3 DEF Q, SellersRequests
<1>6. GoodSize(e, sent, Sampleable, Len(window.data))
  <2>1. e.begunFull => Len(window.data) = SellerWindow
    BY <1>5, <1>f
  <2>2. e.begunFull = e.filled /\ (e.at = "filled" => e.chaff)
    BY <1>4, <1>5
  <2>3. ~ (e.at \in {"send", "inFlight"} /\ e.chaff) /\ e.at # "inFlight"
    BY <1>4, <1>5
  <2>4. e.begunFull => e.minimum = 0
    BY <1>2, <1>5
  <2> QED
    BY <1>5, <2>1, <2>2, <2>3, <2>4, Zenon DEF GoodSize
<1>7. GoodSize(e, sent', Sampleable', Len(window'.data))
  BY <1>1, <1>6, SamplesStand
<1> QED
  BY <1>1, <1>7, SamplesStand, SellerMoves

LEMMA SellerReadsMedian ==
    ASSUME SellerInv, NEW a \in Auction, Seller!GetMedian(a)
    PROVE  SellerInv'
<1> DEFINE r == auction[a]
           m == Seller!MinimumSize(TRUE, r.filled, window.median)
           e == [r EXCEPT !.at = "send", !.minimum = m]
<1>1. /\ r.at = "filled" /\ UNCHANGED <<window, sent, failed>>
      /\ auction' = [auction EXCEPT ![a].at = "send", ![a].minimum = m]
  BY DEF Seller!GetMedian
<1>2. GoodSize(r, sent, Sampleable, Len(window.data)) /\ r \in SellersRequests
  BY DEF SellerInv
<1>3. auction' = [auction EXCEPT ![a] = e]
  <2> HIDE DEF m
  <2> QED
    BY <1>1 DEF SellerInv
<1>4. /\ r.begunFull => ChaffLike(m, sent, Sampleable)
      /\ ~r.begunFull => m = SellerFixed
      /\ m \in Seller!Sizes
  <2>1. r.begunFull = r.filled
    BY <1>2 DEF GoodSize
  <2>2. CASE r.begunFull
    <3>1. Len(window.data) = SellerWindow
      BY <1>2, <2>2 DEF GoodSize
    <3>2. GoodWindow(window, SellerWindow, Seller!Sizes)
      BY DEF SellerInv
    <3>3. PICK lo \in ToSet(window.data), hi \in ToSet(window.data) :
             window.median \in Nat /\ lo <= window.median /\ window.median <= hi
      BY <3>1, <3>2, SellersSizes, MedianIsBetween
    <3>4. m = window.median
      <4>1. window.median # Seller!NotFull
        BY <3>3 DEF Seller!NotFull
      <4> QED
        BY <2>1, <2>2, <4>1 DEF Seller!MinimumSize
    <3>5. /\ lo \in Sampleable /\ hi \in Sampleable /\ sent # {} /\ sent \in SUBSET Seller!Sizes
          /\ Sampleable \subseteq sent \cup {0}
      <4>1. ToSet(window.data) \subseteq Sampleable /\ sent \in SUBSET Seller!Sizes
            /\ (Len(window.data) > 0 => sent # {})
        BY DEF SellerInv
      <4>2. Len(window.data) > 0
        BY <3>1, SellersSizes
      <4> QED
        BY <4>1, <4>2 DEF Sampleable
    <3>6. hi \in Seller!Sizes
      BY <3>5, SellersSizes
    <3>7. window.median \in Seller!Sizes
      BY <3>3, <3>6, SellersSizes
    <3>8. \E h \in sent : window.median <= h
      <4>1. CASE hi \in sent
        BY <3>3, <4>1
      <4>2. CASE hi = 0
        <5>1. PICK h \in sent : TRUE
          BY <3>5
        <5>2. h \in Nat
          BY <3>5, SellersSizes
        <5>3. window.median <= h
          BY <3>3, <4>2, <5>2
        <5> QED
          BY <5>3
      <4> QED
        BY <3>5, <4>1, <4>2
    <3>9. \E l \in Sampleable : l <= window.median
      BY <3>3, <3>5
    <3> QED
      BY <2>2, <3>4, <3>7, <3>8, <3>9 DEF ChaffLike
  <2>3. CASE ~r.begunFull
    <3>1. m = SellerFixed
      BY <2>1, <2>3 DEF Seller!MinimumSize
    <3> QED
      BY <2>3, <3>1, SellersSizes
  <2> QED
    BY <2>2, <2>3
<1> HIDE DEF m, r
<1>5. /\ e \in SellersRequests /\ e.at = "send" /\ e.chaff = r.chaff /\ e.filled = r.filled
      /\ e.begunFull = r.begunFull /\ e.minimum = m
  <2> DEFINE Q == Seller!Sizes
  <2>1. r \in [at : {"idle", "filled", "send", "inFlight"}, chaff : BOOLEAN,
              filled : BOOLEAN, minimum : Q, size : Q, begunFull : BOOLEAN]
    BY <1>2 DEF SellersRequests
  <2>2. m \in Q
    BY <1>4
  <2> HIDE DEF Q
  <2>3. /\ e \in [at : {"idle", "filled", "send", "inFlight"}, chaff : BOOLEAN,
                   filled : BOOLEAN, minimum : Q, size : Q, begunFull : BOOLEAN]
        /\ e.at = "send" /\ e.chaff = r.chaff /\ e.filled = r.filled
        /\ e.begunFull = r.begunFull /\ e.minimum = m
    BY <2>1, <2>2
  <2> QED
    BY <2>3 DEF Q, SellersRequests
<1> HIDE DEF e
<1>6. GoodSize(e, sent, Sampleable, Len(window.data))
  <2>1. r.chaff
    BY <1>1, <1>2 DEF GoodSize, r
  <2>2. r.begunFull = r.filled /\ (r.begunFull => Len(window.data) = SellerWindow)
    BY <1>2 DEF GoodSize
  <2> QED
    BY <1>4, <1>5, <2>1, <2>2 DEF GoodSize
<1>7. GoodSize(e, sent', Sampleable', Len(window'.data))
  BY <1>1, <1>6, SamplesStand
<1> QED
  BY <1>1, <1>3, <1>7, SamplesStand, SellerMoves

LEMMA LargerOfTwo ==
    ASSUME NEW x \in Nat, NEW y \in Nat
    PROVE  Seller!Max({x, y}) = IF x <= y THEN y ELSE x
<1> DEFINE m == IF x <= y THEN y ELSE x
<1>1. m \in {x, y} /\ \A z \in {x, y} : m >= z
  OBVIOUS
<1>2. ASSUME NEW u \in {x, y}, \A z \in {x, y} : u >= z PROVE u = m
  BY <1>2
<1> HIDE DEF m
<1>3. Seller!Max({x, y}) = CHOOSE u \in {x, y} : \A z \in {x, y} : u >= z
  BY DEF Seller!Max
<1>4. Seller!Max({x, y}) \in {x, y} /\ \A z \in {x, y} : Seller!Max({x, y}) >= z
  BY <1>1, <1>3
<1> QED
  BY <1>2, <1>4 DEF m

LEMMA SellerSends ==
    ASSUME SellerInv, NEW a \in Auction, Seller!Send(a)
    PROVE  SellerInv'
<1> DEFINE r == auction[a]
<1>1. r.at = "send" /\ UNCHANGED <<window, failed>>
  BY DEF Seller!Send
<1>2. GoodSize(r, sent, Sampleable, Len(window.data)) /\ r \in SellersRequests
  BY DEF SellerInv
<1>3. CASE auction' = [auction EXCEPT ![a] = Seller!Idle] /\ UNCHANGED sent
  <2>1. GoodSize(Seller!Idle, sent', Sampleable', Len(window'.data))
    BY IdleIsGood
  <2> QED
    BY <1>1, <1>3, <2>1, SamplesStand, SellerMoves
<1>4. ASSUME NEW p \in Payload,
             NEW sz, sz = Seller!Max({IF r.chaff THEN 0 ELSE p, r.minimum}),
             auction' = [auction EXCEPT ![a].at = "inFlight", ![a].size = sz],
             sent' = IF r.chaff THEN sent ELSE sent \cup {sz}
      PROVE  SellerInv'
  <2> DEFINE e == [r EXCEPT !.at = "inFlight", !.size = sz]
  <2>1. auction' = [auction EXCEPT ![a] = e]
    BY <1>4 DEF SellerInv
  <2>2. /\ sz \in Seller!Sizes /\ (r.chaff => sz = r.minimum)
    <3>1. p \in Nat /\ p \in Seller!Sizes /\ r.minimum \in Nat /\ r.minimum \in Seller!Sizes
      BY <1>2, SellersSizes DEF SellersRequests
    <3>2. CASE r.chaff
      <4>1. sz = Seller!Max({0, r.minimum})
        BY <1>4, <3>2
      <4>2. sz = IF 0 <= r.minimum THEN r.minimum ELSE 0
        BY <3>1, <4>1, LargerOfTwo
      <4> QED
        BY <3>1, <4>2
    <3>3. CASE ~r.chaff
      <4>1. sz = Seller!Max({p, r.minimum})
        BY <1>4, <3>3
      <4>2. sz = IF p <= r.minimum THEN r.minimum ELSE p
        BY <3>1, <4>1, LargerOfTwo
      <4> QED
        BY <3>1, <3>3, <4>2
    <3> QED
      BY <3>2, <3>3
  <2> HIDE DEF r
  <2>3. /\ e \in SellersRequests /\ e.at = "inFlight" /\ e.chaff = r.chaff /\ e.filled = r.filled
        /\ e.begunFull = r.begunFull /\ e.minimum = r.minimum /\ e.size = sz
    <3> DEFINE Q == Seller!Sizes
    <3>1. r \in [at : {"idle", "filled", "send", "inFlight"}, chaff : BOOLEAN,
                filled : BOOLEAN, minimum : Q, size : Q, begunFull : BOOLEAN]
      BY <1>2 DEF SellersRequests
    <3>2. sz \in Q
      BY <2>2
    <3> HIDE DEF Q
    <3>3. /\ e \in [at : {"idle", "filled", "send", "inFlight"}, chaff : BOOLEAN,
                     filled : BOOLEAN, minimum : Q, size : Q, begunFull : BOOLEAN]
          /\ e.at = "inFlight" /\ e.chaff = r.chaff /\ e.filled = r.filled
          /\ e.begunFull = r.begunFull /\ e.minimum = r.minimum /\ e.size = sz
      BY <3>1, <3>2
    <3> QED
      BY <3>3 DEF Q, SellersRequests
  <2> HIDE DEF e
  <2>4. /\ sent \subseteq sent' /\ sent' \in SUBSET Seller!Sizes /\ (~r.chaff => sz \in sent')
        /\ Sampleable \subseteq Sampleable'
    <3>1. sent \subseteq sent' /\ (~r.chaff => sz \in sent')
      BY <1>4 DEF r
    <3>2. sent' \in SUBSET Seller!Sizes
      <4>1. sent \in SUBSET Seller!Sizes
        BY DEF SellerInv
      <4> QED
        BY <1>4, <2>2, <4>1
    <3>3. Sampleable \subseteq Sampleable'
      BY <1>1, <3>1 DEF Sampleable
    <3> QED
      BY <3>1, <3>2, <3>3
  <2>5. GoodSize(e, sent', Sampleable', Len(window'.data))
    <3>1. GoodSize(r, sent', Sampleable', Len(window'.data))
      BY <1>1, <1>2, <2>4, GoodLater
    <3> QED
      BY <1>1, <2>2, <2>3, <2>4, <3>1 DEF GoodSize, r
  <2>6. /\ GoodWindow(window', SellerWindow, Seller!Sizes) /\ failed' \in BOOLEAN
        /\ ToSet(window'.data) \subseteq Sampleable'
        /\ Len(window.data) = SellerWindow => Len(window'.data) = SellerWindow
        /\ Len(window'.data) > 0 => sent' # {}
    <3>1. /\ GoodWindow(window, SellerWindow, Seller!Sizes) /\ failed \in BOOLEAN
          /\ ToSet(window.data) \subseteq Sampleable /\ (Len(window.data) > 0 => sent # {})
      BY DEF SellerInv
    <3>2. /\ ToSet(window.data) \subseteq Sampleable' /\ (Len(window.data) > 0 => sent' # {})
      BY <2>4, <3>1
    <3> QED
      BY <1>1, <3>1, <3>2
  <2> QED
    BY <2>1, <2>4, <2>5, <2>6, SellerMoves
<1> QED
  BY <1>3, <1>4 DEF Seller!Send

LEMMA SellersSampled ==
    ASSUME NEW w, GoodWindow(w, SellerWindow, Seller!Sizes), NEW v \in Seller!Sizes,
           NEW x, x = AddNumber(w, SellerWindow, v)
    PROVE  /\ GoodWindow(x, SellerWindow, Seller!Sizes)
           /\ Len(w.data) = SellerWindow => Len(x.data) = SellerWindow
           /\ ToSet(x.data) \subseteq ToSet(w.data) \cup {v}
<1> DEFINE Q == Seller!Sizes
<1>1. Q \in SUBSET Nat /\ SellerWindow \in Nat \ {0}
  BY SellersSizes
<1>2. GoodWindow(w, SellerWindow, Q) /\ v \in Q
  OBVIOUS
<1> HIDE DEF Q
<1>3. GoodWindow(x, SellerWindow, Q)
  BY <1>1, <1>2, WindowSampled
<1>4. Len(w.data) = SellerWindow => Len(x.data) = SellerWindow
  BY <1>1, <1>2, WindowSampled
<1>5. ToSet(x.data) \subseteq ToSet(w.data) \cup {v}
  BY <1>1, <1>2, WindowSampled
<1> QED
  BY <1>3, <1>4, <1>5 DEF Q

LEMMA SamplesMore ==
    ASSUME SellerInv, NEW a \in Auction, auction' = [auction EXCEPT ![a] = Seller!Idle],
           NEW v \in Seller!Sizes, NEW T, T = IF failed' THEN sent \cup {0} ELSE sent,
           v \in T, sent # {}, failed => failed', failed' \in BOOLEAN, UNCHANGED sent,
           window' = AddNumber(window, SellerWindow, v)
    PROVE  SellerInv'
<1>1. /\ GoodWindow(window, SellerWindow, Seller!Sizes) /\ failed \in BOOLEAN
      /\ ToSet(window.data) \subseteq Sampleable /\ sent \in SUBSET Seller!Sizes
  BY DEF SellerInv
<1>2. /\ GoodWindow(window', SellerWindow, Seller!Sizes)
      /\ Len(window.data) = SellerWindow => Len(window'.data) = SellerWindow
      /\ ToSet(window'.data) \subseteq ToSet(window.data) \cup {v}
  BY <1>1, SellersSampled
<1>3. Sampleable' = T
  BY DEF Sampleable
<1>4. Sampleable \subseteq Sampleable'
  BY <1>1, <1>3 DEF Sampleable
<1>5. ToSet(window'.data) \subseteq Sampleable'
  BY <1>1, <1>2, <1>3, <1>4
<1>6. GoodSize(Seller!Idle, sent', Sampleable', Len(window'.data))
  BY IdleIsGood
<1> QED
  BY <1>1, <1>2, <1>4, <1>5, <1>6, SellerMoves

LEMMA SellerHears ==
    ASSUME SellerInv, NEW a \in Auction, Seller!OnResponse(a)
    PROVE  SellerInv'
<1> DEFINE r == auction[a]
<1>1. r.at = "inFlight" /\ UNCHANGED sent /\ auction' = [auction EXCEPT ![a] = Seller!Idle]
  BY DEF Seller!OnResponse
<1>2. GoodSize(r, sent, Sampleable, Len(window.data)) /\ r \in SellersRequests
      /\ failed \in BOOLEAN
  BY DEF SellerInv
<1>3. CASE UNCHANGED <<window, failed>>
  <2>1. GoodSize(Seller!Idle, sent', Sampleable', Len(window'.data))
    BY IdleIsGood
  <2> QED
    BY <1>1, <1>3, <2>1, SamplesStand, SellerMoves
<1>4. ~r.chaff => r.size \in sent /\ sent # {} /\ r.size \in Seller!Sizes
  BY <1>1, <1>2 DEF GoodSize, SellersRequests
<1>5. /\ r.chaff => Seller!Sampled(a, r.size) = {window} /\ Seller!Sampled(a, 0) = {window}
      /\ \A v : ~r.chaff => Seller!Sampled(a, v) \subseteq {AddNumber(window, SellerWindow, v), window}
  BY SellersAddNumber DEF Seller!Sampled
<1>6. CASE window' \in Seller!Sampled(a, r.size) /\ UNCHANGED failed
  <2>1. CASE window' = window
    BY <1>3, <1>6, <2>1
  <2>2. CASE window' # window
    <3>1. ~r.chaff /\ window' = AddNumber(window, SellerWindow, r.size)
      BY <1>5, <1>6, <2>2
    <3>2. r.size \in IF failed' THEN sent \cup {0} ELSE sent
      BY <1>4, <3>1
    <3> HIDE DEF r
    <3> QED
      BY <1>1, <1>2, <1>4, <1>6, <3>1, <3>2, SamplesMore
  <2> QED
    BY <2>1, <2>2
<1>7. CASE window' \in Seller!Sampled(a, 0) /\ failed' = (failed \/ ~r.chaff)
  <2>0. failed' \in BOOLEAN /\ (failed => failed') /\ (~r.chaff => failed')
    BY <1>7
  <2>1. CASE window' = window
    <3>1. GoodSize(Seller!Idle, sent', Sampleable', Len(window'.data))
      BY IdleIsGood
    <3>2. /\ GoodWindow(window, SellerWindow, Seller!Sizes) /\ sent \in SUBSET Seller!Sizes
          /\ ToSet(window.data) \subseteq Sampleable /\ (Len(window.data) > 0 => sent # {})
      BY DEF SellerInv
    <3>3. Sampleable \subseteq Sampleable'
      BY <1>1, <2>0 DEF Sampleable
    <3>4. ToSet(window'.data) \subseteq Sampleable'
      BY <2>1, <3>2, <3>3
    <3>5. Len(window.data) = SellerWindow => Len(window'.data) = SellerWindow
      BY <2>1
    <3>6. GoodWindow(window', SellerWindow, Seller!Sizes) /\ (Len(window'.data) > 0 => sent' # {})
      BY <1>1, <2>1, <3>2
    <3>7. sent \subseteq sent' /\ sent' \in SUBSET Seller!Sizes
      BY <1>1, <3>2
    <3> QED
      BY <1>1, <2>0, <3>1, <3>3, <3>4, <3>5, <3>6, <3>7, SellerMoves
  <2>2. CASE window' # window
    <3>1. ~r.chaff /\ window' = AddNumber(window, SellerWindow, 0)
      BY <1>5, <1>7, <2>2
    <3>2. 0 \in IF failed' THEN sent \cup {0} ELSE sent
      BY <2>0, <3>1
    <3> HIDE DEF r
    <3> QED
      BY <1>1, <1>4, <2>0, <3>1, <3>2, SellersSizes, SamplesMore
  <2> QED
    BY <2>1, <2>2
<1> QED
  BY <1>3, <1>6, <1>7 DEF Seller!OnResponse

LEMMA SellerSteps == SellerInv /\ Seller!Next => SellerInv'
BY SellerReadsFilled, SellerReadsMedian, SellerSends, SellerHears DEF Seller!Next

LEMMA SellerStep == SellerInv /\ [SharedStateNext]_allVars => SellerInv'
<1>1. ASSUME SellerInv, UNCHANGED sellerVars PROVE SellerInv'
  <2>1. window' = window /\ auction' = auction /\ sent' = sent /\ failed' = failed
    BY <1>1 DEF sellerVars
  <2>2. Sampleable' = Sampleable
    BY <2>1, Zenon DEF Sampleable
  <2>3. \A a \in Auction : GoodSize(auction'[a], sent', Sampleable', Len(window'.data))
    BY <1>1, <2>1, <2>2, Zenon DEF SellerInv
  <2>4. /\ GoodWindow(window', SellerWindow, Seller!Sizes) /\ auction' \in [Auction -> SellersRequests]
        /\ sent' \in SUBSET Seller!Sizes /\ failed' \in BOOLEAN
        /\ ToSet(window'.data) \subseteq Sampleable' /\ (Len(window'.data) > 0 => sent' # {})
    BY <1>1, <2>1, <2>2, Zenon DEF SellerInv
  <2> QED
    BY <2>3, <2>4 DEF SellerInv
<1> QED
  BY <1>1, SellerSteps DEF SharedStateNext, allVars, sellerVars, Using

LEMMA LargestSize ==
    ASSUME NEW T, T \in SUBSET Seller!Sizes, NEW x \in T
    PROVE  Seller!Max(T) \in T /\ x <= Seller!Max(T)
<1> DEFINE R == {SellerFixed - y : y \in T}
<1>1. SellerFixed \in Nat /\ \A y \in T : y \in 0..SellerFixed
  BY SellersSizes
<1>2. R \subseteq Nat /\ SellerFixed - x \in R
  BY <1>1
<1>3. PICK d \in R : \A e \in R : d <= e
  <2> HIDE DEF R
  <2> QED
    BY <1>2, Least
<1>4. PICK m \in T : d = SellerFixed - m
  BY <1>3
<1>5. \A y \in T : m >= y
  <2> SUFFICES ASSUME NEW y \in T PROVE m >= y
    OBVIOUS
  <2>1. SellerFixed - m <= SellerFixed - y
    BY <1>3, <1>4
  <2>2. m \in Nat /\ y \in Nat
    BY <1>1
  <2> QED
    BY <1>1, <2>1, <2>2
<1>6. Seller!Max(T) \in T /\ \A y \in T : Seller!Max(T) >= y
  BY <1>5 DEF Seller!Max
<1> QED
  BY <1>1, <1>6

LEMMA SellerHasItsType == SellerInv => Seller!TypeOK
<1> SUFFICES ASSUME SellerInv PROVE Seller!TypeOK
  OBVIOUS
<1>1. window \in Seller!Windows(SellerWindow, Seller!Sizes)
  BY SellersSizes, SellersWindows, IsAWindow DEF SellerInv
<1> QED
  BY <1>1 DEF SellerInv, Seller!TypeOK, SellersRequests

LEMMA SellerFollowsItsWindow ==
    SellerInv => Seller!WindowHasItsMedian /\ Seller!ChaffLooksReal /\ Seller!PaddedOnlyUntilFilled
<1> SUFFICES ASSUME SellerInv
             PROVE  Seller!WindowHasItsMedian /\ Seller!ChaffLooksReal /\ Seller!PaddedOnlyUntilFilled
  OBVIOUS
<1>1. Seller!WindowHasItsMedian
  <2>1. GoodWindow(window, SellerWindow, Seller!Sizes)
    BY DEF SellerInv
  <2>2. Seller!IsMovingMedian(window, SellerWindow)
    BY <2>1, SellersSizes, SellersMedian, IsTheMedian
  <2>3. \A v : Cardinality({i \in DOMAIN window.data : window.data[i] = v})
              = Cardinality({i \in DOMAIN window.sorted : window.sorted[i] = v})
    <3> TAKE v
    <3>1. Counts(window.data, {v}) = Counts(window.sorted, {v})
      BY <2>1 DEF GoodWindow, Copies
    <3>2. /\ {i \in DOMAIN window.data : window.data[i] = v}
             = {i \in DOMAIN window.data : window.data[i] \in {v}}
          /\ {i \in DOMAIN window.sorted : window.sorted[i] = v}
             = {i \in DOMAIN window.sorted : window.sorted[i] \in {v}}
      OBVIOUS
    <3> QED
      BY <3>1, <3>2 DEF Counts
  <2> QED
    BY <2>2, <2>3, SellersSize DEF Seller!WindowHasItsMedian
<1>2. ASSUME NEW a \in Auction
      PROVE  GoodSize(auction[a], sent, Sampleable, Len(window.data))
  BY DEF SellerInv
<1>3. Seller!ChaffLooksReal
  <2> SUFFICES ASSUME ~failed, NEW a \in Auction, auction[a].at = "inFlight", auction[a].chaff,
                      auction[a].size # SellerFixed
               PROVE  /\ \E s \in sent : s <= auction[a].size
                      /\ \E s \in sent : auction[a].size <= s
    BY DEF Seller!ChaffLooksReal, Seller!LooksLikeARequest
  <2>1. ChaffLike(auction[a].size, sent, Sampleable)
    BY <1>2 DEF GoodSize
  <2>2. Sampleable = sent
    BY DEF Sampleable
  <2> QED
    BY <2>1, <2>2 DEF ChaffLike
<1>4. Seller!PaddedOnlyUntilFilled
  <2> SUFFICES ASSUME NEW a \in Auction, auction[a].at \in {"send", "inFlight"}, auction[a].begunFull
               PROVE  \/ ~auction[a].chaff /\ auction[a].minimum = 0
                      \/ auction[a].chaff /\ auction[a].minimum \in 0..Seller!Max(sent)
    BY DEF Seller!PaddedOnlyUntilFilled
  <2>1. CASE ~auction[a].chaff
    BY <1>2, <2>1 DEF GoodSize
  <2>2. CASE auction[a].chaff
    <3> DEFINE m == auction[a].minimum
    <3>1. ChaffLike(m, sent, Sampleable)
      BY <1>2, <2>2 DEF GoodSize
    <3>2. PICK hi \in sent : m <= hi /\ m \in Seller!Sizes
      BY <3>1 DEF ChaffLike
    <3>3. sent \in SUBSET Seller!Sizes
      BY DEF SellerInv
    <3>4. Seller!Max(sent) \in sent /\ hi <= Seller!Max(sent)
      BY <3>3, LargestSize
    <3>5. m \in Nat /\ hi \in Nat /\ Seller!Max(sent) \in Nat
      BY <3>2, <3>3, <3>4, SellersSizes
    <3> QED
      BY <2>2, <3>2, <3>4, <3>5
  <2> QED
    BY <2>1, <2>2
<1> QED
  BY <1>1, <1>3, <1>4

-----------------------------------------------------------------------------
(* A buyer's windows of sizes and durations.                                 *)

BuyersStates ==
    {"idle", "bidding", "encrypted", "durationFilled", "filled", "durationMedian", "answered",
     "noValues", "error"}

BuyersRequests ==
    [at : BuyersStates, rng : BOOLEAN, filled : [d : BOOLEAN, s : BOOLEAN],
     answer : [d : 0..BuyerFixed, s : 0..BuyerFixed]]

\* What a request has read, with the samples of durations (k) and sizes (l).
GoodAnswer(r, k, l) ==
    /\ r \in BuyersRequests
    /\ r.at # "noValues"
    /\ r.filled.d => k = BuyerWindow
    /\ r.filled.s => l = BuyerWindow
    /\ r.at = "filled" => r.filled.d /\ r.filled.s
    /\ r.at \in {"durationFilled", "filled"} =>
         r.answer.d = BuyerFixed /\ r.answer.s = BuyerFixed
    /\ r.at = "durationMedian" => r.filled.s /\ r.answer.d < BuyerFixed
    /\ r.at = "answered" => (r.answer.d = BuyerFixed <=> r.answer.s = BuyerFixed)

BuyerInv ==
    /\ GoodWindow(size, BuyerWindow, Buyer!Sample)
    /\ GoodWindow(duration, BuyerWindow, Buyer!Sample)
    /\ request \in [Reactor -> BuyersRequests]
    /\ crashed \in BOOLEAN
    /\ \A r \in Reactor : GoodAnswer(request[r], Len(duration.data), Len(size.data))

LEMMA BuyersSamples ==
    /\ BuyerWindow \in Nat \ {0} /\ BuyerFixed \in Nat
    /\ Size \subseteq Buyer!Sample /\ Duration \subseteq Buyer!Sample /\ Buyer!Sample \in SUBSET Nat
    /\ \A v \in Buyer!Sample : v \in 0..(BuyerFixed - 1)
BY WindowsAssumption DEF Buyer!BuyerChaffingAssumption, Buyer!Sample

LEMMA BuyerIdleIsGood ==
    /\ Buyer!Idle \in BuyersRequests
    /\ \A k, l : GoodAnswer(Buyer!Idle, k, l)
<1>1. Buyer!Idle \in BuyersRequests
  BY BuyersSamples DEF Buyer!Idle, BuyersRequests, BuyersStates
<1>2. Buyer!Idle.at = "idle" /\ Buyer!Idle.filled.d = FALSE /\ Buyer!Idle.filled.s = FALSE
  BY DEF Buyer!Idle
<1> QED
  BY <1>1, <1>2 DEF GoodAnswer

LEMMA BuyerInitially == SharedStateInit => BuyerInv
<1> SUFFICES ASSUME SharedStateInit PROVE BuyerInv
  OBVIOUS
<1>1. /\ size = EmptyWindow /\ duration = EmptyWindow
      /\ request = [r \in Reactor |-> Buyer!Idle] /\ crashed = FALSE
  BY BuyersWindows DEF SharedStateInit, Buyer!Init
<1>2. GoodWindow(EmptyWindow, BuyerWindow, Buyer!Sample)
  BY BuyersSamples, EmptyIsGood
<1>3. request \in [Reactor -> BuyersRequests]
  BY <1>1, BuyerIdleIsGood
<1>4. \A r \in Reactor : GoodAnswer(request[r], Len(duration.data), Len(size.data))
  <2> SUFFICES ASSUME NEW r \in Reactor
               PROVE  GoodAnswer(request[r], Len(duration.data), Len(size.data))
    OBVIOUS
  <2>1. request[r] = Buyer!Idle
    BY <1>1
  <2> QED
    BY <2>1, BuyerIdleIsGood
<1> QED
  BY <1>1, <1>2, <1>3, <1>4 DEF BuyerInv

\* Neither window loses its samples.
WindowsGrow ==
    /\ GoodWindow(size', BuyerWindow, Buyer!Sample) /\ GoodWindow(duration', BuyerWindow, Buyer!Sample)
    /\ Len(size.data) = BuyerWindow => Len(size'.data) = BuyerWindow
    /\ Len(duration.data) = BuyerWindow => Len(duration'.data) = BuyerWindow

LEMMA AnsweredLater ==
    ASSUME NEW r, NEW k, NEW l, GoodAnswer(r, k, l),
           NEW k2, k = BuyerWindow => k2 = BuyerWindow, NEW l2, l = BuyerWindow => l2 = BuyerWindow
    PROVE  GoodAnswer(r, k2, l2)
BY Zenon DEF GoodAnswer

LEMMA BuyerMoves ==
    ASSUME BuyerInv, WindowsGrow, crashed' \in BOOLEAN,
           NEW r \in Reactor, NEW e, request' = [request EXCEPT ![r] = e],
           GoodAnswer(e, Len(duration'.data), Len(size'.data))
    PROVE  BuyerInv'
<1>1. e \in BuyersRequests
  BY DEF GoodAnswer
<1>2. request' \in [Reactor -> BuyersRequests]
  BY <1>1 DEF BuyerInv
<1>3. ASSUME NEW i \in Reactor
      PROVE  GoodAnswer(request'[i], Len(duration'.data), Len(size'.data))
  <2>1. CASE i = r
    <3>1. request'[i] = e
      BY <2>1 DEF BuyerInv
    <3> QED
      BY <3>1
  <2>2. CASE i # r
    <3>1. request'[i] = request[i]
      BY <2>2 DEF BuyerInv
    <3>2. GoodAnswer(request[i], Len(duration.data), Len(size.data))
      BY DEF BuyerInv
    <3>3. GoodAnswer(request[i], Len(duration'.data), Len(size'.data))
      BY <3>2, AnsweredLater DEF WindowsGrow
    <3> QED
      BY <3>1, <3>3
  <2> QED
    BY <2>1, <2>2
<1> QED
  BY <1>2, <1>3 DEF BuyerInv, WindowsGrow

LEMMA BuyerKeeps ==
    ASSUME BuyerInv, WindowsGrow, crashed' \in BOOLEAN, UNCHANGED request
    PROVE  BuyerInv'
<1>1. ASSUME NEW i \in Reactor
      PROVE  GoodAnswer(request'[i], Len(duration'.data), Len(size'.data))
  <2>1. GoodAnswer(request[i], Len(duration.data), Len(size.data))
    BY DEF BuyerInv
  <2>2. GoodAnswer(request[i], Len(duration'.data), Len(size'.data))
    BY <2>1, AnsweredLater DEF WindowsGrow
  <2> QED
    BY <2>2
<1>2. \A i \in Reactor : GoodAnswer(request'[i], Len(duration'.data), Len(size'.data))
  BY <1>1
<1>3. request' \in [Reactor -> BuyersRequests]
  BY DEF BuyerInv
<1> QED
  BY <1>2, <1>3 DEF BuyerInv, WindowsGrow

LEMMA WindowsStand == BuyerInv /\ UNCHANGED <<size, duration>> => WindowsGrow
BY Zenon DEF BuyerInv, WindowsGrow

LEMMA BuyersSampled ==
    ASSUME NEW w, GoodWindow(w, BuyerWindow, Buyer!Sample), NEW v \in Buyer!Sample, NEW x \in Buyer!Sampled(w, v)
    PROVE  /\ GoodWindow(x, BuyerWindow, Buyer!Sample)
           /\ Len(w.data) = BuyerWindow => Len(x.data) = BuyerWindow
<1>1. x = w \/ x = AddNumber(w, BuyerWindow, v)
  BY BuyersAddNumber DEF Buyer!Sampled
<1>2. CASE x = AddNumber(w, BuyerWindow, v)
  <2>1. /\ GoodWindow(x, BuyerWindow, Buyer!Sample)
        /\ Len(w.data) = BuyerWindow => Len(x.data) = BuyerWindow
    BY <1>2, BuyersSamples, WindowSampled
  <2> QED
    BY <2>1
<1> QED
  BY <1>1, <1>2

\* A request that goes on without having read anything.
LEMMA BuyerGoesTo ==
    ASSUME BuyerInv, WindowsGrow, UNCHANGED crashed, NEW r \in Reactor,
           NEW state \in {"encrypted", "error"}, Buyer!Goto(r, state)
    PROVE  BuyerInv'
<1> DEFINE q == request[r]
           e == [q EXCEPT !.at = state]
<1>1. q \in BuyersRequests /\ GoodAnswer(q, Len(duration.data), Len(size.data))
  BY DEF BuyerInv
<1>2. request' = [request EXCEPT ![r] = e]
  BY DEF Buyer!Goto, BuyerInv
<1> HIDE DEF q
<1>3. /\ e \in BuyersRequests /\ e.at = state /\ e.filled = q.filled /\ e.answer = q.answer
  BY <1>1 DEF BuyersRequests, BuyersStates
<1> HIDE DEF e
<1>4. GoodAnswer(q, Len(duration'.data), Len(size'.data))
  BY <1>1, AnsweredLater DEF WindowsGrow
<1>5. GoodAnswer(e, Len(duration'.data), Len(size'.data))
  BY <1>3, <1>4 DEF GoodAnswer
<1>6. crashed' \in BOOLEAN
  BY DEF BuyerInv
<1> QED
  BY <1>2, <1>5, <1>6, BuyerMoves

LEMMA BuyerIsIdle ==
    ASSUME BuyerInv, WindowsGrow, UNCHANGED crashed, NEW r \in Reactor,
           request' = [request EXCEPT ![r] = Buyer!Idle]
    PROVE  BuyerInv'
<1>1. crashed' \in BOOLEAN
  BY DEF BuyerInv
<1>2. GoodAnswer(Buyer!Idle, Len(duration'.data), Len(size'.data))
  BY BuyerIdleIsGood
<1> QED
  BY <1>1, <1>2, BuyerMoves

LEMMA BuyerCrashes ==
    ASSUME BuyerInv, NEW r \in Reactor, NEW w, Buyer!Crash(r, w)
    PROVE  BuyerInv'
<1>1. UNCHANGED <<size, duration, request>> /\ crashed' \in BOOLEAN
  BY DEF Buyer!Crash
<1> QED
  BY <1>1, WindowsStand, BuyerKeeps

LEMMA BuyerEncrypts ==
    ASSUME BuyerInv, NEW r \in Reactor, Buyer!EncryptResponse(r)
    PROVE  BuyerInv'
<1>1. CASE Buyer!Crash(r, size)
  BY <1>1, BuyerCrashes
<1>2. ASSUME NEW v \in Size, size' \in Buyer!Sampled(size, v),
             Buyer!Goto(r, "encrypted") \/ Buyer!Goto(r, "error"), UNCHANGED <<duration, crashed>>
      PROVE  BuyerInv'
  <2>1. GoodWindow(size, BuyerWindow, Buyer!Sample) /\ GoodWindow(duration, BuyerWindow, Buyer!Sample)
    BY DEF BuyerInv
  <2>2. /\ GoodWindow(size', BuyerWindow, Buyer!Sample)
        /\ Len(size.data) = BuyerWindow => Len(size'.data) = BuyerWindow
    BY <1>2, <2>1, BuyersSamples, BuyersSampled
  <2>3. WindowsGrow
    BY <1>2, <2>1, <2>2 DEF WindowsGrow
  <2> QED
    BY <1>2, <2>3, BuyerGoesTo
<1> QED
  BY <1>1, <1>2 DEF Buyer!EncryptResponse

LEMMA BuyerFinishes ==
    ASSUME BuyerInv, NEW r \in Reactor, Buyer!FinishWithStatus(r)
    PROVE  BuyerInv'
<1>1. CASE Buyer!Crash(r, duration)
  BY <1>1, BuyerCrashes
<1>2. ASSUME NEW v \in Duration, duration' \in Buyer!Sampled(duration, v),
             request' = [request EXCEPT ![r] = Buyer!Idle], UNCHANGED <<size, crashed>>
      PROVE  BuyerInv'
  <2>1. GoodWindow(size, BuyerWindow, Buyer!Sample) /\ GoodWindow(duration, BuyerWindow, Buyer!Sample)
    BY DEF BuyerInv
  <2>2. /\ GoodWindow(duration', BuyerWindow, Buyer!Sample)
        /\ Len(duration.data) = BuyerWindow => Len(duration'.data) = BuyerWindow
    BY <1>2, <2>1, BuyersSamples, BuyersSampled
  <2>3. WindowsGrow
    BY <1>2, <2>1, <2>2 DEF WindowsGrow
  <2> QED
    BY <1>2, <2>3, BuyerIsIdle
<1> QED
  BY <1>1, <1>2 DEF Buyer!FinishWithStatus

LEMMA BuyerStarts ==
    ASSUME BuyerInv, NEW r \in Reactor, Buyer!StartReal(r)
    PROVE  BuyerInv'
<1>1. /\ UNCHANGED <<size, duration, crashed>>
      /\ \E debug \in BOOLEAN :
            request' = [request EXCEPT ![r] =
                          [Buyer!Idle EXCEPT !.at = "bidding", !.rng = Buyer!HasGenerator(FALSE, debug)]]
  BY DEF Buyer!StartReal
<1>2. PICK debug \in BOOLEAN :
         request' = [request EXCEPT ![r] =
                       [Buyer!Idle EXCEPT !.at = "bidding", !.rng = Buyer!HasGenerator(FALSE, debug)]]
  BY <1>1
<1> DEFINE g == Buyer!HasGenerator(FALSE, debug)
           e == [Buyer!Idle EXCEPT !.at = "bidding", !.rng = g]
<1>3. g \in BOOLEAN
  BY DEF Buyer!HasGenerator
<1>4. request' = [request EXCEPT ![r] = e]
  BY <1>2
<1> HIDE DEF g
<1>5. e \in BuyersRequests /\ e.at = "bidding" /\ e.filled = Buyer!Idle.filled
  BY <1>3, BuyerIdleIsGood DEF BuyersRequests, BuyersStates
<1> HIDE DEF e
<1>6. Buyer!Idle.filled.d = FALSE /\ Buyer!Idle.filled.s = FALSE
  BY DEF Buyer!Idle
<1>7. GoodAnswer(e, Len(duration'.data), Len(size'.data))
  BY <1>5, <1>6 DEF GoodAnswer
<1>8. crashed' \in BOOLEAN
  BY <1>1 DEF BuyerInv
<1> QED
  BY <1>1, <1>4, <1>7, <1>8, WindowsStand, BuyerMoves

LEMMA BuyerReadsDurationFilled ==
    ASSUME BuyerInv, NEW r \in Reactor, Buyer!ReadDurationFilled(r)
    PROVE  BuyerInv'
<1> DEFINE g == Buyer!HasGenerator(TRUE, FALSE)
           f == Buyer!IsWindowFilled(duration, BuyerWindow)
           e == [Buyer!Idle EXCEPT !.at = "durationFilled", !.rng = g, !.filled.d = f]
<1>1. UNCHANGED <<size, duration, crashed>> /\ request' = [request EXCEPT ![r] = e]
  BY DEF Buyer!ReadDurationFilled
<1>2. g \in BOOLEAN /\ f \in BOOLEAN /\ (f => Len(duration.data) = BuyerWindow)
  BY DEF Buyer!HasGenerator, Buyer!IsWindowFilled
<1> HIDE DEF g, f
<1>3. /\ e \in BuyersRequests /\ e.at = "durationFilled" /\ e.filled.d = f
      /\ e.filled.s = Buyer!Idle.filled.s /\ e.answer = Buyer!Idle.answer
  BY <1>2, BuyerIdleIsGood DEF BuyersRequests, BuyersStates
<1> HIDE DEF e
<1>4. Buyer!Idle.filled.s = FALSE /\ Buyer!Idle.answer.d = BuyerFixed /\ Buyer!Idle.answer.s = BuyerFixed
  BY DEF Buyer!Idle
<1>5. e.filled.d => Len(duration'.data) = BuyerWindow
  BY <1>1, <1>2, <1>3
<1>6. GoodAnswer(e, Len(duration'.data), Len(size'.data))
  BY <1>3, <1>4, <1>5 DEF GoodAnswer
<1>7. crashed' \in BOOLEAN
  BY <1>1 DEF BuyerInv
<1> QED
  BY <1>1, <1>6, <1>7, WindowsStand, BuyerMoves

LEMMA BuyerReadsSizeFilled ==
    ASSUME BuyerInv, NEW r \in Reactor, Buyer!ReadSizeFilled(r)
    PROVE  BuyerInv'
<1> DEFINE q == request[r]
           f == Buyer!IsWindowFilled(size, BuyerWindow)
           filled == [q.filled EXCEPT !.s = f]
           state == IF Buyer!BothFilled(filled) THEN "filled" ELSE "answered"
           e == [q EXCEPT !.filled = filled, !.at = state]
<1>1. /\ q.at = "durationFilled" /\ UNCHANGED <<size, duration, crashed>>
      /\ request' = [request EXCEPT ![r].filled = filled, ![r].at = state]
  BY DEF Buyer!ReadSizeFilled
<1>2. q \in BuyersRequests /\ GoodAnswer(q, Len(duration.data), Len(size.data))
  BY DEF BuyerInv
<1>3. f \in BOOLEAN /\ (f => Len(size.data) = BuyerWindow)
  BY DEF Buyer!IsWindowFilled
<1> HIDE DEF f
<1>4. /\ filled \in [d : BOOLEAN, s : BOOLEAN] /\ filled.d = q.filled.d /\ filled.s = f
  BY <1>2, <1>3 DEF BuyersRequests
<1>5. state \in {"filled", "answered"} /\ (state = "filled" => filled.d /\ filled.s)
  BY DEF Buyer!BothFilled
<1> HIDE DEF filled, state
<1>6. request' = [request EXCEPT ![r] = e]
  BY <1>1 DEF BuyerInv
<1> HIDE DEF q
<1>7. e \in BuyersRequests /\ e.at = state /\ e.filled = filled /\ e.answer = q.answer
  BY <1>2, <1>4, <1>5 DEF BuyersRequests, BuyersStates
<1> HIDE DEF e
<1>8. q.answer.d = BuyerFixed /\ q.answer.s = BuyerFixed
  BY <1>1, <1>2 DEF GoodAnswer, q
<1>9. /\ e.filled.d => Len(duration'.data) = BuyerWindow
      /\ e.filled.s => Len(size'.data) = BuyerWindow
  <2>1. q.filled.d => Len(duration.data) = BuyerWindow
    BY <1>2 DEF GoodAnswer
  <2> QED
    BY <1>1, <1>3, <1>4, <1>7, <2>1
<1>10. e.at = "filled" => e.filled.d /\ e.filled.s
  BY <1>5, <1>7
<1>11. GoodAnswer(e, Len(duration'.data), Len(size'.data))
  BY <1>5, <1>7, <1>8, <1>9, <1>10 DEF GoodAnswer
<1>12. crashed' \in BOOLEAN
  BY <1>1 DEF BuyerInv
<1> QED
  BY <1>1, <1>6, <1>11, <1>12, WindowsStand, BuyerMoves

LEMMA FullWindowAnswers ==
    ASSUME NEW w, GoodWindow(w, BuyerWindow, Buyer!Sample), Len(w.data) = BuyerWindow
    PROVE  w.median \in 0..BuyerFixed /\ w.median < BuyerFixed /\ w.median # Buyer!NotFull
<1>1. PICK hi \in ToSet(w.data) : w.median \in Nat /\ w.median <= hi
  BY BuyersSamples, MedianIsBetween
<1>2. hi \in Buyer!Sample
  <2>1. w.data \in Seq(Buyer!Sample)
    BY DEF GoodWindow, Copies
  <2> QED
    BY <2>1 DEF ToSet
<1>3. hi \in Int /\ hi <= BuyerFixed - 1 /\ BuyerFixed \in Nat
  BY <1>2, BuyersSamples
<1> QED
  BY <1>1, <1>3 DEF Buyer!NotFull

LEMMA BuyerReadsDurationMedian ==
    ASSUME BuyerInv, NEW r \in Reactor, Buyer!ReadDurationMedian(r)
    PROVE  BuyerInv'
<1> DEFINE q == request[r]
           m == duration.median
           answer == [q.answer EXCEPT !.d = m]
           e == [q EXCEPT !.at = "durationMedian", !.answer = answer]
<1>1. /\ q.at = "filled" /\ UNCHANGED <<size, duration, crashed>>
      /\ request' = [request EXCEPT ![r].at = "durationMedian", ![r].answer.d = m]
  BY DEF Buyer!ReadDurationMedian
<1>2. q \in BuyersRequests /\ GoodAnswer(q, Len(duration.data), Len(size.data))
  BY DEF BuyerInv
<1>3. Len(duration.data) = BuyerWindow /\ q.filled.s
  BY <1>1, <1>2 DEF GoodAnswer
<1>4. GoodWindow(duration, BuyerWindow, Buyer!Sample)
  BY DEF BuyerInv
<1>5. m \in 0..BuyerFixed /\ m < BuyerFixed
  BY <1>3, <1>4, FullWindowAnswers
<1>6. request' = [request EXCEPT ![r] = e]
  <2> HIDE DEF m
  <2> QED
    BY <1>1, <1>2 DEF BuyerInv, BuyersRequests
<1> HIDE DEF q, m
<1>7. answer \in [d : 0..BuyerFixed, s : 0..BuyerFixed] /\ answer.d = m
  BY <1>2, <1>5 DEF BuyersRequests
<1> HIDE DEF answer
<1>8. e \in BuyersRequests /\ e.at = "durationMedian" /\ e.filled = q.filled /\ e.answer = answer
  BY <1>2, <1>7 DEF BuyersRequests, BuyersStates
<1> HIDE DEF e
<1>9. GoodAnswer(q, Len(duration'.data), Len(size'.data))
  BY <1>1, <1>2
<1>10. GoodAnswer(e, Len(duration'.data), Len(size'.data))
  BY <1>3, <1>5, <1>7, <1>8, <1>9 DEF GoodAnswer
<1>11. crashed' \in BOOLEAN
  BY <1>1 DEF BuyerInv
<1> QED
  BY <1>1, <1>6, <1>10, <1>11, WindowsStand, BuyerMoves

LEMMA BuyerReadsSizeMedian ==
    ASSUME BuyerInv, NEW r \in Reactor, Buyer!ReadSizeMedian(r)
    PROVE  BuyerInv'
<1> DEFINE q == request[r]
           m == size.median
           answer == [q.answer EXCEPT !.s = m]
           state == IF Buyer!NotFull \in {q.answer.d, m} THEN "noValues" ELSE "answered"
           e == [q EXCEPT !.answer = answer, !.at = state]
<1>1. /\ q.at = "durationMedian" /\ UNCHANGED <<size, duration, crashed>>
      /\ request' = [request EXCEPT ![r].answer.s = m, ![r].at = state]
  BY DEF Buyer!ReadSizeMedian
<1>2. q \in BuyersRequests /\ GoodAnswer(q, Len(duration.data), Len(size.data))
  BY DEF BuyerInv
<1>3. Len(size.data) = BuyerWindow /\ q.answer.d < BuyerFixed
  BY <1>1, <1>2 DEF GoodAnswer
<1>4. GoodWindow(size, BuyerWindow, Buyer!Sample)
  BY DEF BuyerInv
<1>5. m \in 0..BuyerFixed /\ m < BuyerFixed /\ m # Buyer!NotFull
  BY <1>3, <1>4, FullWindowAnswers
<1>6. q.answer.d \in 0..BuyerFixed /\ BuyerFixed \in Nat
  BY <1>2, BuyersSamples DEF BuyersRequests
<1>7. state = "answered"
  <2>1. q.answer.d # Buyer!NotFull
    BY <1>6 DEF Buyer!NotFull
  <2> QED
    BY <1>5, <2>1
<1>8. request' = [request EXCEPT ![r] = e]
  <2> HIDE DEF m, state
  <2> QED
    BY <1>1, <1>2 DEF BuyerInv, BuyersRequests
<1> HIDE DEF q, m, state
<1>9. /\ answer \in [d : 0..BuyerFixed, s : 0..BuyerFixed] /\ answer.d = q.answer.d
      /\ answer.s = m
  BY <1>2, <1>5 DEF BuyersRequests
<1> HIDE DEF answer
<1>10. e \in BuyersRequests /\ e.at = "answered" /\ e.filled = q.filled /\ e.answer = answer
  BY <1>2, <1>7, <1>9 DEF BuyersRequests, BuyersStates
<1> HIDE DEF e
<1>11. GoodAnswer(q, Len(duration'.data), Len(size'.data))
  BY <1>1, <1>2
<1>12. answer.d # BuyerFixed /\ answer.s # BuyerFixed
  BY <1>3, <1>5, <1>6, <1>9 DEF q
<1>13. GoodAnswer(e, Len(duration'.data), Len(size'.data))
  BY <1>10, <1>11, <1>12 DEF GoodAnswer
<1>14. crashed' \in BOOLEAN
  BY <1>1 DEF BuyerInv
<1> QED
  BY <1>1, <1>8, <1>13, <1>14, WindowsStand, BuyerMoves

LEMMA BuyerSteps == BuyerInv /\ Buyer!Next => BuyerInv'
<1> SUFFICES ASSUME BuyerInv, Buyer!Next PROVE BuyerInv'
  OBVIOUS
<1>1. PICK r \in Reactor :
         \/ Buyer!StartReal(r) \/ Buyer!BiddingFails(r) \/ Buyer!EncryptResponse(r) \/ Buyer!FinishWithStatus(r)
         \/ Buyer!ReadDurationFilled(r) \/ Buyer!ReadSizeFilled(r) \/ Buyer!ReadDurationMedian(r)
         \/ Buyer!ReadSizeMedian(r) \/ Buyer!Ended(r)
  BY DEF Buyer!Next
<1>2. CASE Buyer!BiddingFails(r)
  <2>1. UNCHANGED <<size, duration, crashed>> /\ Buyer!Goto(r, "error")
    BY <1>2 DEF Buyer!BiddingFails
  <2> QED
    BY <2>1, WindowsStand, BuyerGoesTo
<1>3. CASE Buyer!Ended(r)
  <2>1. UNCHANGED <<size, duration, crashed>> /\ request' = [request EXCEPT ![r] = Buyer!Idle]
    BY <1>3 DEF Buyer!Ended
  <2> QED
    BY <2>1, WindowsStand, BuyerIsIdle
<1> QED
  BY <1>1, <1>2, <1>3, BuyerStarts, BuyerEncrypts, BuyerFinishes, BuyerReadsDurationFilled,
     BuyerReadsSizeFilled, BuyerReadsDurationMedian, BuyerReadsSizeMedian

LEMMA BuyerStep == BuyerInv /\ [SharedStateNext]_allVars => BuyerInv'
<1>1. ASSUME BuyerInv, UNCHANGED buyerVars PROVE BuyerInv'
  <2>1. UNCHANGED <<size, duration>> /\ UNCHANGED request /\ UNCHANGED crashed
    BY <1>1 DEF buyerVars
  <2>2. crashed' \in BOOLEAN
    BY <1>1, <2>1 DEF BuyerInv
  <2> QED
    BY <1>1, <2>1, <2>2, WindowsStand, BuyerKeeps
<1> QED
  BY <1>1, BuyerSteps DEF SharedStateNext, allVars, buyerVars, Using

LEMMA BuyerHasItsType == BuyerInv => Buyer!TypeOK
<1> SUFFICES ASSUME BuyerInv PROVE Buyer!TypeOK
  OBVIOUS
<1>1. size \in Buyer!Windows(BuyerWindow, Buyer!Sample) /\ duration \in Buyer!Windows(BuyerWindow, Buyer!Sample)
  BY BuyersSamples, BuyersWindows, IsAWindow DEF BuyerInv
<1> QED
  BY <1>1 DEF BuyerInv, Buyer!TypeOK, BuyersRequests, BuyersStates

LEMMA BuyerAnswersChaff == BuyerInv => Buyer!WindowsHaveTheirMedians /\ Buyer!ChaffIsAnswered
<1> SUFFICES ASSUME BuyerInv PROVE Buyer!WindowsHaveTheirMedians /\ Buyer!ChaffIsAnswered
  OBVIOUS
<1>1. Buyer!WindowsHaveTheirMedians
  BY BuyersSamples, BuyersMedian, IsTheMedian DEF BuyerInv, Buyer!WindowsHaveTheirMedians
<1>2. ASSUME NEW r \in Reactor PROVE GoodAnswer(request[r], Len(duration.data), Len(size.data))
  BY DEF BuyerInv
<1>3. Buyer!ChaffIsAnswered
  BY <1>2 DEF Buyer!ChaffIsAnswered, GoodAnswer
<1> QED
  BY <1>1, <1>3

-----------------------------------------------------------------------------
(* All of them together.                                                     *)

SharedStateInv == IInv /\ KInv /\ SellerInv /\ BuyerInv

LEMMA TrackerStep == IInv /\ [SharedStateNext]_allVars => IInv'
<1>1. [SharedStateNext]_allVars => [Next]_vars
  BY DEF SharedStateNext, allVars
<1> QED
  BY <1>1, NextKeepsInvariant

\* Whichever of its parts the threads and the requests of a server use, in
\* any order: the tracker, the caches of the k-anonymity manager and the
\* windows of the chaffing front ends (AddNumber, GetMedian) each keep their
\* inductive invariant, and leave those of the others alone.
THEOREM SharedStateIsInvariant == SharedStateSpec => []SharedStateInv
<1>1. SharedStateInit => SharedStateInv
  <2>1. SharedStateInit => IInv
    BY InitEstablishesInvariant DEF SharedStateInit
  <2> QED
    BY <2>1, CachesInit, SellerInitially, BuyerInitially DEF SharedStateInv
<1>2. SharedStateInv /\ [SharedStateNext]_allVars => SharedStateInv'
  BY TrackerStep, CachesStep, SellerStep, BuyerStep DEF SharedStateInv
<1> QED
  BY <1>1, <1>2, PTL DEF SharedStateSpec

\* The counters of the tracker agree with the tasks (TaskCompleted), and the caches
\* and the windows keep their types: the list of a cache has each
\* key once, no more of them than its capacity however Insert, Evict and the
\* timers meet, num_entries_ is its length, and a window never has more
\* samples than its size, with the sorted copy beside the queue.
THEOREM SharedStateTypesOK == SharedStateSpec => []TypesOK
<1>1. SharedStateInv => TypesOK
  BY CachesHaveTheirType, SellerHasItsType, BuyerHasItsType DEF SharedStateInv, TypesOK
<1> QED
  BY <1>1, SharedStateIsInvariant, PTL

\* A hash that AreKAnonymous tells its caller to be k-anonymous, or that a
\* cache of k-anonymous hashes holds, is one of which the service has said
\* so, and likewise for the others, whichever requests query, insert, evict
\* and expire meanwhile.
THEOREM NothingIsMadeUp == SharedStateSpec => []AnswersComeFromTheService
<1>1. SharedStateInv => AnswersComeFromTheService
  BY CachesTellWhatWasSaid DEF SharedStateInv
<1> QED
  BY <1>1, SharedStateIsInvariant, PTL

\* Insert has room for the last key of a batch that fits the cache, though
\* Evict makes room for all its keys before it knows which of them are there, and may
\* evict some of these.
THEOREM BatchesAreCached == SharedStateSpec => BatchIsCached
<1>1. SharedStateInv /\ [SharedStateNext]_allVars
        => [\A r \in Requests :
              /\ req[r].pc = "insertK" /\ req'[r] # req[r]
              /\ KAnon!Cardinality(req[r].hashes) <= Capacity[KShards[req[r].shard]]
              => KAnon!OfShard(KAnon!ResolvedKAnon(r), KShards, req[r].shard)
                   \subseteq KAnon!ToSet(caches'[KShards[req[r].shard]].dll)]_(KAnon!vars)
  BY BatchStep DEF SharedStateInv
<1> QED
  BY <1>1, SharedStateIsInvariant, PTL DEF SharedStateSpec, BatchIsCached, KAnon!BatchIsCached

\* GetMedian is the median of the samples in the window, however reactors
\* interleave AddNumber and the reads; a seller's chaff is neither
\* smaller nor larger than all requests that were sent, unless an RPC has failed,
\* and is padded to the fixed size only until the window is filled
\* (IsWindowFilled); a buyer answers chaff with both medians or with both fixed
\* values.
THEOREM ChaffKeepsToTheWindows == SharedStateSpec => []ChaffFollowsTheWindows
<1>1. SharedStateInv => ChaffFollowsTheWindows
  BY SellerFollowsItsWindow, BuyerAnswersChaff DEF SharedStateInv, ChaffFollowsTheWindows
<1> QED
  BY <1>1, SharedStateIsInvariant, PTL
=============================================================================
